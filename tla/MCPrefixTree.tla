---------------------------- MODULE MCPrefixTree ----------------------------
(***************************************************************************)
(* The prefix tree over small keys; the first key inserted is all zeros.   *)
(***************************************************************************)
EXTENDS PrefixTree

ZeroKeys == {[x \in 1 .. Height |-> 0]}
=============================================================================
