------------------------------ MODULE MCWalks ------------------------------
(***************************************************************************)
(* Two enumerations that share no state: every small log, appended entry   *)
(* by entry with any timestamp that does not go back and any number of new *)
(* versions, for searches and owners; and, as initial states, every pair   *)
(* of small numbers for the arithmetic below them.                         *)
(***************************************************************************)
EXTENDS SearchWalks, OwnerWalks, Arithmetic

vars == <<tree, pair>>

Init == InitTree /\ InitPair

Next == pair = <<0, 0>> /\ AnyBatch /\ UNCHANGED pair

Spec == Init /\ [][Next]_vars
=============================================================================
