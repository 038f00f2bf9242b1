-------------------------- MODULE MCDistinguished --------------------------
(* Clients are interchangeable: no property orders them. *)
EXTENDS Distinguished

Symmetry == Permutations(Clients)
=============================================================================
