-------------------------- MODULE MCUpdatePipeline --------------------------
(* Instances of UpdatePipeline for TLC. *)
EXTENDS UpdatePipeline, TLC

\* Jobs are interchangeable: no property orders them.
JobSymmetry == Permutations(Jobs)
=============================================================================
