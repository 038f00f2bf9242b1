------------------------- MODULE PipelineRefinement -------------------------
(***************************************************************************)
(* Without crashes and failing writes the write path implements the        *)
(* abstract log: queue, batches, locks and column families are invisible,  *)
(* and an entry appears at once, when the head is set.                     *)
(***************************************************************************)
EXTENDS UpdatePipeline, TLC

\* The log readers are shown: entry i is what the head's i-th tree added.
CommittedLog == [i \in 1 .. latest |-> entry[i - 1] \ PrevTree(i - 1)]

Abstract == INSTANCE VersionedLog WITH log <- CommittedLog

\* Every behaviour of the batcher and of apply_batch is one of the abstract log: each
\* write before set_head is a stutter, set_head is one Commit of the whole batch, and
\* every answer of process_batch tells the truth about the log at that moment.
ImplementsLog == Abstract!Spec

\* Jobs are interchangeable: no property orders them.
JobSymmetry == Permutations(Jobs)
=============================================================================
