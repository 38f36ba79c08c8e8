-------------------------- MODULE MCIndexPipeline --------------------------
(***************************************************************************)
(* Retries for the run of IndexPipeline.                                   *)
(***************************************************************************)
EXTENDS IndexPipeline

\* One retry for each step, so that two attempts may overlap.
OneRetry == [s \in Steps |-> 1]
=============================================================================
