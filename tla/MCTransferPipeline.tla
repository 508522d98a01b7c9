-------------------------- MODULE MCTransferPipeline --------------------------
(* The transfer pipeline with a few requests and validators. *)
EXTENDS TransferPipeline, TLC

\* Requests and validators are interchangeable; only safety is checked so.
PipelineSymmetry == Permutations(Requests) \cup Permutations(Validators)

\* Issuances and transfers in batches of two, validations one by one.
SmallBatches == [issue |-> 2, validate |-> 1, transfer |-> 2]
=============================================================================
