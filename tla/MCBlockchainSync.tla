--------------------------- MODULE MCBlockchainSync ---------------------------
(* The synchronization with one or two jobs and a few certificates. *)
EXTENDS BlockchainSync, TLC

\* Jobs and users are interchangeable; only safety is checked under this set.
SyncSymmetry == Permutations(Jobs) \cup Permutations(Users)
=============================================================================
