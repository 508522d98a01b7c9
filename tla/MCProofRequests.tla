--------------------------- MODULE MCProofRequests ---------------------------
(* Two readings of one device. *)
EXTENDS ProofRequests, TLC
CONSTANTS r1, r2
Devices == (r1 :> "d1") @@ (r2 :> "d1")
=============================================================================
