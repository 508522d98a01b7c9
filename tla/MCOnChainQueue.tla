---------------------------- MODULE MCOnChainQueue ----------------------------
(* The on-chain service with two instances and one call. *)
EXTENDS OnChainQueue

One(type) == [type |-> type, size |-> 1, withTxHash |-> FALSE]
Empty(type, withTxHash) == [type |-> type, size |-> 0, withTxHash |-> withTxHash]

\* One that is found by its certificates, one that is found by any event, one
\* that the handler refuses, and one that asks for nothing.
SomeRequests ==
  {One("Issuance"), One("Transfer"), Empty("BatchClaim", TRUE), Empty("BatchTransfer", FALSE)}
=============================================================================
