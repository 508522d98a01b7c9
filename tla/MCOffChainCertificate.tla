------------------------- MODULE MCOffChainCertificate -------------------------
(* The off-chain service with a few processes, accounts and commands. *)
EXTENDS OffChainCertificate, TLC

\* Users, synchronization jobs and accounts other than the zero address are
\* interchangeable; no property checked under this set is a temporal one.
Symmetry ==
  Permutations(Users \ Synchronizers) \cup Permutations(Synchronizers \ Users)
    \cup Permutations(Addresses \ {ZeroAddress})
=============================================================================
