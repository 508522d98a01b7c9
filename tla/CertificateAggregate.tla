------------------------ MODULE CertificateAggregate ------------------------
(***************************************************************************)
(* The event-sourced certificate of the off-chain module                   *)
(* (offchain-certificate/certificate.aggregate.ts): what a certificate is  *)
(* after a set of events, and which sets of events cannot be replayed.     *)
(*                                                                         *)
(* Events are a set of records: createdAt ("at") is unique, so it is also  *)
(* used as the event's id, and the set already is the list the constructor *)
(* sorts.  Of the read model only the parts that decide something are kept:*)
(* owners, claimers, isSynced, and the error the constructor throws.       *)
(***************************************************************************)
EXTENDS Integers, FiniteSets, Folds

CONSTANTS
  Addresses,        \* the accounts a command may name
  ZeroAddress,      \* 0x0...0
  MaxCertificates   \* bound: certificate ids are 1..MaxCertificates

ASSUME CertificatesAssumption == MaxCertificates \in Nat

CertificateIds == 1..MaxCertificates

-----------------------------------------------------------------------------
(* Events *)

\* The events that have to reach the chain, and the answers to them.
Synchronizable   == {"Issued", "Transferred", "Claimed"}
PersistedType    == [Issued      |-> "IssuancePersisted",
                     Transferred |-> "TransferPersisted",
                     Claimed     |-> "ClaimPersisted"]
Acknowledgements == {PersistedType[t] : t \in Synchronizable}
EventTypes       == Synchronizable \cup Acknowledgements \cup {"PersistError"}

Movement == [from: Addresses \cup {ZeroAddress}, to: Addresses, volume: Nat]
Report   == [persistedEventId: Nat]

Event == [type: EventTypes, cert: CertificateIds, payload: Movement \cup Report,
          at: Nat, cmd: Nat]

-----------------------------------------------------------------------------
(* One event applied to a certificate *)

BalanceOf(balances, a) == IF a \in DOMAIN balances THEN balances[a] ELSE 0

WithBalance(balances, a, v) ==
  [b \in DOMAIN balances \cup {a} |-> IF b = a THEN v ELSE balances[b]]

\* An account that never held volume is refused even for volume 0.
HasEnoughBalance(certificate, a, volume) ==
  a \in DOMAIN certificate.owners /\ certificate.owners[a] >= volume

CreateCertificate(e) ==
  [owners |-> WithBalance(<<>>, e.payload.to, e.payload.volume),
   claimers |-> <<>>, isSynced |-> FALSE, error |-> "none"]

Thrown(error) == [owners |-> <<>>, claimers |-> <<>>, isSynced |-> FALSE, error |-> error]

TransferIsValid(certificate, m) ==
  /\ m.from # ZeroAddress
  /\ m.to # ZeroAddress
  /\ HasEnoughBalance(certificate, m.from, m.volume)

TransferSenderLast(certificate, m) ==  \* mutant: the sender's balance is written last
  LET newFrom == BalanceOf(certificate.owners, m.from) - m.volume
      newTo   == BalanceOf(certificate.owners, m.to) + m.volume
  IN  [certificate EXCEPT
         !.owners = WithBalance(WithBalance(@, m.to, newTo), m.from, newFrom)]

\* Both balances are read before either is written and the receiver's is
\* written last: a transfer to oneself adds the volume.
Transfer(certificate, m) ==
  LET newFrom == BalanceOf(certificate.owners, m.from) - m.volume
      newTo   == BalanceOf(certificate.owners, m.to) + m.volume
  IN  [certificate EXCEPT
         !.owners = WithBalance(WithBalance(@, m.from, newFrom), m.to, newTo)]

ClaimIsValid(certificate, m) ==
  /\ m.from # ZeroAddress
  /\ HasEnoughBalance(certificate, m.from, m.volume)

ClaimWithoutDebit(certificate, m) ==  \* mutant: the owner keeps what was claimed
  [certificate EXCEPT
     !.claimers = WithBalance(@, m.from, BalanceOf(@, m.from) + m.volume)]

Claim(certificate, m) ==
  [certificate EXCEPT
     !.owners   = WithBalance(@, m.from, @[m.from] - m.volume),
     !.claimers = WithBalance(@, m.from, BalanceOf(@, m.from) + m.volume)]

Apply(certificate, e) ==
  CASE certificate.error # "none" -> certificate
    [] certificate.error = "none" /\ e.type = "Issued" ->
         Thrown("CertificateAlreadyIssued")
    [] certificate.error = "none" /\ e.type = "Transferred" ->
         IF TransferIsValid(certificate, e.payload)
         THEN Transfer(certificate, e.payload) ELSE Thrown("ValidationFailed")
    [] certificate.error = "none" /\ e.type = "Claimed" ->
         IF ClaimIsValid(certificate, e.payload)
         THEN Claim(certificate, e.payload) ELSE Thrown("ValidationFailed")
    [] OTHER -> certificate

-----------------------------------------------------------------------------
(* A certificate from its events *)

First(events)  == CHOOSE e \in events : \A f \in events : e.at <= f.at
LatestOfDescendingSort(events) == First(events)  \* mutant
Latest(events) == CHOOSE e \in events : \A f \in events : f.at <= e.at

\* The reducer over the events after the first, in the order of createdAt.
Reduce(events) ==
  MapThenFoldSet(LAMBDA e, certificate : Apply(certificate, e),
                 CreateCertificate(First(events)),
                 LAMBDA e : e, Latest, events \ {First(events)})

ToPersistCountsErrors(events) ==  \* mutant: a PersistError counts as an answer
  Cardinality({e \in events : e.type \in Synchronizable})
    - Cardinality({e \in events : e.type \notin Synchronizable})

ToPersist(events) ==
  Cardinality({e \in events : e.type \in Synchronizable})
    - Cardinality({e \in events : e.type \in Acknowledgements})

\* What fromEvents returns, or the error it throws.
FromEvents(events) ==
  CASE events = {} -> Thrown("CertificateNoEvents")
    [] events # {} /\ First(events).type # "Issued" ->
         Thrown("FirstCertificateEventIsNotIssuance")
    [] OTHER ->
         LET certificate == Reduce(events)
         IN  IF certificate.error = "none" /\ ToPersist(events) < 0
             THEN Thrown("CertificateTooManyPersisted")
             ELSE [certificate EXCEPT !.isSynced = (ToPersist(events) = 0)]

\* Whether fromEvents returns.  That an issuance comes first is part of
\* FromEvents; it is repeated as a formula of its own for the proofs.
Replays(events) ==
  /\ \E e \in events : e.type = "Issued" /\ \A f \in events : e.at <= f.at
  /\ FromEvents(events).error = "none"
=============================================================================
