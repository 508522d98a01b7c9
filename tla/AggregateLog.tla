----------------------------- MODULE AggregateLog -----------------------------
(***************************************************************************)
(* Every log of one certificate, grown event by event, whether or not the  *)
(* service would have accepted the event: the fold of CertificateAggregate *)
(* is compared on all of them with what the events say when they are read  *)
(* as a balance sheet.                                                     *)
(***************************************************************************)
EXTENDS CertificateAggregate, FiniteSetsExt

CONSTANTS
  Volumes,    \* the volumes of the movements
  MaxEvents,  \* bound: the longest log
  MaxRefused  \* bound: the longest log that is extended although it throws

ASSUME AggregateLogAssumption ==
  /\ Volumes \subseteq Nat
  /\ MaxEvents \in Nat
  /\ MaxRefused \in Nat

VARIABLE events

Init == events = {}

NewEvent(type, payload) ==
  [type |-> type, cert |-> 1, payload |-> payload,
   at |-> Cardinality(events) + 1, cmd |-> Cardinality(events) + 1]

Append(type, payload) == events' = events \cup {NewEvent(type, payload)}

\* A claim is for one account: from and to are the same.
Move ==
  \E t \in Synchronizable, a, b \in Addresses, v \in Volumes :
    /\ t = "Claimed" => a = b
    /\ t = "Issued" => a = ZeroAddress
    /\ Append(t, [from |-> a, to |-> b, volume |-> v])

Acknowledge ==
  \E e \in events :
    /\ e.type \in Synchronizable
    /\ \E t \in {PersistedType[e.type], "PersistError"} :
         Append(t, [persistedEventId |-> e.at])

Next ==
  /\ Cardinality(events) < IF Replays(events) THEN MaxEvents ELSE MaxRefused
  /\ Move \/ Acknowledge

Spec == Init /\ [][Next]_events

-----------------------------------------------------------------------------
(* The balance sheet *)

Volume(test(_)) ==
  MapThenSumSet(LAMBDA e : e.payload.volume,
                {e \in events : e.type \in Synchronizable /\ test(e)})

Received(a) == Volume(LAMBDA e : e.type # "Claimed" /\ e.payload.to = a)
Sent(a)     == Volume(LAMBDA e : /\ e.type = "Transferred"
                                 /\ e.payload.from = a /\ e.payload.to # a)
Claimed(a)  == Volume(LAMBDA e : e.type = "Claimed" /\ e.payload.from = a)
SentToSelf  == Volume(LAMBDA e : e.type = "Transferred" /\ e.payload.from = e.payload.to)
IssuedTotal == Volume(LAMBDA e : e.type = "Issued")

Sum(balances) == MapThenSumSet(LAMBDA a : balances[a], DOMAIN balances)

Certificate == FromEvents(events)

\* Every account's balance and claimed volume after a replay is what the log
\* says it received, sent and claimed (certificate.aggregate.ts:133-207); a
\* transfer to oneself counts as received and not as sent.
BalanceSheet ==
  Replays(events) =>
    \A a \in Addresses :
      /\ BalanceOf(Certificate.owners, a) = Received(a) - Sent(a) - Claimed(a)
      /\ BalanceOf(Certificate.claimers, a) = Claimed(a)

\* No volume appears or disappears: what is owned and what is claimed is
\* what was issued, plus exactly the volume of transfers to oneself, which
\* the code adds to the account (certificate.aggregate.ts:138-149).  No
\* balance is negative, although a balance sheet alone would allow it.
VolumeConserved ==
  Replays(events) =>
    /\ Sum(Certificate.owners) + Sum(Certificate.claimers) = IssuedTotal + SentToSelf
    /\ \A a \in DOMAIN Certificate.owners : Certificate.owners[a] >= 0

\* isSynced counts answers instead of matching them with events
\* (certificate.aggregate.ts:272-303).  When no event is answered with
\* success twice the count is right: a certificate is synced exactly when
\* each of its movements was persisted.
AnsweredOnce ==
  \A e, f \in events :
    /\ e.type \in Acknowledgements
    /\ f.type \in Acknowledgements
    /\ e.payload = f.payload
    => e = f
SyncedWhenAllPersisted ==
  Replays(events) /\ AnsweredOnce =>
    (Certificate.isSynced <=>
       \A e \in events :
         e.type \in Synchronizable =>
           \E f \in events : /\ f.type = PersistedType[e.type]
                             /\ f.payload.persistedEventId = e.at)

\* A log that was refused for its movements stays refused with the same
\* error whatever is appended: a poisoned certificate cannot be repaired by
\* later commands.  Only CertificateTooManyPersisted can go away.
RefusedForGood ==
  [][Certificate.error \in {"ValidationFailed", "CertificateAlreadyIssued",
                            "FirstCertificateEventIsNotIssuance"}
       => Certificate'.error = Certificate.error]_events
=============================================================================
