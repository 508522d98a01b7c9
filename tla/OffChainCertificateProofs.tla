----------------------- MODULE OffChainCertificateProofs -----------------------
(***************************************************************************)
(* Proofs about the off-chain service, for every set of processes, every   *)
(* set of accounts and volumes, and every value of the bounds: its types,  *)
(* the counts of attempts, the replay of the log and the rows when calls   *)
(* do not overlap, and what its synchronization promises when one job      *)
(* reports among any number of users.                                      *)
(***************************************************************************)
EXTENDS OffChainCertificate, TLAPS, FiniteSetTheorems

USE CertificatesAssumption, OffChainAssumption

-----------------------------------------------------------------------------
(* Commands *)

Command == [type: EventTypes, cert: CertificateIds, payload: Movement \cup Report]

\* The commands of a batch form a sequence.
LEMMA BatchIsSeq ==
  ASSUME NEW S, NEW cs \in Batches(S)
  PROVE  /\ Len(cs) \in Nat
         /\ \A i \in 1..Len(cs) : cs[i] \in S
<1>1. PICK n \in 1..MaxBatch : cs \in [1..n -> S]
  BY DEF Batches
<1>2. cs \in Seq(S) /\ Len(cs) = n
  BY <1>1
<1>3. QED
  BY <1>1, <1>2

\* The commands of transfers and claims are commands, and none is an answer.
LEMMA MovesAreCommands ==
  ASSUME NEW c \in Transfers \cup Claims
  PROVE  c \in Command /\ c.type \in {"Transferred", "Claimed"}
<1>1. CASE c \in Transfers
  BY <1>1 DEF Transfers, Command, EventTypes, Synchronizable, Movement
<1>2. CASE c \in Claims
  <2>1. PICK d \in CertificateIds, a \in Addresses, v \in Volumes :
          c = [type |-> "Claimed", cert |-> d,
               payload |-> [from |-> a, to |-> a, volume |-> v]]
    BY <1>2 DEF Claims
  <2>2. c.payload \in Movement
    BY <2>1 DEF Movement
  <2>3. QED
    BY <2>1, <2>2 DEF Command, EventTypes, Synchronizable
<1>3. QED
  BY <1>1, <1>2

-----------------------------------------------------------------------------
(* Type correctness *)

\* What the calls in progress must satisfy for their steps to be typed: new
\* events are later than the call's start, and an answer is the only event
\* of its call and is about an event with an attempt row.
CallsOK ==
  \A p \in Processes :
    /\ \A e \in calls[p].events :
         /\ calls[p].start < e.at
         /\ e.type \notin Synchronizable =>
              /\ calls[p].events = {e}
              /\ e.payload.persistedEventId \in DOMAIN attempts
    /\ calls[p].phase \in {"findAttempt", "saveAttempt", "threw"} => IsReport(p)

\* No call is a call, too.
LEMMA IdleTyped == Idle \in Call
  BY DEF Idle, NoViews, Call, Phases

\* There are no calls at the start.
LEMMA InitTyped == Init => TypeOK /\ CallsOK
  BY DEF Init, TypeOK, CallsOK, NoViews, Idle, Phases, Call

\* What a call is once it has begun.
LEMMA BeginResult ==
  ASSUME TypeOK, NEW p \in Processes, NEW cs, NEW phase, Begin(p, cs, phase)
  PROVE  /\ calls'[p].events = EventsFrom(cs)
         /\ calls'[p].start = clock
         /\ calls'[p].phase = phase
         /\ calls'[p].views = NoViews
         /\ \A q \in Processes : q # p => calls'[q] = calls[q]
  BY DEF Begin, TypeOK, Idle, Call

\* A call begins: it has typed commands, none of them an answer or only one.
LEMMA BeginTyped ==
  ASSUME TypeOK, CallsOK, NEW p \in Processes, NEW cs, NEW phase \in {"validate", "read"},
         Len(cs) \in Nat, \A i \in 1..Len(cs) : cs[i] \in Command,
         \A i \in 1..Len(cs) : cs[i].type \notin Synchronizable =>
           Len(cs) = 1 /\ cs[i].payload.persistedEventId \in DOMAIN attempts,
         Begin(p, cs, phase), attempts' = attempts
  PROVE  /\ commands' \in Nat
         /\ clock' \in Nat
         /\ calls' \in [Processes -> Call]
         /\ CallsOK'
<1>1. EventsFrom(cs) \subseteq Event
  BY DEF EventsFrom, Event, Command, TypeOK
<1> DEFINE begun == [Idle EXCEPT !.phase = phase, !.start = clock, !.size = Len(cs),
                                !.events = EventsFrom(cs)]
<1>2. /\ commands' \in Nat
      /\ clock' \in Nat
      /\ calls' \in [Processes -> Call]
  <2>1. commands' \in Nat /\ clock' \in Nat
    BY DEF Begin, TypeOK
  <2>2. begun \in Call
    BY <1>1 DEF TypeOK, Call, Idle, NoViews, Phases
  <2>3. calls' = [calls EXCEPT ![p] = begun]
    BY DEF Begin
  <2>4. QED
    BY <2>1, <2>2, <2>3 DEF TypeOK
<1>3. /\ calls'[p].events = EventsFrom(cs)
      /\ calls'[p].start = clock
      /\ calls'[p].phase = phase
      /\ \A q \in Processes : q # p => calls'[q] = calls[q]
  BY BeginResult
<1>4. ASSUME NEW e \in EventsFrom(cs)
      PROVE  /\ clock < e.at
             /\ e.type \notin Synchronizable =>
                  /\ EventsFrom(cs) = {e}
                  /\ e.payload.persistedEventId \in DOMAIN attempts
  <2>1. PICK i \in 1..Len(cs) :
          e = [type |-> cs[i].type, cert |-> cs[i].cert, payload |-> cs[i].payload,
               at |-> clock + i, cmd |-> commands + i]
    BY DEF EventsFrom
  <2>2. clock < e.at
    BY <2>1 DEF TypeOK
  <2>3. ASSUME e.type \notin Synchronizable
        PROVE  EventsFrom(cs) = {e} /\ e.payload.persistedEventId \in DOMAIN attempts
    <3>1. Len(cs) = 1 /\ cs[i].payload.persistedEventId \in DOMAIN attempts
      BY <2>1, <2>3
    <3>2. 1..Len(cs) = {i}
      BY <3>1
    <3>3. EventsFrom(cs) = {e}
      BY <2>1, <3>2 DEF EventsFrom
    <3>4. QED
      BY <2>1, <3>1, <3>3
  <2>4. QED
    BY <2>2, <2>3
<1>5. CallsOK'
  BY <1>3, <1>4 DEF CallsOK, IsReport
<1>6. QED
  BY <1>2, <1>5

\* A step of process p that keeps the events of its call, or ends the call.
LEMMA StepKeepsCallsOK ==
  ASSUME CallsOK, NEW p \in Processes,
         DOMAIN attempts \subseteq DOMAIN attempts',
         \A q \in Processes : q # p => calls'[q] = calls[q],
         \/ calls'[p] = Idle
         \/ /\ calls'[p].events = calls[p].events
            /\ calls'[p].start = calls[p].start
            /\ calls'[p].phase \in {"findAttempt", "saveAttempt", "threw"} => IsReport(p)
  PROVE  CallsOK'
<1>1. ASSUME NEW q \in Processes, NEW e \in calls'[q].events
      PROVE  /\ calls'[q].start < e.at
             /\ e.type \notin Synchronizable =>
                  /\ calls'[q].events = {e}
                  /\ e.payload.persistedEventId \in DOMAIN attempts'
  BY <1>1 DEF CallsOK, Idle
<1>2. ASSUME NEW q \in Processes, calls'[q].phase \in {"findAttempt", "saveAttempt", "threw"}
      PROVE  IsReport(q)'
  BY <1>2 DEF CallsOK, IsReport, Idle
<1>3. QED
  BY <1>1, <1>2 DEF CallsOK

\* What is left of a call that throws, or whose process dies.
LEMMA ThrowResult ==
  ASSUME TypeOK, NEW p \in Processes,
         Throw(p) \/ calls' = [calls EXCEPT ![p] = Idle]
  PROVE  /\ calls' \in [Processes -> Call]
         /\ \A q \in Processes : q # p => calls'[q] = calls[q]
         /\ calls'[p].views = NoViews
         /\ calls'[p].phase # "store"
         /\ \/ calls'[p] = Idle
            \/ /\ calls'[p].events = calls[p].events
               /\ calls'[p].start = calls[p].start
               /\ IsReport(p)
<1> DEFINE threw == [calls[p] EXCEPT !.phase = "threw", !.views = NoViews]
<1>1. threw \in Call
  <2>1. NoViews \in [CertificateIds -> SUBSET Event]
    BY DEF NoViews
  <2>2. "threw" \in Phases /\ calls[p] \in Call
    BY DEF TypeOK, Phases
  <2>3. QED
    BY <2>1, <2>2 DEF Call
<1>2. CASE calls' = [calls EXCEPT ![p] = Idle]
  BY <1>2, IdleTyped DEF TypeOK, Idle
<1>3. CASE calls' = [calls EXCEPT ![p] = threw] /\ \E e \in calls[p].events : e.type \in Acknowledgements
  <2>1. IsReport(p)
    BY <1>3 DEF IsReport, Acknowledgements, Synchronizable, PersistedType
  <2>2. /\ threw.events = calls[p].events
        /\ threw.start = calls[p].start
        /\ threw.views = NoViews
        /\ threw.phase = "threw"
    BY DEF TypeOK, Call
  <2> HIDE DEF threw
  <2>3. calls'[p] = threw
    BY <1>3 DEF TypeOK
  <2>4. QED
    BY <1>1, <1>3, <2>1, <2>2, <2>3 DEF TypeOK
<1>4. QED
  BY <1>2, <1>3 DEF Throw

\* Every step keeps the types, and what is known of the calls.
LEMMA NextTyped == TypeOK /\ CallsOK /\ [Next]_vars => TypeOK' /\ CallsOK'
<1> SUFFICES ASSUME TypeOK, CallsOK, [Next]_vars
             PROVE  TypeOK' /\ CallsOK'
  OBVIOUS
<1>1. ASSUME NEW p \in Users, Issue(p)
      PROVE  TypeOK' /\ CallsOK'
  <2>1. PICK mints \in Batches([from: {ZeroAddress}, to: Addresses, volume: Volumes]) :
          /\ lastId + Len(mints) <= MaxCertificates
          /\ lastId' = lastId + Len(mints)
          /\ Begin(p, [i \in 1..Len(mints) |->
                         [type |-> "Issued", cert |-> lastId + i, payload |-> mints[i]]], "read")
          /\ UNCHANGED <<log, attempts, rows, failures>>
    BY <1>1 DEF Issue
  <2> DEFINE n == Len(mints)
             cs == [i \in 1..n |->
                      [type |-> "Issued", cert |-> lastId + i, payload |-> mints[i]]]
  <2>2. n \in Nat /\ \A i \in 1..n : mints[i] \in Movement
    <3>1. [from: {ZeroAddress}, to: Addresses, volume: Volumes] \subseteq Movement
      BY DEF Movement
    <3>2. QED
      BY <3>1, BatchIsSeq
  <2>3. lastId' \in 0..MaxCertificates
    BY <2>1, <2>2 DEF TypeOK
  <2>4. cs \in Seq(Command) /\ Len(cs) = n
    <3>1. ASSUME NEW i \in 1..n PROVE cs[i] \in Command
      BY <2>1, <2>2 DEF Command, EventTypes, Synchronizable, CertificateIds, TypeOK
    <3>2. cs \in [1..n -> Command]
      BY <3>1
    <3>3. QED
      <4> HIDE DEF cs
      <4> QED
        BY <2>2, <3>2
  <2>5. \A i \in 1..Len(cs) : cs[i] \in Command /\ cs[i].type \in Synchronizable
    BY <2>4 DEF Synchronizable
  <2>6. /\ commands' \in Nat
        /\ clock' \in Nat
        /\ calls' \in [Processes -> Call]
        /\ CallsOK'
    <3> HIDE DEF cs
    <3>1. p \in Processes
      BY DEF Processes
    <3>2. Begin(p, cs, "read") /\ attempts' = attempts
      BY <2>1 DEF cs
    <3>3. QED
      BY <2>2, <2>4, <2>5, <3>1, <3>2, BeginTyped
  <2>7. QED
    BY <2>1, <2>3, <2>6 DEF TypeOK
<1>2. ASSUME NEW p \in Users, Move(p)
      PROVE  TypeOK' /\ CallsOK'
  <2>1. PICK c \in Transfers \cup Claims : Begin(p, <<c>>, "read")
    BY <1>2 DEF Move
  <2>2. p \in Processes /\ attempts' = attempts
    BY <1>2 DEF Move, Processes
  <2>3. \A i \in 1..Len(<<c>>) : <<c>>[i] \in Command /\ <<c>>[i].type \in Synchronizable
    BY MovesAreCommands DEF Synchronizable
  <2>4. /\ commands' \in Nat
        /\ clock' \in Nat
        /\ calls' \in [Processes -> Call]
        /\ CallsOK'
    BY <2>1, <2>2, <2>3, BeginTyped
  <2>5. QED
    BY <1>2, <2>4 DEF Move, TypeOK
<1>3. ASSUME NEW p \in Users, MoveBatch(p)
      PROVE  TypeOK' /\ CallsOK'
  <2>1. PICK cs \in Batches(Transfers) \cup Batches(Claims) : Begin(p, cs, "validate")
    BY <1>3 DEF MoveBatch
  <2>2. p \in Processes /\ attempts' = attempts
    BY <1>3 DEF MoveBatch, Processes
  <2>3. /\ Len(cs) \in Nat
        /\ \A i \in 1..Len(cs) : cs[i] \in Transfers \cup Claims
    BY BatchIsSeq
  <2>4. \A i \in 1..Len(cs) : cs[i] \in Command /\ cs[i].type \in Synchronizable
    BY <2>3, MovesAreCommands DEF Synchronizable
  <2>5. /\ commands' \in Nat
        /\ clock' \in Nat
        /\ calls' \in [Processes -> Call]
        /\ CallsOK'
    BY <2>1, <2>2, <2>3, <2>4, BeginTyped
  <2>6. QED
    BY <1>3, <2>5 DEF MoveBatch, TypeOK
<1>4. ASSUME NEW p \in Synchronizers, ReportAnswer(p)
      PROVE  TypeOK' /\ CallsOK'
  <2>0. PICK e \in ToProcess : e.type \in Synchronizable /\ \E type \in {PersistedType[e.type], "PersistError"} :
          Begin(p, <<[type |-> type, cert |-> e.cert,
                      payload |-> [persistedEventId |-> e.at]]>>, "read")
    BY <1>4 DEF ReportAnswer
  <2>1. PICK type \in {PersistedType[e.type], "PersistError"} :
          Begin(p, <<[type |-> type, cert |-> e.cert,
                      payload |-> [persistedEventId |-> e.at]]>>, "read")
    BY <2>0
  <2> DEFINE c == [type |-> type, cert |-> e.cert, payload |-> [persistedEventId |-> e.at]]
  <2>2. p \in Processes /\ attempts' = attempts
    BY <1>4 DEF ReportAnswer, Processes
  <2>3. e \in Event /\ e.at \in DOMAIN attempts
    BY DEF ToProcess, TypeOK
  <2>4. c \in Command
    <3>1. PersistedType[e.type] \in Acknowledgements
      BY <2>0 DEF Acknowledgements
    <3>2. type \in EventTypes
      BY <3>1 DEF EventTypes
    <3>3. e.cert \in CertificateIds /\ e.at \in Nat
      BY <2>3 DEF Event
    <3>4. [persistedEventId |-> e.at] \in Report
      BY <3>3 DEF Report
    <3>5. QED
      BY <3>2, <3>3, <3>4 DEF Command
  <2>5. /\ \A i \in 1..Len(<<c>>) : <<c>>[i] \in Command
        /\ \A i \in 1..Len(<<c>>) : <<c>>[i].payload.persistedEventId \in DOMAIN attempts
        /\ Len(<<c>>) = 1
    BY <2>3, <2>4
  <2>6. /\ commands' \in Nat
        /\ clock' \in Nat
        /\ calls' \in [Processes -> Call]
        /\ CallsOK'
    BY <2>1, <2>2, <2>5, BeginTyped
  <2>7. QED
    BY <1>4, <2>6 DEF ReportAnswer, TypeOK
<1>5. ASSUME NEW p \in Synchronizers, ReportError(p)
      PROVE  TypeOK' /\ CallsOK'
  <2>1. PICK e \in calls[p].events :
          Begin(p, <<[type |-> "PersistError", cert |-> e.cert, payload |-> e.payload]>>, "read")
    BY <1>5 DEF ReportError
  <2> DEFINE c == [type |-> "PersistError", cert |-> e.cert, payload |-> e.payload]
  <2>2. p \in Processes /\ attempts' = attempts
    BY <1>5 DEF ReportError, Processes
  <2>3. e \in Event /\ e.payload.persistedEventId \in DOMAIN attempts
    BY <1>5, <2>2 DEF ReportError, CallsOK, IsReport, TypeOK, Call
  <2>4. c \in Command
    BY <2>3 DEF Command, Event, EventTypes
  <2>5. /\ \A i \in 1..Len(<<c>>) : <<c>>[i] \in Command
        /\ \A i \in 1..Len(<<c>>) : <<c>>[i].payload.persistedEventId \in DOMAIN attempts
        /\ Len(<<c>>) = 1
    BY <2>3, <2>4
  <2>6. /\ commands' \in Nat
        /\ clock' \in Nat
        /\ calls' \in [Processes -> Call]
        /\ CallsOK'
    BY <2>1, <2>2, <2>5, BeginTyped
  <2>7. QED
    BY <1>5, <2>6 DEF ReportError, TypeOK
<1>6. ASSUME NEW p \in Processes, Step(p)
      PROVE  TypeOK' /\ CallsOK'
  <2>1. ASSUME NEW c \in Touched(p), Load(p, c)
        PROVE  TypeOK' /\ CallsOK'
    <3>1. c \in CertificateIds /\ View(p, c) \in SUBSET Event
      BY DEF Touched, View, LogOf, NewEventsOf, TypeOK, Call, Event
    <3>2. calls' \in [Processes -> Call]
      BY <2>1, <3>1 DEF Load, TypeOK, Call
    <3>3. CallsOK'
      BY <2>1, StepKeepsCallsOK DEF Load, tables, TypeOK, Call, CallsOK
    <3>4. QED
      BY <2>1, <3>2, <3>3 DEF Load, tables, TypeOK
  <2>2. ASSUME NEW c \in Touched(p), Reject(p, c)
        PROVE  TypeOK' /\ CallsOK'
    <3>1. Throw(p) /\ attempts' = attempts
      BY <2>2 DEF Reject, tables
    <3>2. CallsOK'
      BY <3>1, ThrowResult, StepKeepsCallsOK DEF Idle
    <3>3. calls' \in [Processes -> Call]
      BY <3>1, ThrowResult
    <3>4. QED
      BY <2>2, <3>2, <3>3 DEF Reject, tables, TypeOK
  <2>3. ASSUME Recreate(p)
        PROVE  TypeOK' /\ CallsOK'
    <3> DEFINE fresh == Recreated(p)
    <3>1. \A e \in calls[p].events : e \in Event /\ calls[p].start < e.at
      BY DEF TypeOK, Call, CallsOK
    <3>2. calls[p].start \in Nat /\ calls[p].size \in Nat /\ clock \in Nat
      BY DEF TypeOK, Call
    <3>3. \A e \in calls[p].events :
            LET f == [e EXCEPT !.at = e.at - calls[p].start + clock]
            IN  f \in Event /\ clock < f.at /\ f.type = e.type /\ f.payload = e.payload
      BY <3>1, <3>2 DEF Event
    <3>4. fresh \subseteq Event
      BY <3>3 DEF Recreated
    <3>5. calls' = [calls EXCEPT ![p] =
                      [@ EXCEPT !.phase = "read", !.start = clock, !.views = NoViews,
                                !.events = fresh]]
      BY <2>3 DEF Recreate
    <3>6. calls' \in [Processes -> Call]
      <4> HIDE DEF fresh
      <4> QED
        BY <3>2, <3>4, <3>5 DEF TypeOK, Call, Phases, NoViews
    <3>7. /\ calls'[p].events = fresh
          /\ calls'[p].start = clock
          /\ calls'[p].phase = "read"
          /\ \A q \in Processes : q # p => calls'[q] = calls[q]
      <4> HIDE DEF fresh
      <4> QED
        BY <3>5 DEF TypeOK, Call
    <3>8. ASSUME NEW f \in fresh
          PROVE  /\ clock < f.at
                 /\ f.type \notin Synchronizable =>
                      fresh = {f} /\ f.payload.persistedEventId \in DOMAIN attempts
      <4>1. PICK e \in calls[p].events : f = [e EXCEPT !.at = e.at - calls[p].start + clock]
        BY DEF Recreated
      <4>2. clock < f.at /\ f.type = e.type /\ f.payload = e.payload
        BY <3>3, <4>1
      <4>3. ASSUME f.type \notin Synchronizable
            PROVE  fresh = {f} /\ f.payload.persistedEventId \in DOMAIN attempts
        <5>1. /\ calls[p].events = {e}
              /\ e.payload.persistedEventId \in DOMAIN attempts
          BY <4>2, <4>3 DEF CallsOK
        <5>2. QED
          BY <4>1, <4>2, <5>1 DEF Recreated
      <4>4. QED
        BY <4>2, <4>3
    <3>9. attempts' = attempts
      BY <2>3 DEF Recreate, tables
    <3>10. CallsOK'
      <4> HIDE DEF fresh
      <4> QED
        BY <3>7, <3>8, <3>9 DEF CallsOK, IsReport
    <3>11. QED
      BY <2>3, <3>2, <3>6, <3>10 DEF Recreate, tables, TypeOK
  <2>4. ASSUME Project(p)
        PROVE  TypeOK' /\ CallsOK'
    <3>1. rows' \in [CertificateIds -> SUBSET Event]
      BY <2>4 DEF Project, TypeOK, Call
    <3>2. calls' \in [Processes -> Call]
      BY <2>4 DEF Project, TypeOK, Call, Phases
    <3>3. CallsOK'
      BY <2>4, StepKeepsCallsOK DEF Project, TypeOK, Call
    <3>4. QED
      BY <2>4, <3>1, <3>2, <3>3 DEF Project, TypeOK
  <2>5. ASSUME Store(p)
        PROVE  TypeOK' /\ CallsOK'
    <3> DEFINE fresh == {e.at : e \in {f \in calls[p].events : ShouldBeSynchronized(f)}}
    <3>1. fresh \subseteq Nat
      BY DEF TypeOK, Call, Event
    <3>2. attempts' = [t \in DOMAIN attempts \cup fresh |->
                         IF t \in fresh THEN [count |-> 0, failed |-> FALSE] ELSE attempts[t]]
      BY <2>5 DEF Store
    <3>3. /\ DOMAIN attempts' = DOMAIN attempts \cup fresh
          /\ attempts' \in [DOMAIN attempts' -> [count: Nat, failed: BOOLEAN]]
      <4> HIDE DEF fresh
      <4> QED
        BY <3>2 DEF TypeOK
    <3>4. log' \subseteq Event
      BY <2>5 DEF Store, TypeOK, Call
    <3>5. calls' \in [Processes -> Call]
      BY <2>5, IdleTyped DEF Store, TypeOK, Call, Phases
    <3>6. CallsOK'
      BY <2>5, <3>3, StepKeepsCallsOK DEF Store, TypeOK, Call
    <3>7. QED
      BY <2>5, <3>1, <3>3, <3>4, <3>5, <3>6 DEF Store, TypeOK
  <2>6. ASSUME FindAttempt(p)
        PROVE  TypeOK' /\ CallsOK'
    <3>1. IsReport(p)
      BY <2>6 DEF FindAttempt, CallsOK
    <3>2. PICK e \in calls[p].events :
            calls' = [calls EXCEPT ![p] =
                        [@ EXCEPT !.phase = "saveAttempt",
                                  !.count = attempts[e.payload.persistedEventId].count]]
      BY <2>6 DEF FindAttempt
    <3>3. e.payload.persistedEventId \in DOMAIN attempts
      BY <3>1 DEF IsReport, CallsOK
    <3>4. attempts[e.payload.persistedEventId].count \in Nat
      BY <3>3 DEF TypeOK
    <3>5. calls' \in [Processes -> Call]
      BY <3>2, <3>4 DEF TypeOK, Call, Phases
    <3>6. CallsOK'
      BY <2>6, <3>1, <3>2, StepKeepsCallsOK DEF FindAttempt, tables, TypeOK, Call
    <3>7. QED
      BY <2>6, <3>5, <3>6 DEF FindAttempt, tables, TypeOK
  <2>7. ASSUME SaveAttempt(p)
        PROVE  TypeOK' /\ CallsOK'
    <3>1. PICK e \in calls[p].events :
            attempts' = [attempts EXCEPT ![e.payload.persistedEventId] =
                           [count |-> calls[p].count + 1, failed |-> e.type = "PersistError"]]
      BY <2>7 DEF SaveAttempt
    <3>2. /\ DOMAIN attempts' = DOMAIN attempts
          /\ attempts' \in [DOMAIN attempts -> [count: Nat, failed: BOOLEAN]]
      <4> DEFINE row == [count |-> calls[p].count + 1, failed |-> e.type = "PersistError"]
      <4>1. calls[p].count + 1 \in Nat
        BY DEF TypeOK, Call
      <4>2. (e.type = "PersistError") \in BOOLEAN
        OBVIOUS
      <4>3. row \in [count: Nat, failed: BOOLEAN]
        BY <4>1, <4>2
      <4> HIDE DEF row
      <4>4. attempts' = [attempts EXCEPT ![e.payload.persistedEventId] = row]
        BY <3>1 DEF row
      <4>5. QED
        BY <4>3, <4>4 DEF TypeOK
    <3>3. CallsOK'
      BY <2>7, <3>2, StepKeepsCallsOK DEF SaveAttempt, TypeOK
    <3>4. QED
      BY <2>7, <3>2, <3>3, IdleTyped DEF SaveAttempt, TypeOK
  <2>8. ASSUME Fail(p)
        PROVE  TypeOK' /\ CallsOK'
    <3>1. Throw(p) \/ calls' = [calls EXCEPT ![p] = Idle]
      BY <2>8 DEF Fail
    <3>2. attempts' = attempts
      BY <2>8 DEF Fail, tables
    <3>3. CallsOK'
      BY <3>1, <3>2, ThrowResult, StepKeepsCallsOK DEF Idle
    <3>4. failures' \in 0..MaxFailures
      BY <2>8 DEF Fail, TypeOK
    <3>5. calls' \in [Processes -> Call]
      BY <3>1, ThrowResult
    <3>6. QED
      BY <2>8, <3>3, <3>4, <3>5 DEF Fail, tables, TypeOK
  <2>9. QED
    BY <1>6, <2>1, <2>2, <2>3, <2>4, <2>5, <2>6, <2>7, <2>8 DEF Step, Proceed
<1>7. CASE UNCHANGED vars
  BY <1>7 DEF vars, TypeOK, CallsOK, IsReport
<1>8. QED
  BY <1>1, <1>2, <1>3, <1>4, <1>5, <1>6, <1>7 DEF Next

\* Every variable keeps its type: in particular updateAttempt always finds
\* the attempt row it counts (certificate events are stored with their
\* attempt rows in one transaction, CertificateEvent.service.ts:17-40).
THEOREM TypeCorrectness == Spec => []TypeOK
<1>1. Init => TypeOK /\ CallsOK
  BY InitTyped
<1>2. TypeOK /\ CallsOK /\ [Next]_vars => (TypeOK /\ CallsOK)'
  BY NextTyped
<1>3. QED
  BY <1>1, <1>2, PTL DEF Spec
-----------------------------------------------------------------------------
(* The read model *)

\* What a call has read: a log that replays, made of events that are stored
\* or its own, all its own among them; it goes on to store only with the
\* logs of all its certificates.
ViewsOK ==
  \A p \in Processes :
    /\ \A c \in CertificateIds : calls[p].views[c] # {} =>
         /\ Replays(calls[p].views[c])
         /\ \A e \in calls[p].views[c] : e.cert = c /\ e \in log \cup calls[p].events
         /\ NewEventsOf(p, c) \subseteq calls[p].views[c]
    /\ calls[p].phase = "store" => AllLoaded(p)

\* A step of process p that keeps what its call has read, or discards it.
LEMMA StepKeepsViewsOK ==
  ASSUME ViewsOK, NEW p \in Processes, log \subseteq log',
         \A q \in Processes : q # p => calls'[q] = calls[q],
         \/ calls'[p].views = NoViews
         \/ calls'[p].views = calls[p].views /\ calls'[p].events = calls[p].events,
         calls'[p].phase = "store" => AllLoaded(p)'
  PROVE  ViewsOK'
<1>1. ASSUME NEW q \in Processes, NEW c \in CertificateIds, calls'[q].views[c] # {}
      PROVE  /\ Replays(calls'[q].views[c])
             /\ \A e \in calls'[q].views[c] : e.cert = c /\ e \in log' \cup calls'[q].events
             /\ {e \in calls'[q].events : e.cert = c} \subseteq calls'[q].views[c]
  <2>1. calls'[q].views = calls[q].views /\ calls'[q].events = calls[q].events
    BY <1>1 DEF NoViews
  <2>2. QED
    BY <1>1, <2>1 DEF ViewsOK, NewEventsOf
<1>2. ASSUME NEW q \in Processes, calls'[q].phase = "store"
      PROVE  AllLoaded(q)'
  BY <1>2 DEF ViewsOK, AllLoaded, Touched
<1>3. QED
  BY <1>1, <1>2 DEF ViewsOK, NewEventsOf

\* Nothing has been read at the start.
LEMMA InitRead == Init => ViewsOK /\ RowsReplay
  BY DEF Init, ViewsOK, RowsReplay, NoViews, Idle

\* Every step reads only what replays, and writes rows from what was read.
LEMMA NextRead ==
  TypeOK /\ ViewsOK /\ RowsReplay /\ [Next]_vars => ViewsOK' /\ RowsReplay'
<1> SUFFICES ASSUME TypeOK, ViewsOK, RowsReplay, [Next]_vars
             PROVE  ViewsOK' /\ RowsReplay'
  OBVIOUS
<1>1. ASSUME NEW p \in Processes, NEW cs, NEW phase \in {"validate", "read"},
             Begin(p, cs, phase), log' = log, rows' = rows
      PROVE  ViewsOK' /\ RowsReplay'
  <2>1. ViewsOK'
    BY <1>1, BeginResult, StepKeepsViewsOK
  <2>2. QED
    BY <1>1, <2>1 DEF RowsReplay
<1>2. ASSUME NEW p \in Users, Issue(p) \/ Move(p) \/ MoveBatch(p)
      PROVE  ViewsOK' /\ RowsReplay'
  <2>1. p \in Processes
    BY DEF Processes
  <2>2. CASE Issue(p)
    BY <1>1, <2>1, <2>2 DEF Issue
  <2>3. CASE Move(p)
    BY <1>1, <2>1, <2>3 DEF Move
  <2>4. CASE MoveBatch(p)
    BY <1>1, <2>1, <2>4 DEF MoveBatch
  <2>5. QED
    BY <1>2, <2>2, <2>3, <2>4
<1>3. ASSUME NEW p \in Synchronizers, ReportAnswer(p) \/ ReportError(p)
      PROVE  ViewsOK' /\ RowsReplay'
  <2>1. p \in Processes
    BY DEF Processes
  <2>2. CASE ReportAnswer(p)
    BY <1>1, <2>1, <2>2 DEF ReportAnswer
  <2>3. CASE ReportError(p)
    BY <1>1, <2>1, <2>3 DEF ReportError
  <2>4. QED
    BY <1>3, <2>2, <2>3
<1>4. ASSUME NEW p \in Processes, Step(p)
      PROVE  ViewsOK' /\ RowsReplay'
  <2>1. ASSUME NEW c \in Touched(p), Load(p, c)
        PROVE  ViewsOK' /\ RowsReplay'
    <3>1. c \in CertificateIds
      BY DEF Touched, TypeOK, Call, Event
    <3>2. /\ calls'[p].views = [calls[p].views EXCEPT ![c] = View(p, c)]
          /\ calls'[p].events = calls[p].events
          /\ calls'[p].phase = calls[p].phase
          /\ calls[p].phase # "store"
          /\ \A q \in Processes : q # p => calls'[q] = calls[q]
          /\ log' = log
          /\ rows' = rows
          /\ Replays(View(p, c))
      BY <2>1 DEF Load, TypeOK, Call, tables
    <3>3. \A d \in CertificateIds :
            calls'[p].views[d] = IF d = c THEN View(p, c) ELSE calls[p].views[d]
      BY <3>1, <3>2 DEF TypeOK, Call
    <3>4. \A d \in CertificateIds : calls'[p].views[d] # {} =>
            /\ Replays(calls'[p].views[d])
            /\ \A e \in calls'[p].views[d] : e.cert = d /\ e \in log \cup calls[p].events
            /\ NewEventsOf(p, d) \subseteq calls'[p].views[d]
      BY <3>2, <3>3 DEF ViewsOK, View, LogOf, NewEventsOf
    <3>5. ViewsOK'
      <4>1. ASSUME NEW q \in Processes, NEW d \in CertificateIds, calls'[q].views[d] # {}
            PROVE  /\ Replays(calls'[q].views[d])
                   /\ \A e \in calls'[q].views[d] : e.cert = d /\ e \in log' \cup calls'[q].events
                   /\ {e \in calls'[q].events : e.cert = d} \subseteq calls'[q].views[d]
        <5>1. CASE q = p
          BY <3>2, <3>4, <4>1, <5>1 DEF NewEventsOf
        <5>2. CASE q # p
          BY <3>2, <4>1, <5>2 DEF ViewsOK, NewEventsOf
        <5>3. QED
          BY <5>1, <5>2
      <4>2. ASSUME NEW q \in Processes, calls'[q].phase = "store"
            PROVE  AllLoaded(q)'
        BY <3>2, <4>2 DEF ViewsOK, AllLoaded, Touched
      <4>3. QED
        BY <4>1, <4>2 DEF ViewsOK, NewEventsOf
    <3>6. QED
      BY <3>2, <3>5 DEF RowsReplay
  <2>2. ASSUME NEW c \in Touched(p), Reject(p, c)
        PROVE  ViewsOK' /\ RowsReplay'
    <3>1. ViewsOK'
      BY <2>2, ThrowResult, StepKeepsViewsOK DEF Reject, tables
    <3>2. QED
      BY <2>2, <3>1 DEF Reject, tables, RowsReplay
  <2>3. ASSUME Recreate(p)
        PROVE  ViewsOK' /\ RowsReplay'
    <3>1. /\ calls'[p].views = NoViews
          /\ calls'[p].phase = "read"
          /\ \A q \in Processes : q # p => calls'[q] = calls[q]
      BY <2>3 DEF Recreate, TypeOK, Call
    <3>2. ViewsOK'
      BY <2>3, <3>1, StepKeepsViewsOK DEF Recreate, tables
    <3>3. QED
      BY <2>3, <3>2 DEF Recreate, tables, RowsReplay
  <2>4. ASSUME Project(p)
        PROVE  ViewsOK' /\ RowsReplay'
    <3>1. /\ calls'[p].views = calls[p].views
          /\ calls'[p].events = calls[p].events
          /\ \A q \in Processes : q # p => calls'[q] = calls[q]
          /\ log' = log
      BY <2>4 DEF Project, TypeOK, Call
    <3>2. AllLoaded(p)'
      BY <2>4, <3>1 DEF Project, AllLoaded, Touched
    <3>3. ViewsOK'
      BY <3>1, <3>2, StepKeepsViewsOK
    <3>4. RowsReplay'
      BY <2>4 DEF Project, RowsReplay, ViewsOK
    <3>5. QED
      BY <3>3, <3>4
  <2>5. ASSUME Store(p)
        PROVE  ViewsOK' /\ RowsReplay'
    <3>1. /\ \/ calls'[p].views = NoViews
             \/ calls'[p].views = calls[p].views /\ calls'[p].events = calls[p].events
          /\ calls'[p].phase # "store"
          /\ \A q \in Processes : q # p => calls'[q] = calls[q]
          /\ log \subseteq log'
      BY <2>5 DEF Store, TypeOK, Call, Idle
    <3>2. ViewsOK'
      BY <3>1, StepKeepsViewsOK
    <3>3. QED
      BY <2>5, <3>2 DEF Store, RowsReplay
  <2>6. ASSUME FindAttempt(p)
        PROVE  ViewsOK' /\ RowsReplay'
    <3>1. /\ calls'[p].views = calls[p].views
          /\ calls'[p].events = calls[p].events
          /\ calls'[p].phase = "saveAttempt"
          /\ \A q \in Processes : q # p => calls'[q] = calls[q]
          /\ log' = log
      BY <2>6 DEF FindAttempt, TypeOK, Call, tables
    <3>2. ViewsOK'
      BY <3>1, StepKeepsViewsOK
    <3>3. QED
      BY <2>6, <3>2 DEF FindAttempt, tables, RowsReplay
  <2>7. ASSUME SaveAttempt(p)
        PROVE  ViewsOK' /\ RowsReplay'
    <3>1. ViewsOK'
      BY <2>7, StepKeepsViewsOK DEF SaveAttempt, TypeOK, Idle
    <3>2. QED
      BY <2>7, <3>1 DEF SaveAttempt, RowsReplay
  <2>8. ASSUME Fail(p)
        PROVE  ViewsOK' /\ RowsReplay'
    <3>1. ViewsOK'
      BY <2>8, ThrowResult, StepKeepsViewsOK DEF Fail, tables
    <3>2. QED
      BY <2>8, <3>1 DEF Fail, tables, RowsReplay
  <2>9. QED
    BY <1>4, <2>1, <2>2, <2>3, <2>4, <2>5, <2>6, <2>7, <2>8 DEF Step, Proceed
<1>5. CASE UNCHANGED vars
  BY <1>5 DEF vars, ViewsOK, RowsReplay, NewEventsOf, AllLoaded, Touched
<1>6. QED
  BY <1>2, <1>3, <1>4, <1>5 DEF Next

\* Whatever runs concurrently and wherever calls end, each row of the read
\* model is the outcome of a replay that succeeded: the row is saved from an
\* aggregate, never from the table (offchain-certificate.service.ts:303-311).
THEOREM RowsAlwaysReplay == Spec => []RowsReplay
<1>1. Init => TypeOK /\ CallsOK /\ ViewsOK /\ RowsReplay
  BY InitTyped, InitRead
<1>2. TypeOK /\ CallsOK /\ ViewsOK /\ RowsReplay /\ [Next]_vars
        => (TypeOK /\ CallsOK /\ ViewsOK /\ RowsReplay)'
  BY NextTyped, NextRead
<1>3. QED
  BY <1>1, <1>2, PTL DEF Spec
-----------------------------------------------------------------------------
(* Issuance *)

\* The certificate an issuance event is for was taken from the sequence, and
\* no other issuance, stored or in a call in progress, is for the same one.
IsIssued(e) == e.type = "Issued"
IssuancesOK ==
  /\ lastId \in Nat
  /\ \A e \in log : IsIssued(e) => e.cert <= lastId
  /\ \A p \in Processes : \A e \in calls[p].events : IsIssued(e) =>
       /\ e.cert <= lastId
       /\ \A f \in log : IsIssued(f) => e.cert # f.cert
       /\ \A q \in Processes : \A f \in calls[q].events :
            IsIssued(f) /\ e.cert = f.cert => p = q /\ e = f

\* A step of process p that issues nothing: the issuances its call creates,
\* if any, replace issuances for the same certificates.
LEMMA StepKeepsIssuancesOK ==
  ASSUME IssuancesOK, NEW p \in Processes, log' = log, lastId' = lastId,
         \A q \in Processes : q # p => calls'[q] = calls[q],
         \A f \in calls'[p].events : IsIssued(f) =>
           /\ \E e \in calls[p].events : IsIssued(e) /\ e.cert = f.cert
           /\ \A g \in calls'[p].events : IsIssued(g) /\ g.cert = f.cert => g = f
  PROVE  IssuancesOK'
<1>1. ASSUME NEW q \in Processes, NEW f \in calls'[q].events, IsIssued(f)
      PROVE  \E e \in calls[q].events : IsIssued(e) /\ e.cert = f.cert
  BY <1>1
<1>2. ASSUME NEW q \in Processes, NEW r \in Processes,
             NEW f \in calls'[q].events, NEW g \in calls'[r].events,
             IsIssued(f), IsIssued(g), f.cert = g.cert
      PROVE  q = r /\ f = g
  <2>1. PICK d \in calls[q].events : IsIssued(d) /\ d.cert = f.cert
    BY <1>1, <1>2
  <2>2. PICK e \in calls[r].events : IsIssued(e) /\ e.cert = g.cert
    BY <1>1, <1>2
  <2>3. q = r /\ d = e
    BY <1>2, <2>1, <2>2 DEF IssuancesOK
  <2>4. CASE q = p
    BY <1>2, <2>3, <2>4
  <2>5. CASE q # p
    BY <1>2, <2>3, <2>5 DEF IssuancesOK
  <2>6. QED
    BY <2>3, <2>4, <2>5
<1>3. ASSUME NEW q \in Processes, NEW f \in calls'[q].events, IsIssued(f)
      PROVE  f.cert <= lastId /\ \A g \in log : IsIssued(g) => f.cert # g.cert
  <2>1. PICK e \in calls[q].events : IsIssued(e) /\ e.cert = f.cert
    BY <1>1, <1>3
  <2>2. QED
    BY <2>1 DEF IssuancesOK
<1>4. QED
  BY <1>2, <1>3 DEF IssuancesOK, IsIssued

\* The beginning of a call that issues nothing.
LEMMA BeginKeepsIssuancesOK ==
  ASSUME TypeOK, IssuancesOK, NEW p \in Processes, NEW cs, NEW phase,
         Begin(p, cs, phase), \A i \in 1..Len(cs) : cs[i].type # "Issued",
         log' = log, lastId' = lastId
  PROVE  IssuancesOK'
<1>1. \A f \in calls'[p].events : ~IsIssued(f)
  BY BeginResult DEF EventsFrom, IsIssued
<1>2. QED
  BY <1>1, BeginResult, StepKeepsIssuancesOK

\* Every step keeps issuances unique, stored or not, and first.
LEMMA NextIssues ==
  TypeOK /\ CallsOK /\ ViewsOK /\ IssuancesOK /\ IssuanceFirst /\ [Next]_vars
    => IssuancesOK' /\ IssuanceFirst'
<1> SUFFICES ASSUME TypeOK, CallsOK, ViewsOK, IssuancesOK, IssuanceFirst, [Next]_vars
             PROVE  IssuancesOK' /\ IssuanceFirst'
  OBVIOUS
<1>0. log' = log => IssuanceFirst'
  BY DEF IssuanceFirst, LogOf
<1>1. ASSUME NEW p \in Users, Issue(p)
      PROVE  IssuancesOK' /\ IssuanceFirst'
  <2>1. PICK mints \in Batches([from: {ZeroAddress}, to: Addresses, volume: Volumes]) :
          /\ lastId' = lastId + Len(mints)
          /\ Begin(p, [i \in 1..Len(mints) |->
                         [type |-> "Issued", cert |-> lastId + i, payload |-> mints[i]]], "read")
          /\ log' = log
    BY <1>1 DEF Issue
  <2> DEFINE n == Len(mints)
             cs == [i \in 1..n |->
                      [type |-> "Issued", cert |-> lastId + i, payload |-> mints[i]]]
  <2>2. n \in Nat /\ lastId \in Nat /\ p \in Processes
    BY BatchIsSeq DEF IssuancesOK, Processes
  <2>3. Len(cs) = n
    <3>1. cs \in [1..n -> {cs[i] : i \in 1..n}]
      OBVIOUS
    <3> HIDE DEF cs
    <3>2. QED
      BY <2>2, <3>1
  <2>4. /\ calls'[p].events = EventsFrom(cs)
        /\ \A q \in Processes : q # p => calls'[q] = calls[q]
    BY <2>1, <2>2, BeginResult
  <2>5. ASSUME NEW e \in EventsFrom(cs)
        PROVE  \E i \in 1..n : /\ e.cert = lastId + i
                               /\ e = [type |-> "Issued", cert |-> lastId + i,
                                       payload |-> mints[i],
                                       at |-> clock + i, cmd |-> commands + i]
    <3>1. PICK i \in 1..n :
            e = [type |-> cs[i].type, cert |-> cs[i].cert, payload |-> cs[i].payload,
                 at |-> clock + i, cmd |-> commands + i]
      <4> HIDE DEF cs
      <4> QED
        BY <2>3 DEF EventsFrom
    <3>2. cs[i] = [type |-> "Issued", cert |-> lastId + i, payload |-> mints[i]]
      OBVIOUS
    <3> HIDE DEF cs
    <3>3. QED
      BY <3>1, <3>2
  <2>6. ASSUME NEW e \in EventsFrom(cs)
        PROVE  e.cert > lastId /\ e.cert <= lastId'
    <3>1. PICK i \in 1..n : e.cert = lastId + i
      BY <2>5
    <3>2. lastId' = lastId + n
      BY <2>1
    <3> HIDE DEF n
    <3>3. QED
      BY <2>2, <3>1, <3>2
  <2>7. ASSUME NEW e \in EventsFrom(cs), NEW f \in EventsFrom(cs), e.cert = f.cert
        PROVE  e = f
    <3>1. PICK i \in 1..n : /\ e.cert = lastId + i
                            /\ e = [type |-> "Issued", cert |-> lastId + i,
                                    payload |-> mints[i],
                                    at |-> clock + i, cmd |-> commands + i]
      BY <2>5
    <3>2. PICK j \in 1..n : /\ f.cert = lastId + j
                            /\ f = [type |-> "Issued", cert |-> lastId + j,
                                    payload |-> mints[j],
                                    at |-> clock + j, cmd |-> commands + j]
      BY <2>5
    <3>3. i = j
      <4>1. lastId + i = lastId + j
        BY <2>7, <3>1, <3>2
      <4> HIDE DEF n
      <4>2. QED
        BY <2>2, <4>1
    <3>4. QED
      BY <3>1, <3>2, <3>3
  <2> HIDE DEF cs, n
  <2>8. lastId' \in Nat /\ lastId <= lastId'
    BY <2>1, <2>2 DEF n
  <2>9. /\ \A e \in log : IsIssued(e) => e.cert \in Nat /\ e.cert <= lastId
        /\ \A q \in Processes : \A e \in calls[q].events : e.cert \in Nat
    <3>1. CertificateIds \subseteq Nat
      BY DEF CertificateIds
    <3>2. /\ \A e \in log : e.cert \in CertificateIds
          /\ \A q \in Processes : \A e \in calls[q].events : e.cert \in CertificateIds
      BY DEF TypeOK, Call, Event
    <3>3. QED
      BY <3>1, <3>2 DEF IssuancesOK
  <2>10. ASSUME NEW e \in EventsFrom(cs)
         PROVE  e.cert \in Nat
    BY <2>2, <2>5
  <2>11. ASSUME NEW q \in Processes, NEW e \in calls'[q].events, IsIssued(e)
         PROVE  /\ e.cert <= lastId'
                /\ \A f \in log : IsIssued(f) => e.cert # f.cert
                /\ \A r \in Processes : \A f \in calls'[r].events :
                     IsIssued(f) /\ e.cert = f.cert => q = r /\ e = f
    <3>1. CASE q = p
      BY <2>2, <2>4, <2>6, <2>7, <2>9, <2>10, <2>11, <3>1 DEF IssuancesOK
    <3>2. CASE q # p
      BY <2>2, <2>4, <2>6, <2>8, <2>9, <2>10, <2>11, <3>2 DEF IssuancesOK
    <3>3. QED
      BY <3>1, <3>2
  <2>12. IssuancesOK'
    BY <2>1, <2>2, <2>8, <2>9, <2>11 DEF IssuancesOK, IsIssued
  <2>13. QED
    BY <1>0, <2>1, <2>12
<1>2. ASSUME NEW p \in Users, Move(p)
      PROVE  IssuancesOK' /\ IssuanceFirst'
  <2>1. PICK c \in Transfers \cup Claims : Begin(p, <<c>>, "read")
    BY <1>2 DEF Move
  <2>2. \A i \in 1..Len(<<c>>) : <<c>>[i].type # "Issued"
    BY MovesAreCommands
  <2>3. QED
    BY <1>0, <1>2, <2>1, <2>2, BeginKeepsIssuancesOK DEF Move, Processes
<1>3. ASSUME NEW p \in Users, MoveBatch(p)
      PROVE  IssuancesOK' /\ IssuanceFirst'
  <2>1. PICK cs \in Batches(Transfers) \cup Batches(Claims) : Begin(p, cs, "validate")
    BY <1>3 DEF MoveBatch
  <2>2. \A i \in 1..Len(cs) : cs[i] \in Transfers \cup Claims
    BY BatchIsSeq
  <2>3. \A i \in 1..Len(cs) : cs[i].type # "Issued"
    BY <2>2, MovesAreCommands
  <2>4. QED
    BY <1>0, <1>3, <2>1, <2>3, BeginKeepsIssuancesOK DEF MoveBatch, Processes
<1>4. ASSUME NEW p \in Synchronizers, ReportAnswer(p)
      PROVE  IssuancesOK' /\ IssuanceFirst'
  <2>1. PICK e \in ToProcess : e.type \in Synchronizable /\ \E type \in {PersistedType[e.type], "PersistError"} :
          Begin(p, <<[type |-> type, cert |-> e.cert,
                      payload |-> [persistedEventId |-> e.at]]>>, "read")
    BY <1>4 DEF ReportAnswer
  <2>2. PICK type \in {PersistedType[e.type], "PersistError"} :
          Begin(p, <<[type |-> type, cert |-> e.cert,
                      payload |-> [persistedEventId |-> e.at]]>>, "read")
    BY <2>1
  <2>3. type # "Issued"
    BY <2>1 DEF Synchronizable, PersistedType
  <2>4. QED
    BY <1>0, <1>4, <2>2, <2>3, BeginKeepsIssuancesOK DEF ReportAnswer, Processes
<1>5. ASSUME NEW p \in Synchronizers, ReportError(p)
      PROVE  IssuancesOK' /\ IssuanceFirst'
  <2>1. PICK e \in calls[p].events :
          Begin(p, <<[type |-> "PersistError", cert |-> e.cert, payload |-> e.payload]>>, "read")
    BY <1>5 DEF ReportError
  <2>2. QED
    BY <1>0, <1>5, <2>1, BeginKeepsIssuancesOK DEF ReportError, Processes
<1>6. ASSUME NEW p \in Processes, Step(p)
      PROVE  IssuancesOK' /\ IssuanceFirst'
  <2>1. ASSUME NEW S, calls'[p].events = S, S = {} \/ S = calls[p].events,
               \A q \in Processes : q # p => calls'[q] = calls[q],
               log' = log, lastId' = lastId
        PROVE  IssuancesOK' /\ IssuanceFirst'
    <3>1. \A f \in calls'[p].events : f \in calls[p].events
      BY <2>1
    <3>2. IssuancesOK'
      BY <2>1, <3>1, StepKeepsIssuancesOK DEF IssuancesOK
    <3>3. QED
      BY <1>0, <2>1, <3>2
  <2>2. ASSUME NEW c \in Touched(p), Load(p, c) \/ Reject(p, c)
        PROVE  IssuancesOK' /\ IssuanceFirst'
    <3>1. CASE Load(p, c)
      BY <2>1, <3>1 DEF Load, tables, TypeOK, Call
    <3>2. CASE Reject(p, c)
      BY <2>1, <3>2, ThrowResult DEF Reject, tables, Idle
    <3>3. QED
      BY <2>2, <3>1, <3>2
  <2>3. ASSUME Recreate(p)
        PROVE  IssuancesOK' /\ IssuanceFirst'
    <3>1. /\ calls'[p].events = Recreated(p)
          /\ \A q \in Processes : q # p => calls'[q] = calls[q]
          /\ log' = log
          /\ lastId' = lastId
      BY <2>3 DEF Recreate, TypeOK, Call, tables
    <3>2. ASSUME NEW f \in Recreated(p)
          PROVE  \E e \in calls[p].events :
                   /\ f = [e EXCEPT !.at = e.at - calls[p].start + clock]
                   /\ f.type = e.type
                   /\ f.cert = e.cert
      BY DEF Recreated, TypeOK, Call, Event
    <3>3. ASSUME NEW f \in Recreated(p), NEW g \in Recreated(p),
                 IsIssued(f), IsIssued(g), f.cert = g.cert
          PROVE  f = g
      BY <3>2, <3>3 DEF IssuancesOK, IsIssued
    <3>4. IssuancesOK'
      BY <3>1, <3>2, <3>3, StepKeepsIssuancesOK DEF IsIssued
    <3>5. QED
      BY <1>0, <3>1, <3>4
  <2>4. ASSUME Project(p)
        PROVE  IssuancesOK' /\ IssuanceFirst'
    BY <2>1, <2>4 DEF Project, TypeOK, Call
  <2>5. ASSUME Store(p)
        PROVE  IssuancesOK' /\ IssuanceFirst'
    <3>1. /\ \/ calls'[p].events = {}
             \/ calls'[p].events = calls[p].events /\ IsReport(p)
          /\ \A q \in Processes : q # p => calls'[q] = calls[q]
          /\ log' = log \cup calls[p].events
          /\ lastId' = lastId
          /\ calls[p].phase = "store"
      BY <2>5 DEF Store, TypeOK, Call, Idle
    <3>2. \A f \in calls'[p].events : ~IsIssued(f)
      BY <3>1 DEF CallsOK, IsReport, IsIssued, Synchronizable
    <3>3. IssuancesOK'
      BY <3>1, <3>2 DEF IssuancesOK, IsIssued
    <3>4. ASSUME NEW e \in log'
          PROVE  \E i \in LogOf(e.cert)' :
                   /\ i.type = "Issued"
                   /\ i.at <= e.at
                   /\ \A j \in LogOf(e.cert)' : j.type = "Issued" => j = i
      <4>1. CASE e \in log
        <5>1. PICK i \in LogOf(e.cert) :
                /\ i.type = "Issued"
                /\ i.at <= e.at
                /\ \A j \in LogOf(e.cert) : j.type = "Issued" => j = i
          BY <4>1 DEF IssuanceFirst
        <5>2. ASSUME NEW j \in log', j.cert = e.cert, j.type = "Issued"
              PROVE  j = i
          BY <3>1, <5>1, <5>2 DEF IssuancesOK, IsIssued, LogOf
        <5>3. QED
          BY <3>1, <5>1, <5>2 DEF LogOf
      <4>2. CASE e \in calls[p].events
        <5>1. e.cert \in CertificateIds /\ e.cert \in Touched(p)
          BY <4>2 DEF Touched, TypeOK, Call, Event
        <5>2. /\ Replays(calls[p].views[e.cert])
              /\ \A f \in calls[p].views[e.cert] :
                   f.cert = e.cert /\ f \in log \cup calls[p].events
              /\ e \in calls[p].views[e.cert]
          BY <3>1, <4>2, <5>1 DEF ViewsOK, AllLoaded, NewEventsOf
        <5>3. PICK i \in calls[p].views[e.cert] : i.type = "Issued" /\ i.at <= e.at
          BY <5>2 DEF Replays
        <5>4. i \in log' /\ i.cert = e.cert
          BY <3>1, <5>2
        <5>5. ASSUME NEW j \in log', j.cert = e.cert, j.type = "Issued"
              PROVE  j = i
          <6>1. CASE i \in log /\ j \in log
            BY <5>3, <5>4, <5>5, <6>1 DEF IssuanceFirst, LogOf
          <6>2. CASE i \in calls[p].events \/ j \in calls[p].events
            BY <3>1, <5>3, <5>4, <5>5, <6>2 DEF IssuancesOK, IsIssued
          <6>3. QED
            BY <3>1, <5>4, <5>5, <6>1, <6>2
        <5>6. QED
          BY <5>3, <5>4, <5>5 DEF LogOf
      <4>3. QED
        BY <3>1, <4>1, <4>2
    <3>5. QED
      BY <3>3, <3>4 DEF IssuanceFirst, LogOf
  <2>6. ASSUME FindAttempt(p) \/ SaveAttempt(p)
        PROVE  IssuancesOK' /\ IssuanceFirst'
    <3>1. CASE FindAttempt(p)
      BY <2>1, <3>1 DEF FindAttempt, tables, TypeOK, Call
    <3>2. CASE SaveAttempt(p)
      BY <2>1, <3>2 DEF SaveAttempt, TypeOK, Idle
    <3>3. QED
      BY <2>6, <3>1, <3>2
  <2>7. ASSUME Fail(p)
        PROVE  IssuancesOK' /\ IssuanceFirst'
    BY <2>1, <2>7, ThrowResult DEF Fail, tables, Idle
  <2>8. QED
    BY <1>6, <2>2, <2>3, <2>4, <2>5, <2>6, <2>7 DEF Step, Proceed
<1>7. CASE UNCHANGED vars
  BY <1>0, <1>7 DEF vars, IssuancesOK
<1>8. QED
  BY <1>1, <1>2, <1>3, <1>4, <1>5, <1>6, <1>7 DEF Next

\* A certificate is in the event table only after its one issuance, although
\* a transfer may name an id that is not issued yet and the calls do not see
\* each other: a call stores what its replay began with
\* (offchain-certificate.service.ts:289-311), or another call has stored it.
THEOREM IssuedOnceAndFirst == Spec => []IssuanceFirst
<1> DEFINE IInv == TypeOK /\ CallsOK /\ ViewsOK /\ RowsReplay /\ IssuancesOK /\ IssuanceFirst
<1>1. Init => IssuancesOK /\ IssuanceFirst
  BY DEF Init, IssuancesOK, IssuanceFirst, Idle
<1>2. Init => IInv
  BY <1>1, InitTyped, InitRead
<1>3. IInv /\ [Next]_vars => IInv'
  BY NextTyped, NextRead, NextIssues
<1>4. QED
  BY <1>2, <1>3, PTL DEF Spec

-----------------------------------------------------------------------------
(***************************************************************************)
(* Attempts are never counted without the answers that they stand for,     *)
(* however many users and jobs run at the same time.                       *)
(***************************************************************************)

\* A call that has not stored its events, one that is to count an attempt.
Pending(p)  == calls[p].phase \in {"validate", "read", "store"}
Counting(p) == calls[p].phase \in {"findAttempt", "saveAttempt"}

\* The answers for the event of time t whose calls are over.
Done(t) ==
  {f \in log : /\ f.type \notin Synchronizable /\ f.payload.persistedEventId = t
               /\ \A p \in Processes : Counting(p) => f \notin calls[p].events}

\* Times of events are unique as far as it matters: calls do not share one,
\* and what a call is going to store is not stored yet.
TimesOK ==
  /\ IsFiniteSet(log)
  /\ \A e \in log : e.at <= clock
  /\ \A p \in Processes :
       /\ IsFiniteSet(calls[p].events)
       /\ \A e \in calls[p].events :
            /\ e.at <= calls[p].start + calls[p].size
            /\ e.at <= clock
            /\ Pending(p) => \A f \in log : e.at # f.at
            /\ Counting(p) => e \in log
            /\ \A q \in Processes : q # p => \A f \in calls[q].events : e.at # f.at

\* A count in the table, or in the memory of a call, is covered by answers
\* whose calls are over: the call's own is not among them.
Covered ==
  /\ \A t \in DOMAIN attempts : attempts[t].count <= Cardinality(Done(t))
  /\ \A p \in Processes : \A e \in calls[p].events :
       calls[p].phase = "saveAttempt" =>
         calls[p].count <= Cardinality(Done(e.payload.persistedEventId))

AttemptRows == DOMAIN attempts = {e.at : e \in {f \in log : f.type \in Synchronizable}}

CountInv == TimesOK /\ Covered /\ AttemptRows

-----------------------------------------------------------------------------
(* Sets of events *)

\* The events of a new call are finitely many, and later than all others.
LEMMA EventsFromFresh ==
  ASSUME TypeOK, NEW cs, Len(cs) \in Nat
  PROVE  /\ IsFiniteSet(EventsFrom(cs))
         /\ \A e \in EventsFrom(cs) : clock < e.at /\ e.at <= clock + Len(cs)
<1> DEFINE new(i) == [type |-> cs[i].type, cert |-> cs[i].cert, payload |-> cs[i].payload,
                      at |-> clock + i, cmd |-> commands + i]
           f == [i \in 1..Len(cs) |-> new(i)]
<1>1. EventsFrom(cs) = {new(i) : i \in 1..Len(cs)}
  BY DEF EventsFrom
<1>2. f \in Surjection(1..Len(cs), EventsFrom(cs))
  <2> HIDE DEF new
  <2>. QED BY <1>1 DEF Surjection
<1>3. IsFiniteSet(1..Len(cs))
  BY FS_Interval
<1>4. IsFiniteSet(EventsFrom(cs))
  <2> HIDE DEF f
  <2>. QED BY <1>2, <1>3, FS_Surjection
<1>5. \A i \in 1..Len(cs) : clock < new(i).at /\ new(i).at <= clock + Len(cs)
  BY DEF TypeOK
<1>. QED BY <1>1, <1>4, <1>5

\* So are those that a batch creates a second time.
LEMMA RecreatedFresh ==
  ASSUME TypeOK, CallsOK, TimesOK, NEW p \in Processes
  PROVE  /\ IsFiniteSet(Recreated(p))
         /\ \A e \in Recreated(p) : clock < e.at /\ e.at <= clock + calls[p].size
<1> DEFINE S == calls[p].events
           new(e) == [e EXCEPT !.at = e.at - calls[p].start + clock]
           f == [e \in S |-> new(e)]
<1>1. Recreated(p) = {new(e) : e \in S}
  BY DEF Recreated
<1>2. f \in Surjection(S, Recreated(p))
  <2> HIDE DEF new, S
  <2>. QED BY <1>1 DEF Surjection
<1>3. IsFiniteSet(Recreated(p))
  <2>1. IsFiniteSet(S)
    BY DEF TimesOK
  <2> HIDE DEF f, S
  <2>. QED BY <1>2, <2>1, FS_Surjection
<1>4. ASSUME NEW e \in S PROVE clock < new(e).at /\ new(e).at <= clock + calls[p].size
  <2>1. e \in Event /\ calls[p] \in Call /\ clock \in Nat
    BY DEF TypeOK, Call
  <2>2. calls[p].start < e.at /\ e.at <= calls[p].start + calls[p].size
    BY DEF CallsOK, TimesOK
  <2>3. new(e).at = e.at - calls[p].start + clock
    BY <2>1 DEF Event
  <2>4. e.at \in Nat /\ calls[p].start \in Nat /\ calls[p].size \in Nat
    BY <2>1 DEF Event, Call
  <2> HIDE DEF new
  <2>. QED BY <2>1, <2>2, <2>3, <2>4
<1>. QED BY <1>1, <1>3, <1>4

-----------------------------------------------------------------------------
(* Answers accumulate *)

\* Unless a call begins to count what is stored already, answers stay done,
\* and what they cover stays covered.
LEMMA DoneGrows ==
  ASSUME IsFiniteSet(log'), log \subseteq log',
         \A p \in Processes : Counting(p)' =>
           \A f \in calls'[p].events : f \in log => Counting(p) /\ f \in calls[p].events
  PROVE  \A t : /\ Done(t) \subseteq Done(t)'
                /\ Cardinality(Done(t)) \in Nat /\ Cardinality(Done(t)') \in Nat
                /\ Cardinality(Done(t)) <= Cardinality(Done(t)')
<1> SUFFICES ASSUME NEW t
             PROVE  /\ Done(t) \subseteq Done(t)'
                    /\ Cardinality(Done(t)) \in Nat /\ Cardinality(Done(t)') \in Nat
                    /\ Cardinality(Done(t)) <= Cardinality(Done(t)')
  OBVIOUS
<1>1. Done(t) \subseteq Done(t)'
  BY DEF Done
<1>2. Done(t)' \in SUBSET log'
  BY DEF Done
<1>3. IsFiniteSet(Done(t)')
  BY <1>2, FS_Subset
<1>4. IsFiniteSet(Done(t)) /\ Cardinality(Done(t)) <= Cardinality(Done(t)')
  <2> HIDE DEF Done
  <2>. QED BY <1>1, <1>3, FS_Subset
<1>. QED BY <1>1, <1>3, <1>4, FS_CardinalityType

\* A step of process p that stores nothing and counts nothing: its call has
\* the events it had, or new ones that are later than all others.
LEMMA CallKeeps ==
  ASSUME TypeOK, CountInv, NEW p \in Processes, log' = log, attempts' = attempts,
         TypeOK', clock <= clock',
         \A q \in Processes : q # p => calls'[q] = calls[q],
         IsFiniteSet(calls'[p].events),
         \A e \in calls'[p].events :
           /\ e.at <= calls'[p].start + calls'[p].size
           /\ e.at <= clock'
           /\ \/ clock < e.at /\ ~Counting(p)'
              \/ /\ e \in calls[p].events
                 /\ Pending(p)' => Pending(p)
                 /\ Counting(p)' => Counting(p)
           /\ calls'[p].phase = "saveAttempt" =>
                calls'[p].count <= Cardinality(Done(e.payload.persistedEventId))
  PROVE  CountInv'
<1>1. \A t : /\ Cardinality(Done(t)) \in Nat /\ Cardinality(Done(t)') \in Nat
            /\ Cardinality(Done(t)) <= Cardinality(Done(t)')
  <2>1. \A q \in Processes : Counting(q)' =>
          \A f \in calls'[q].events : f \in log => Counting(q) /\ f \in calls[q].events
    <3>1. \A f \in log : f.at <= clock /\ f.at \in Nat
      BY DEF CountInv, TimesOK, TypeOK, Event
    <3>. QED BY <3>1 DEF Counting
  <2>. QED BY <2>1, DoneGrows DEF CountInv, TimesOK
<1>2. AttemptRows'
  BY DEF CountInv, AttemptRows
<1>3. Covered'
  <2>1. ASSUME NEW t \in DOMAIN attempts
        PROVE  attempts[t].count <= Cardinality(Done(t)')
    BY <1>1 DEF CountInv, Covered, TypeOK
  <2>2. ASSUME NEW q \in Processes, NEW e \in calls'[q].events, calls'[q].phase = "saveAttempt"
        PROVE  calls'[q].count <= Cardinality(Done(e.payload.persistedEventId)')
    <3> DEFINE t == e.payload.persistedEventId
    <3>1. calls'[q].count <= Cardinality(Done(t))
      BY <2>2 DEF CountInv, Covered
    <3>2. calls'[q].count \in Nat
      BY DEF TypeOK, Call
    <3>. QED BY <1>1, <3>1, <3>2
  <2>. QED BY <2>1, <2>2 DEF Covered
<1>4. TimesOK'
  <2>1. \A f \in log : f.at \in Nat /\ f.at <= clock
    BY DEF CountInv, TimesOK, TypeOK, Event
  <2>2. \A q \in Processes : \A f \in calls[q].events : f.at \in Nat /\ f.at <= clock
    BY DEF CountInv, TimesOK, TypeOK, Event, Call
  <2>3. \A e \in calls'[p].events : e.at \in Nat
    BY DEF TypeOK, Event, Call
  <2>4. clock \in Nat /\ clock' \in Nat
    BY DEF TypeOK
  <2>5. ASSUME NEW q \in Processes, NEW e \in calls'[q].events
        PROVE  /\ e.at <= calls'[q].start + calls'[q].size
               /\ e.at <= clock'
               /\ Pending(q)' => \A f \in log : e.at # f.at
               /\ Counting(q)' => e \in log
               /\ \A r \in Processes : r # q => \A f \in calls'[r].events : e.at # f.at
    <3>1. CASE q = p
      <4>1. CASE clock < e.at /\ ~Counting(p)'
        BY <2>1, <2>2, <2>3, <2>4, <3>1, <4>1
      <4>2. CASE e \in calls[p].events
        BY <2>1, <2>2, <2>3, <2>4, <3>1, <4>2 DEF CountInv, TimesOK
      <4>. QED BY <3>1, <4>1, <4>2
    <3>2. CASE q # p
      <4>1. /\ e.at <= calls'[q].start + calls'[q].size
            /\ e.at <= clock'
            /\ Pending(q)' => \A f \in log : e.at # f.at
            /\ Counting(q)' => e \in log
        BY <2>2, <2>4, <2>5, <3>2 DEF CountInv, TimesOK, Pending, Counting
      <4>2. ASSUME NEW r \in Processes, r # q, NEW f \in calls'[r].events
            PROVE  e.at # f.at
        <5>1. e \in calls[q].events /\ e.at \in Nat /\ e.at <= clock
          BY <2>2, <3>2
        <5>2. CASE r = p /\ clock < f.at
          BY <2>3, <2>4, <5>1, <5>2
        <5>3. CASE f \in calls[r].events
          BY <4>2, <5>1, <5>3 DEF CountInv, TimesOK
        <5>. QED BY <4>2, <5>2, <5>3
      <4>. QED BY <4>1, <4>2
    <3>. QED BY <3>1, <3>2
  <2>6. \A q \in Processes : IsFiniteSet(calls'[q].events)
    BY DEF CountInv, TimesOK
  <2>7. \A e \in log' : e.at <= clock'
    BY <2>1, <2>4
  <2>. QED BY <2>5, <2>6, <2>7 DEF CountInv, TimesOK
<1>. QED BY <1>2, <1>3, <1>4 DEF CountInv

\* A call begins.
LEMMA BeginKeepsCounts ==
  ASSUME TypeOK, CountInv, NEW p \in Processes, NEW cs, NEW phase \in {"validate", "read"},
         Len(cs) \in Nat, Begin(p, cs, phase), TypeOK',
         log' = log, attempts' = attempts
  PROVE  CountInv'
<1>1. /\ calls'[p].events = EventsFrom(cs)
      /\ calls'[p].start = clock
      /\ calls'[p].phase = phase
      /\ \A q \in Processes : q # p => calls'[q] = calls[q]
  BY BeginResult
<1>2. calls'[p].size = Len(cs) /\ clock' = clock + Len(cs)
  BY DEF Begin, TypeOK, Idle, Call
<1>3. calls'[p].events \subseteq Event /\ clock' \in Nat /\ clock \in Nat
  BY DEF TypeOK, Call
<1>4. /\ IsFiniteSet(calls'[p].events)
      /\ \A e \in calls'[p].events : clock < e.at /\ e.at <= clock + Len(cs)
  BY <1>1, EventsFromFresh
<1>5. ~Counting(p)' /\ calls'[p].phase # "saveAttempt"
  BY <1>1 DEF Counting
<1>. QED BY <1>1, <1>2, <1>3, <1>4, <1>5, CallKeeps

\* A call goes on with its events, or ends.
LEMMA ContinueKeepsCounts ==
  ASSUME TypeOK, CountInv, NEW p \in Processes, TypeOK',
         log' = log, attempts' = attempts, clock' = clock,
         \A q \in Processes : q # p => calls'[q] = calls[q],
         \/ calls'[p] = Idle
         \/ /\ calls'[p].events = calls[p].events
            /\ calls'[p].start = calls[p].start
            /\ calls'[p].size = calls[p].size
            /\ calls'[p].phase # "saveAttempt"
            /\ Pending(p)' => Pending(p)
            /\ Counting(p)' => Counting(p)
  PROVE  CountInv'
<1>1. clock \in Nat /\ calls'[p].events \subseteq Event
  BY DEF TypeOK, Call
<1>2. CASE calls'[p] = Idle
  <2>1. IsFiniteSet({})
    BY FS_EmptySet
  <2>2. calls'[p].events = {}
    BY <1>2 DEF Idle
  <2>3. IsFiniteSet(calls'[p].events) /\ \A e \in calls'[p].events : FALSE
    BY <2>1, <2>2
  <2>4. clock <= clock'
    BY <1>1
  <2>. QED BY <2>3, <2>4, CallKeeps
<1>3. CASE calls'[p] # Idle
  BY <1>1, <1>3, CallKeeps DEF CountInv, TimesOK
<1>. QED BY <1>2, <1>3

-----------------------------------------------------------------------------
(* The steps that store answers and count attempts *)

\* What a call stores is new, so nothing that was done is undone.
LEMMA StoreKeepsCounts ==
  ASSUME TypeOK, CallsOK, CountInv, NEW p \in Processes, Store(p), TypeOK'
  PROVE  CountInv'
<1> DEFINE E == calls[p].events
           fresh == {e.at : e \in {f \in E : ShouldBeSynchronized(f)}}
<1>1. /\ calls[p].phase = "store"
      /\ log' = log \cup E
      /\ attempts' = [t \in DOMAIN attempts \cup fresh |->
                        IF t \in fresh THEN [count |-> 0, failed |-> FALSE] ELSE attempts[t]]
      /\ clock' = clock
      /\ \A q \in Processes : q # p => calls'[q] = calls[q]
  BY DEF Store, TypeOK
<1>2. \/ calls'[p] = Idle
      \/ /\ calls'[p].events = E /\ calls'[p].start = calls[p].start
         /\ calls'[p].size = calls[p].size /\ calls'[p].phase = "findAttempt"
  BY DEF Store, TypeOK, Call
<1>3. calls'[p].events \in {{}, E} /\ ~Pending(p)' /\ calls'[p].phase # "saveAttempt"
  BY <1>2 DEF Idle, Pending
<1>4. IsFiniteSet(log') /\ IsFiniteSet(E)
  BY <1>1, FS_Union DEF CountInv, TimesOK
<1>5. \A e \in E : \A f \in log : e.at # f.at
  BY <1>1 DEF CountInv, TimesOK, Pending
<1>6. \A t : /\ Cardinality(Done(t)) \in Nat /\ Cardinality(Done(t)') \in Nat
            /\ Cardinality(Done(t)) <= Cardinality(Done(t)')
  <2>1. \A q \in Processes : Counting(q)' =>
          \A f \in calls'[q].events : f \in log => Counting(q) /\ f \in calls[q].events
    BY <1>1, <1>3, <1>5 DEF Counting
  <2>. QED BY <1>1, <1>4, <2>1, DoneGrows
<1>7. AttemptRows'
  <2>1. DOMAIN attempts' = DOMAIN attempts \cup fresh
    BY <1>1
  <2>2. {e.at : e \in {f \in log' : f.type \in Synchronizable}}
          = {e.at : e \in {f \in log : f.type \in Synchronizable}} \cup fresh
    BY <1>1 DEF ShouldBeSynchronized
  <2>. QED BY <2>1, <2>2 DEF CountInv, AttemptRows
<1>8. Covered'
  <2>1. ASSUME NEW t \in DOMAIN attempts'
        PROVE  attempts'[t].count <= Cardinality(Done(t)')
    <3>1. CASE t \in fresh
      BY <1>1, <1>6, <3>1
    <3>2. CASE t \notin fresh
      <4>1. t \in DOMAIN attempts /\ attempts'[t] = attempts[t]
        BY <1>1, <3>2
      <4>2. attempts[t].count <= Cardinality(Done(t)) /\ attempts[t].count \in Nat
        BY <4>1 DEF CountInv, Covered, TypeOK
      <4>. QED BY <1>6, <4>1, <4>2
    <3>. QED BY <3>1, <3>2
  <2>2. ASSUME NEW q \in Processes, NEW e \in calls'[q].events, calls'[q].phase = "saveAttempt"
        PROVE  calls'[q].count <= Cardinality(Done(e.payload.persistedEventId)')
    <3> DEFINE t == e.payload.persistedEventId
    <3>1. calls'[q] = calls[q]
      BY <1>1, <1>3, <2>2
    <3>2. calls[q].count <= Cardinality(Done(t)) /\ calls[q].count \in Nat
      BY <2>2, <3>1 DEF CountInv, Covered, TypeOK, Call
    <3>. QED BY <1>6, <3>1, <3>2
  <2>. QED BY <2>1, <2>2 DEF Covered
<1>9. TimesOK'
  <2>1. \A e \in log' : e.at <= clock'
    BY <1>1 DEF CountInv, TimesOK
  <2>2. \A q \in Processes : IsFiniteSet(calls'[q].events)
    BY <1>1, <1>3, <1>4, FS_EmptySet DEF CountInv, TimesOK
  <2>3. ASSUME NEW q \in Processes, NEW e \in calls'[q].events
        PROVE  /\ e.at <= calls'[q].start + calls'[q].size
               /\ e.at <= clock'
               /\ Pending(q)' => \A f \in log' : e.at # f.at
               /\ Counting(q)' => e \in log'
    <3>1. CASE q = p
      BY <1>1, <1>2, <1>3, <2>3, <3>1 DEF CountInv, TimesOK, Idle
    <3>2. CASE q # p
      <4>1. calls'[q] = calls[q] /\ \A f \in E : e.at # f.at
        BY <1>1, <2>3, <3>2 DEF CountInv, TimesOK
      <4>. QED BY <1>1, <2>3, <4>1 DEF CountInv, TimesOK, Pending, Counting
    <3>. QED BY <3>1, <3>2
  <2>4. ASSUME NEW q \in Processes, NEW e \in calls'[q].events,
               NEW r \in Processes, r # q, NEW f \in calls'[r].events
        PROVE  e.at # f.at
    <3>1. e \in calls[q].events /\ f \in calls[r].events
      BY <1>1, <1>3, <2>4
    <3>. QED BY <2>4, <3>1 DEF CountInv, TimesOK
  <2>. QED BY <1>4, <2>1, <2>2, <2>3, <2>4 DEF TimesOK
<1>. QED BY <1>7, <1>8, <1>9 DEF CountInv

\* A count that is read is covered, as it was in the table.
LEMMA FindKeepsCounts ==
  ASSUME TypeOK, CallsOK, CountInv, NEW p \in Processes, FindAttempt(p), TypeOK'
  PROVE  CountInv'
<1>1. PICK e \in calls[p].events :
        calls' = [calls EXCEPT ![p] =
                    [@ EXCEPT !.phase = "saveAttempt",
                              !.count = attempts[e.payload.persistedEventId].count]]
  BY DEF FindAttempt
<1>2. /\ calls[p].phase = "findAttempt"
      /\ log' = log /\ attempts' = attempts /\ clock' = clock
  BY DEF FindAttempt, tables
<1>3. /\ calls'[p].events = calls[p].events /\ calls'[p].start = calls[p].start
      /\ calls'[p].size = calls[p].size /\ calls'[p].phase = "saveAttempt"
      /\ calls'[p].count = attempts[e.payload.persistedEventId].count
      /\ \A q \in Processes : q # p => calls'[q] = calls[q]
  BY <1>1 DEF TypeOK, Call
<1>4. calls[p].events = {e} /\ e.payload.persistedEventId \in DOMAIN attempts
  BY <1>2 DEF CallsOK, IsReport
<1>5. \A f \in calls'[p].events :
        calls'[p].count <= Cardinality(Done(f.payload.persistedEventId))
  BY <1>3, <1>4 DEF CountInv, Covered
<1>6. Counting(p) /\ ~Pending(p)' /\ clock <= clock'
  BY <1>2, <1>3 DEF Counting, Pending, TypeOK
<1>. QED BY <1>2, <1>3, <1>5, <1>6, CallKeeps DEF CountInv, TimesOK

\* With the count that is written, the call's own answer is done.
LEMMA SaveKeepsCounts ==
  ASSUME TypeOK, CallsOK, CountInv, NEW p \in Processes, SaveAttempt(p), TypeOK'
  PROVE  CountInv'
<1>1. PICK e \in calls[p].events :
        attempts' = [attempts EXCEPT ![e.payload.persistedEventId] =
                       [count |-> calls[p].count + 1, failed |-> e.type = "PersistError"]]
  BY DEF SaveAttempt
<1> DEFINE u == e.payload.persistedEventId
<1>2. /\ calls[p].phase = "saveAttempt"
      /\ log' = log /\ clock' = clock /\ calls'[p] = Idle
      /\ \A q \in Processes : q # p => calls'[q] = calls[q]
  BY DEF SaveAttempt, TypeOK
<1>3. calls'[p].events = {} /\ ~Counting(p)' /\ ~Pending(p)'
  BY <1>2 DEF Idle, Counting, Pending
<1>4. calls[p].events = {e} /\ e.type \notin Synchronizable /\ u \in DOMAIN attempts
  BY <1>2 DEF CallsOK, IsReport
<1>5. DOMAIN attempts' = DOMAIN attempts
  BY <1>1
<1>6. attempts'[u].count = calls[p].count + 1 /\ \A t \in DOMAIN attempts : t # u => attempts'[t] = attempts[t]
  BY <1>1, <1>4
<1>7. \A t : /\ Done(t) \subseteq Done(t)'
            /\ Cardinality(Done(t)) \in Nat /\ Cardinality(Done(t)') \in Nat
            /\ Cardinality(Done(t)) <= Cardinality(Done(t)')
  <2>1. \A q \in Processes : Counting(q)' =>
          \A f \in calls'[q].events : f \in log => Counting(q) /\ f \in calls[q].events
    BY <1>2, <1>3 DEF Counting
  <2>. QED BY <1>2, <2>1, DoneGrows DEF CountInv, TimesOK
<1>8. Cardinality(Done(u)) + 1 <= Cardinality(Done(u)')
  <2>1. e \notin Done(u)
    BY <1>2 DEF Done, Counting
  <2>2. e \in Done(u)'
    <3>1. e \in log
      BY <1>2 DEF CountInv, TimesOK, Counting
    <3>2. \A q \in Processes : e \notin calls'[q].events
      BY <1>2, <1>3 DEF CountInv, TimesOK
    <3>. QED BY <1>2, <1>4, <3>1, <3>2 DEF Done
  <2>3. Done(u) \cup {e} \subseteq Done(u)'
    BY <1>7, <2>2
  <2>4. Done(u)' \in SUBSET log /\ Done(u) \in SUBSET log /\ IsFiniteSet(log)
    BY <1>2 DEF Done, CountInv, TimesOK
  <2>5. IsFiniteSet(Done(u)') /\ IsFiniteSet(Done(u))
    BY <2>4, FS_Subset
  <2> HIDE DEF u
  <2>6. Cardinality(Done(u) \cup {e}) = Cardinality(Done(u)) + 1
    BY <2>1, <2>5, FS_AddElement
  <2>7. Cardinality(Done(u) \cup {e}) <= Cardinality(Done(u)')
    BY <2>3, <2>5, FS_Subset
  <2>. QED BY <2>6, <2>7
<1>9. Covered'
  <2>1. ASSUME NEW t \in DOMAIN attempts'
        PROVE  attempts'[t].count <= Cardinality(Done(t)')
    <3>1. CASE t = u
      <4>1. calls[p].count <= Cardinality(Done(u)) /\ calls[p].count \in Nat
        BY <1>2, <1>4 DEF CountInv, Covered, TypeOK, Call
      <4>. QED BY <1>6, <1>7, <1>8, <3>1, <4>1
    <3>2. CASE t # u
      <4>1. t \in DOMAIN attempts /\ attempts'[t] = attempts[t]
        BY <1>5, <1>6, <3>2
      <4>2. attempts[t].count <= Cardinality(Done(t)) /\ attempts[t].count \in Nat
        BY <4>1 DEF CountInv, Covered, TypeOK
      <4>. QED BY <1>7, <4>1, <4>2
    <3>. QED BY <3>1, <3>2
  <2>2. ASSUME NEW q \in Processes, NEW f \in calls'[q].events, calls'[q].phase = "saveAttempt"
        PROVE  calls'[q].count <= Cardinality(Done(f.payload.persistedEventId)')
    <3> DEFINE t == f.payload.persistedEventId
    <3>1. calls'[q] = calls[q]
      BY <1>2, <1>3, <2>2
    <3>2. calls[q].count <= Cardinality(Done(t)) /\ calls[q].count \in Nat
      BY <2>2, <3>1 DEF CountInv, Covered, TypeOK, Call
    <3>. QED BY <1>7, <3>1, <3>2
  <2>. QED BY <2>1, <2>2 DEF Covered
<1>10. TimesOK'
  <2>1. \A q \in Processes : calls'[q].events = {} \/ calls'[q] = calls[q]
    BY <1>2, <1>3
  <2>2. ASSUME NEW q \in Processes, NEW f \in calls'[q].events
        PROVE  calls'[q] = calls[q] /\ q # p
    BY <1>3, <2>1, <2>2
  <2>3. \A q \in Processes : IsFiniteSet(calls'[q].events)
    BY <2>1, FS_EmptySet DEF CountInv, TimesOK
  <2>. QED BY <1>2, <2>2, <2>3 DEF CountInv, TimesOK, Pending, Counting
<1>11. AttemptRows'
  BY <1>2, <1>5 DEF CountInv, AttemptRows
<1>. QED BY <1>9, <1>10, <1>11 DEF CountInv

-----------------------------------------------------------------------------
(* All steps *)

\* A call that begins.
LEMMA BeginningKeepsCounts ==
  ASSUME TypeOK, CountInv, TypeOK',
         \/ \E p \in Users : Issue(p) \/ Move(p) \/ MoveBatch(p)
         \/ \E p \in Synchronizers : ReportAnswer(p) \/ ReportError(p)
  PROVE  CountInv'
<1>1. ASSUME NEW p \in Users, Issue(p) PROVE CountInv'
  <2>1. PICK mints \in Batches([from: {ZeroAddress}, to: Addresses, volume: Volumes]) :
          Begin(p, [i \in 1..Len(mints) |->
                     [type |-> "Issued", cert |-> lastId + i, payload |-> mints[i]]], "read")
    BY <1>1 DEF Issue
  <2> DEFINE n == Len(mints)
             cs == [i \in 1..n |->
                      [type |-> "Issued", cert |-> lastId + i, payload |-> mints[i]]]
  <2>2. n \in Nat
    BY BatchIsSeq
  <2>3. cs \in Seq({cs[i] : i \in 1..n}) /\ Len(cs) = n
    <3>1. cs \in [1..n -> {cs[i] : i \in 1..n}]
      OBVIOUS
    <3> HIDE DEF cs
    <3>. QED BY <2>2, <3>1
  <2>4. Begin(p, cs, "read") /\ p \in Processes /\ log' = log /\ attempts' = attempts
    BY <1>1, <2>1 DEF Issue, Processes
  <2> HIDE DEF cs
  <2>. QED BY <2>2, <2>3, <2>4, BeginKeepsCounts
<1>2. ASSUME NEW p \in Users, Move(p) PROVE CountInv'
  <2>1. PICK c : Begin(p, <<c>>, "read")
    BY <1>2 DEF Move
  <2>. QED BY <1>2, <2>1, BeginKeepsCounts DEF Move, Processes
<1>3. ASSUME NEW p \in Users, MoveBatch(p) PROVE CountInv'
  <2>1. PICK cs \in Batches(Transfers) \cup Batches(Claims) : Begin(p, cs, "validate")
    BY <1>3 DEF MoveBatch
  <2>2. Len(cs) \in Nat
    BY BatchIsSeq
  <2>. QED BY <1>3, <2>1, <2>2, BeginKeepsCounts DEF MoveBatch, Processes
<1>4. ASSUME NEW p \in Synchronizers, ReportAnswer(p) PROVE CountInv'
  <2>1. PICK c : Begin(p, <<c>>, "read")
    BY <1>4 DEF ReportAnswer
  <2>. QED BY <1>4, <2>1, BeginKeepsCounts DEF ReportAnswer, Processes
<1>5. ASSUME NEW p \in Synchronizers, ReportError(p) PROVE CountInv'
  <2>1. PICK c : Begin(p, <<c>>, "read")
    BY <1>5 DEF ReportError
  <2>. QED BY <1>5, <2>1, BeginKeepsCounts DEF ReportError, Processes
<1>. QED BY <1>1, <1>2, <1>3, <1>4, <1>5

\* A call that throws, or is cut off.
LEMMA ThrowKeepsCounts ==
  ASSUME TypeOK, CountInv, TypeOK', NEW p \in Processes,
         Throw(p) \/ calls' = [calls EXCEPT ![p] = Idle],
         log' = log, attempts' = attempts, clock' = clock
  PROVE  CountInv'
<1>1. \A q \in Processes : q # p => calls'[q] = calls[q]
  BY ThrowResult
<1>2. \/ calls'[p] = Idle
      \/ /\ calls'[p].events = calls[p].events
         /\ calls'[p].start = calls[p].start
         /\ calls'[p].size = calls[p].size
         /\ calls'[p].phase = "threw"
  <2> DEFINE threw == [calls[p] EXCEPT !.phase = "threw", !.views = NoViews]
  <2>1. /\ threw.events = calls[p].events
        /\ threw.start = calls[p].start
        /\ threw.size = calls[p].size
        /\ threw.phase = "threw"
    BY DEF TypeOK, Call
  <2> HIDE DEF threw
  <2>2. calls' = [calls EXCEPT ![p] = threw] \/ calls' = [calls EXCEPT ![p] = Idle]
    BY DEF Throw, threw
  <2>. QED BY <2>1, <2>2 DEF TypeOK
<1>. QED BY <1>1, <1>2, ContinueKeepsCounts DEF Pending, Counting

\* A step of a call that is neither stored nor counted by it.
LEMMA ReadingKeepsCounts ==
  ASSUME TypeOK, CallsOK, CountInv, TypeOK', NEW p \in Processes,
         (\E c \in Touched(p) : Load(p, c)) \/ Recreate(p) \/ Project(p)
  PROVE  CountInv'
<1>1. CASE \E c \in Touched(p) : Load(p, c)
  <2>1. /\ \A q \in Processes : q # p => calls'[q] = calls[q]
        /\ calls'[p].events = calls[p].events /\ calls'[p].start = calls[p].start
        /\ calls'[p].size = calls[p].size /\ calls'[p].phase = calls[p].phase
        /\ calls[p].phase \in {"validate", "read"}
        /\ log' = log /\ attempts' = attempts /\ clock' = clock
    BY <1>1 DEF Load, tables, TypeOK, Call
  <2>. QED BY <2>1, ContinueKeepsCounts DEF Pending, Counting
<1>2. CASE Recreate(p)
  <2>1. /\ \A q \in Processes : q # p => calls'[q] = calls[q]
        /\ calls'[p].events = Recreated(p) /\ calls'[p].start = clock
        /\ calls'[p].size = calls[p].size /\ calls'[p].phase = "read"
        /\ log' = log /\ attempts' = attempts /\ clock' = clock + calls[p].size
    BY <1>2 DEF Recreate, tables, TypeOK, Call
  <2>2. /\ IsFiniteSet(Recreated(p))
        /\ \A e \in Recreated(p) : clock < e.at /\ e.at <= clock + calls[p].size
    BY RecreatedFresh DEF CountInv
  <2>3. clock <= clock' /\ ~Counting(p)'
    BY <2>1 DEF TypeOK, Call, Counting
  <2>. QED BY <2>1, <2>2, <2>3, CallKeeps
<1>3. CASE Project(p)
  <2>1. /\ \A q \in Processes : q # p => calls'[q] = calls[q]
        /\ calls'[p].events = calls[p].events /\ calls'[p].start = calls[p].start
        /\ calls'[p].size = calls[p].size /\ calls'[p].phase = "store"
        /\ calls[p].phase = "read"
        /\ log' = log /\ attempts' = attempts /\ clock' = clock
    BY <1>3 DEF Project, TypeOK, Call
  <2>. QED BY <2>1, ContinueKeepsCounts DEF Pending, Counting
<1>. QED BY <1>1, <1>2, <1>3

\* Every step keeps what is counted covered by what is answered.
LEMMA NextCounts ==
  TypeOK /\ CallsOK /\ CountInv /\ [Next]_vars => CountInv'
<1> SUFFICES ASSUME TypeOK, CallsOK, CountInv, [Next]_vars PROVE CountInv'
  OBVIOUS
<1>1. TypeOK'
  BY NextTyped
<1>2. ASSUME NEW p \in Processes, NEW c \in Touched(p), Reject(p, c) PROVE CountInv'
  BY <1>1, <1>2, ThrowKeepsCounts DEF Reject, tables
<1>3. ASSUME NEW p \in Processes, Fail(p) PROVE CountInv'
  BY <1>1, <1>3, ThrowKeepsCounts DEF Fail, tables
<1>4. ASSUME NEW p \in Processes, Step(p) PROVE CountInv'
  BY <1>1, <1>2, <1>3, <1>4, ReadingKeepsCounts, StoreKeepsCounts, FindKeepsCounts,
     SaveKeepsCounts DEF Step, Proceed
<1>5. CASE UNCHANGED vars
  <2>1. /\ log' = log /\ attempts' = attempts /\ calls' = calls /\ clock' = clock
    BY <1>5 DEF vars
  <2>2. \A t : Done(t)' = Done(t)
    BY <2>1 DEF Done, Counting
  <2>3. TimesOK' /\ AttemptRows'
    BY <2>1 DEF CountInv, TimesOK, AttemptRows, Pending, Counting
  <2>4. Covered'
    BY <2>1, <2>2 DEF CountInv, Covered
  <2>. QED BY <2>3, <2>4 DEF CountInv
<1>. QED BY <1>1, <1>4, <1>5, BeginningKeepsCounts DEF Next

\* Counts that are covered never exceed the reports.
LEMMA CountsCovered == TypeOK /\ CountInv => CountsNeverExceedReports
<1> SUFFICES ASSUME TypeOK, CountInv, NEW e \in log, e.type \in Synchronizable
             PROVE  attempts[e.at].count <= Cardinality(Reports(e))
  BY DEF CountInv, AttemptRows, CountsNeverExceedReports
<1>1. e.at \in DOMAIN attempts
  BY DEF CountInv, AttemptRows
<1>2. Done(e.at) \in SUBSET Reports(e) /\ Reports(e) \in SUBSET log
  BY DEF Done, Reports
<1>3. IsFiniteSet(Reports(e))
  BY <1>2, FS_Subset DEF CountInv, TimesOK
<1>4. /\ Cardinality(Done(e.at)) <= Cardinality(Reports(e))
      /\ IsFiniteSet(Done(e.at))
  BY <1>2, <1>3, FS_Subset
<1>5. Cardinality(Done(e.at)) \in Nat /\ Cardinality(Reports(e)) \in Nat
  BY <1>3, <1>4, FS_CardinalityType
<1>6. attempts[e.at].count <= Cardinality(Done(e.at)) /\ attempts[e.at].count \in Nat
  BY <1>1 DEF CountInv, Covered, TypeOK
<1>. QED BY <1>4, <1>5, <1>6

\* However users and jobs overlap, and wherever calls end: an attempt is
\* counted only for an answer that is stored, and two reports at once lose
\* an increment but never make one (CertificateEventPostgres.repository.ts:111-126).
THEOREM AttemptsAreAnswered == Spec => []CountsNeverExceedReports
<1>1. Init => CountInv
  <2>1. IsFiniteSet({})
    BY FS_EmptySet
  <2>2. ASSUME Init
        PROVE  /\ log = {} /\ DOMAIN attempts = {}
               /\ \A p \in Processes : calls[p].events = {}
    BY <2>2 DEF Init, Idle
  <2>. QED BY <2>1, <2>2 DEF CountInv, TimesOK, Covered, AttemptRows
<1>2. TypeOK /\ CountInv => CountsNeverExceedReports
  BY CountsCovered
<1>3. TypeOK /\ CallsOK /\ CountInv /\ [Next]_vars => (TypeOK /\ CallsOK /\ CountInv)'
  BY NextTyped, NextCounts
<1>. QED BY <1>1, <1>2, <1>3, InitTyped, PTL DEF Spec

-----------------------------------------------------------------------------
(* Calls of one process, and reports of one job, among any number of users *)

\* What is loaded is still the log, and the row of a certificate differs
\* from its log only by the events of the call that is about to store them,
\* or by those of a call that failed.
Serial(p) ==
  /\ \A c \in CertificateIds : calls[p].views[c] # {} => calls[p].views[c] = View(p, c)
  /\ calls[p].phase = "store" => \A c \in Touched(p) : rows[c] = View(p, c)
  /\ failures = 0 => \A c \in CertificateIds :
       rows[c] = IF calls[p].phase = "store" THEN View(p, c) ELSE LogOf(c)
  /\ LogsReplay
  /\ RowsCoverLog

\* Nothing has been read, stored or written at the start.
LEMMA InitSerial ==
  ASSUME NEW p \in Processes
  PROVE  Init => Serial(p)
  BY DEF Init, Serial, Idle, NoViews, LogOf, LogsReplay, RowsCoverLog

\* A step that changes no table but the attempts, neither from nor to the
\* step that stores, and keeps or discards what the call has read.
LEMMA StepKeepsSerial ==
  ASSUME NEW p \in Processes, Serial(p), log' = log, rows' = rows,
         \/ calls'[p].views = NoViews
         \/ calls'[p].views = calls[p].views /\ calls'[p].events = calls[p].events,
         failures' # 0 \/ (failures' = failures /\ calls[p].phase # "store"),
         calls'[p].phase # "store"
  PROVE  Serial(p)'
<1>1. \A c \in CertificateIds : LogOf(c)' = LogOf(c)
  BY DEF LogOf
<1>2. LogsReplay' /\ RowsCoverLog'
  BY <1>1 DEF Serial, LogsReplay, RowsCoverLog
<1>3. \A c \in CertificateIds : calls'[p].views[c] # {} => calls'[p].views[c] = View(p, c)'
  BY DEF Serial, NoViews, View, LogOf, NewEventsOf
<1>4. failures' = 0 => \A c \in CertificateIds : rows'[c] = LogOf(c)'
  BY <1>1 DEF Serial
<1>5. QED
  BY <1>2, <1>3, <1>4 DEF Serial

\* Every step of the only process keeps what it knows of the tables.
LEMMA NextSerial ==
  ASSUME NEW p, Processes = {p}
  PROVE  TypeOK /\ ViewsOK /\ Serial(p) /\ [Next]_vars => Serial(p)'
<1> SUFFICES ASSUME TypeOK, ViewsOK, Serial(p), [Next]_vars
             PROVE  Serial(p)'
  OBVIOUS
<1>0. p \in Processes
  OBVIOUS
<1>1. ASSUME NEW cs, NEW phase \in {"validate", "read"}, Begin(p, cs, phase),
             calls[p].phase \in {"idle", "threw"},
             log' = log, rows' = rows, failures' = failures
      PROVE  Serial(p)'
  BY <1>0, <1>1, BeginResult, StepKeepsSerial
<1>2. ASSUME NEW q \in Users, Issue(q) \/ Move(q) \/ MoveBatch(q)
      PROVE  Serial(p)'
  <2>1. q = p
    BY DEF Processes
  <2>2. CASE Issue(q)
    BY <1>1, <2>1, <2>2 DEF Issue
  <2>3. CASE Move(q)
    BY <1>1, <2>1, <2>3 DEF Move
  <2>4. CASE MoveBatch(q)
    BY <1>1, <2>1, <2>4 DEF MoveBatch
  <2>5. QED
    BY <1>2, <2>2, <2>3, <2>4
<1>3. ASSUME NEW q \in Synchronizers, ReportAnswer(q) \/ ReportError(q)
      PROVE  Serial(p)'
  <2>1. q = p
    BY DEF Processes
  <2>2. CASE ReportAnswer(q)
    BY <1>1, <2>1, <2>2 DEF ReportAnswer
  <2>3. CASE ReportError(q)
    BY <1>1, <2>1, <2>3 DEF ReportError
  <2>4. QED
    BY <1>3, <2>2, <2>3
<1>4. ASSUME Step(p)
      PROVE  Serial(p)'
  <2>1. ASSUME NEW c \in Touched(p), Load(p, c)
        PROVE  Serial(p)'
    <3>1. c \in CertificateIds
      BY DEF Touched, TypeOK, Call, Event
    <3>2. /\ calls'[p].views = [calls[p].views EXCEPT ![c] = View(p, c)]
          /\ calls'[p].events = calls[p].events
          /\ calls'[p].phase = calls[p].phase
          /\ calls[p].phase # "store"
          /\ log' = log
          /\ rows' = rows
          /\ failures' = failures
      BY <2>1 DEF Load, TypeOK, Call, tables
    <3>3. \A d \in CertificateIds : LogOf(d)' = LogOf(d) /\ View(p, d)' = View(p, d)
      BY <3>2 DEF View, LogOf, NewEventsOf
    <3>4. \A d \in CertificateIds :
            calls'[p].views[d] = IF d = c THEN View(p, c) ELSE calls[p].views[d]
      BY <3>1, <3>2 DEF TypeOK, Call
    <3>5. \A d \in CertificateIds : calls'[p].views[d] # {} => calls'[p].views[d] = View(p, d)'
      BY <3>3, <3>4 DEF Serial
    <3>6. LogsReplay' /\ RowsCoverLog'
      BY <3>2, <3>3 DEF Serial, LogsReplay, RowsCoverLog
    <3>7. failures' = 0 => \A d \in CertificateIds : rows'[d] = LogOf(d)'
      BY <3>2, <3>3 DEF Serial
    <3>8. QED
      BY <3>2, <3>5, <3>6, <3>7 DEF Serial
  <2>2. ASSUME NEW c \in Touched(p), Reject(p, c)
        PROVE  Serial(p)'
    <3>1. /\ Throw(p)
          /\ calls[p].phase # "store"
          /\ log' = log
          /\ rows' = rows
          /\ failures' = failures
      BY <2>2 DEF Reject, tables
    <3>2. QED
      BY <1>0, <3>1, ThrowResult, StepKeepsSerial
  <2>3. ASSUME Recreate(p)
        PROVE  Serial(p)'
    <3>1. /\ calls'[p].views = NoViews
          /\ calls'[p].phase = "read"
          /\ calls[p].phase = "validate"
          /\ log' = log
          /\ rows' = rows
          /\ failures' = failures
      BY <2>3 DEF Recreate, TypeOK, Call, tables
    <3>2. QED
      BY <1>0, <3>1, StepKeepsSerial
  <2>4. ASSUME Project(p)
        PROVE  Serial(p)'
    <3>1. /\ calls'[p].views = calls[p].views
          /\ calls'[p].events = calls[p].events
          /\ calls'[p].phase = "store"
          /\ calls[p].phase = "read"
          /\ log' = log
          /\ failures' = failures
          /\ \A c \in CertificateIds :
               rows'[c] = IF c \in Touched(p) THEN calls[p].views[c] ELSE rows[c]
      BY <2>4 DEF Project, TypeOK, Call
    <3>2. \A c \in CertificateIds : LogOf(c)' = LogOf(c) /\ View(p, c)' = View(p, c)
      BY <3>1 DEF View, LogOf, NewEventsOf
    <3>3. \A c \in CertificateIds : c \in Touched(p) => calls[p].views[c] = View(p, c)
      BY <2>4 DEF Project, AllLoaded, Serial
    <3>4. \A c \in CertificateIds : c \notin Touched(p) => View(p, c) = LogOf(c)
      BY DEF Touched, View, NewEventsOf
    <3>5. \A c \in CertificateIds : LogOf(c) \subseteq View(p, c)
      BY DEF View
    <3>6. LogsReplay' /\ RowsCoverLog'
      BY <3>1, <3>2, <3>3, <3>5 DEF Serial, LogsReplay, RowsCoverLog
    <3>7. Touched(p)' = Touched(p) /\ Touched(p) \subseteq CertificateIds
      BY <3>1 DEF Touched, TypeOK, Call, Event
    <3>8. \A c \in Touched(p)' : rows'[c] = View(p, c)'
      BY <3>1, <3>2, <3>3, <3>7
    <3>9. failures' = 0 => \A c \in CertificateIds : rows'[c] = View(p, c)'
      BY <3>1, <3>2, <3>3, <3>4 DEF Serial
    <3>10. \A c \in CertificateIds : calls'[p].views[c] # {} => calls'[p].views[c] = View(p, c)'
      BY <3>1, <3>2 DEF Serial
    <3>11. QED
      BY <3>1, <3>6, <3>8, <3>9, <3>10 DEF Serial
  <2>5. ASSUME Store(p)
        PROVE  Serial(p)'
    <3>1. /\ \/ calls'[p].views = NoViews
             \/ calls'[p].views = calls[p].views /\ calls'[p].events = calls[p].events
          /\ calls'[p].phase # "store"
          /\ calls[p].phase = "store"
          /\ log' = log \cup calls[p].events
          /\ rows' = rows
          /\ failures' = failures
      BY <2>5 DEF Store, TypeOK, Call, Idle
    <3>2. \A c \in CertificateIds : LogOf(c)' = View(p, c)
      BY <3>1 DEF View, LogOf, NewEventsOf
    <3>3. \A c \in CertificateIds : c \notin Touched(p) => View(p, c) = LogOf(c)
      BY DEF Touched, View, NewEventsOf
    <3>4. \A c \in CertificateIds : c \in Touched(p) => Replays(View(p, c))
      BY <1>0, <3>1 DEF ViewsOK, AllLoaded, Serial
    <3>5. LogsReplay'
      BY <3>2, <3>3, <3>4 DEF Serial, LogsReplay
    <3>6. RowsCoverLog'
      BY <3>1, <3>2, <3>3 DEF Serial, RowsCoverLog
    <3>7. failures' = 0 => \A c \in CertificateIds : rows'[c] = LogOf(c)'
      BY <3>1, <3>2 DEF Serial
    <3>8. \A c \in CertificateIds : calls'[p].views[c] # {} => calls'[p].views[c] = View(p, c)'
      BY <3>1, <3>2 DEF Serial, NoViews, View, NewEventsOf
    <3>9. QED
      BY <3>1, <3>5, <3>6, <3>7, <3>8 DEF Serial
  <2>6. ASSUME FindAttempt(p)
        PROVE  Serial(p)'
    <3>1. /\ calls'[p].views = calls[p].views
          /\ calls'[p].events = calls[p].events
          /\ calls'[p].phase = "saveAttempt"
          /\ calls[p].phase = "findAttempt"
          /\ log' = log
          /\ rows' = rows
          /\ failures' = failures
      BY <2>6 DEF FindAttempt, TypeOK, Call, tables
    <3>2. QED
      BY <1>0, <3>1, StepKeepsSerial
  <2>7. ASSUME SaveAttempt(p)
        PROVE  Serial(p)'
    <3>1. /\ calls'[p] = Idle
          /\ calls[p].phase = "saveAttempt"
          /\ log' = log
          /\ rows' = rows
          /\ failures' = failures
      BY <2>7 DEF SaveAttempt, TypeOK
    <3>2. QED
      BY <1>0, <3>1, StepKeepsSerial DEF Idle
  <2>8. ASSUME Fail(p)
        PROVE  Serial(p)'
    <3>1. /\ Throw(p) \/ calls' = [calls EXCEPT ![p] = Idle]
          /\ failures' # 0
          /\ log' = log
          /\ rows' = rows
      BY <2>8 DEF Fail, TypeOK, tables
    <3>2. QED
      BY <1>0, <3>1, ThrowResult, StepKeepsSerial
  <2>9. QED
    BY <1>4, <2>1, <2>2, <2>3, <2>4, <2>5, <2>6, <2>7, <2>8 DEF Step, Proceed
<1>5. CASE UNCHANGED vars
  BY <1>5 DEF vars, Serial, View, LogOf, NewEventsOf, Touched, LogsReplay, RowsCoverLog
<1>6. QED
  BY <1>2, <1>3, <1>4, <1>5 DEF Next

\* The inductive invariant: what every interleaving keeps and what calls
\* that do not overlap add to it.
LEMMA SerialInvariant ==
  ASSUME NEW p, Processes = {p}
  PROVE  Spec => [](LogsReplay /\ RowsCoverLog /\ RowsCurrent)
<1> DEFINE IInv == TypeOK /\ CallsOK /\ ViewsOK /\ RowsReplay /\ Serial(p)
<1>1. Init => IInv
  BY InitTyped, InitRead, InitSerial
<1>2. IInv /\ [Next]_vars => IInv'
  BY NextTyped, NextRead, NextSerial
<1>3. IInv => LogsReplay /\ RowsCoverLog /\ RowsCurrent
  BY DEF Serial, RowsCurrent
<1>4. QED
  BY <1>1, <1>2, <1>3, PTL DEF Spec

\* When calls do not overlap, the event table of every certificate replays:
\* validation on a copy of the log (offchain-certificate.service.ts:188-208)
\* is enough for it.
THEOREM SerialCallsKeepTheLedger ==
  ASSUME NEW p, Processes = {p}
  PROVE  Spec => []LogsReplay
<1>1. Spec => [](LogsReplay /\ RowsCoverLog /\ RowsCurrent)
  BY SerialInvariant
<1>2. QED
  BY <1>1, PTL

\* When calls do not overlap, each stored event is in the row of its
\* certificate wherever a call ended or failed: the row is saved first
\* (offchain-certificate.service.ts:310-311).
THEOREM SerialRowsCoverTheLog ==
  ASSUME NEW p, Processes = {p}
  PROVE  Spec => []RowsCoverLog
<1>1. Spec => [](LogsReplay /\ RowsCoverLog /\ RowsCurrent)
  BY SerialInvariant
<1>2. QED
  BY <1>1, PTL

\* When calls do not overlap and none has failed, the row a client reads is
\* exactly the aggregate of the stored events once the call has ended.
THEOREM SerialRowsAreCurrent ==
  ASSUME NEW p, Processes = {p}
  PROVE  Spec => []RowsCurrent
<1>1. Spec => [](LogsReplay /\ RowsCoverLog /\ RowsCurrent)
  BY SerialInvariant
<1>2. QED
  BY <1>1, PTL

-----------------------------------------------------------------------------
(***************************************************************************)
(* What the synchronization of an event adds up to, when one job reports   *)
(* and no call has failed half-way.  Users may be as many as they like.    *)
(***************************************************************************)

\* Only synchronizers report, on events that have an attempt row.
ReportersOK ==
  /\ \A p \in Processes : IsReport(p) => p \in Synchronizers
  /\ \A f \in log : f.type \notin Synchronizable => f.payload.persistedEventId \in DOMAIN attempts

\* Each report whose call is over is counted; a success is the last of them
\* and leaves the attempt without error.
CountsExact ==
  \A t \in DOMAIN attempts :
    /\ Cardinality(Done(t)) <= attempts[t].count
    /\ attempts[t].count <= MaxAttempts
    /\ \A f \in Done(t) : f.type # "PersistError" =>
         /\ attempts[t].count > 0 /\ ~attempts[t].failed
         /\ \A g \in Done(t) : g.at <= f.at

\* A report in progress is on an event that has failed each time so far, and
\* has attempts left.
InProgressOK ==
  \A p \in Processes : \A g \in calls[p].events : g.type \notin Synchronizable =>
    LET t == g.payload.persistedEventId
    IN  /\ attempts[t].count < MaxAttempts
        /\ \A f \in Done(t) : f.type = "PersistError" /\ f.at < g.at
        /\ calls[p].phase = "saveAttempt" => calls[p].count = attempts[t].count

ReportInv == ReportersOK /\ (failures = 0 => CountsExact /\ InProgressOK)

\* What the invariants say of the tables.
LEMMA TablesTyped ==
  ASSUME TypeOK, CountInv
  PROVE  /\ clock \in Nat /\ log \subseteq Event
         /\ \A f \in log : f.at \in Nat /\ f.at <= clock
         /\ \A t : IsFiniteSet(Done(t)) /\ Cardinality(Done(t)) \in Nat /\ Done(t) \subseteq log
         /\ \A t \in DOMAIN attempts : attempts[t].count \in Nat
<1>1. ASSUME NEW t PROVE IsFiniteSet(Done(t)) /\ Cardinality(Done(t)) \in Nat
  <2>1. Done(t) \in SUBSET log /\ IsFiniteSet(log)
    BY DEF Done, CountInv, TimesOK
  <2>2. IsFiniteSet(Done(t))
    BY <2>1, FS_Subset
  <2>. QED BY <2>2, FS_CardinalityType
<1>. QED BY <1>1 DEF TypeOK, CountInv, TimesOK, Event, Done

\* A step of process p that changes neither the log nor the attempts, and
\* what it reports only to say it later.
LEMMA QuietKeepsReports ==
  ASSUME TypeOK, CountInv, ReportInv, NEW p \in Processes, TypeOK',
         log' = log, attempts' = attempts, failures' = failures \/ failures' # 0,
         \A q \in Processes : q # p => calls'[q] = calls[q],
         \/ ~Counting(p) /\ ~Counting(p)'
         \/ Counting(p) /\ Counting(p)' /\ calls'[p].events = calls[p].events
         \/ failures' # 0,
         \A g \in calls'[p].events : g.type \notin Synchronizable =>
           \E f \in calls[p].events :
             /\ f.type \notin Synchronizable
             /\ f.payload.persistedEventId = g.payload.persistedEventId
             /\ g.at = f.at \/ clock < g.at,
         \A g \in calls'[p].events : calls'[p].phase = "saveAttempt" /\ failures' = 0 =>
           calls'[p].count = attempts[g.payload.persistedEventId].count
  PROVE  ReportInv'
<1>1. ReportersOK'
  BY DEF ReportInv, ReportersOK, IsReport
<1>2. ASSUME failures' = 0 PROVE CountsExact' /\ InProgressOK'
  <2>1. CountsExact /\ InProgressOK
    BY <1>2 DEF ReportInv
  <2>2. \A t : Done(t)' = Done(t)
    BY <1>2 DEF Done, Counting
  <2>3. CountsExact'
    BY <2>1, <2>2 DEF CountsExact
  <2>4. InProgressOK'
    <3> SUFFICES ASSUME NEW q \in Processes, NEW g \in calls'[q].events,
                        g.type \notin Synchronizable
                 PROVE  LET t == g.payload.persistedEventId
                        IN  /\ attempts'[t].count < MaxAttempts
                            /\ \A f \in Done(t)' : f.type = "PersistError" /\ f.at < g.at
                            /\ calls'[q].phase = "saveAttempt" => calls'[q].count = attempts'[t].count
      BY DEF InProgressOK
    <3>1. CASE q # p
      BY <2>1, <2>2, <3>1 DEF InProgressOK
    <3>2. CASE q = p
      <4> DEFINE t == g.payload.persistedEventId
      <4>1. PICK h \in calls[p].events :
              /\ h.type \notin Synchronizable
              /\ h.payload.persistedEventId = t
              /\ g.at = h.at \/ clock < g.at
        BY <3>2
      <4>2. /\ attempts[t].count < MaxAttempts
            /\ \A f \in Done(t) : f.type = "PersistError" /\ f.at < h.at
        BY <2>1, <4>1 DEF InProgressOK
      <4>3. \A f \in Done(t) : f.at < g.at
        <5>1. CASE g.at = h.at
          BY <4>2, <5>1
        <5>2. CASE clock < g.at
          <6>1. g.at \in Nat
            BY <3>2 DEF TypeOK, Call, Event
          <6>2. \A f \in Done(t) : f.at <= clock /\ f.at \in Nat /\ clock \in Nat
            BY TablesTyped
          <6>. QED BY <5>2, <6>1, <6>2
        <5>. QED BY <4>1, <5>1, <5>2
      <4>. QED BY <1>2, <2>2, <3>2, <4>2, <4>3
    <3>. QED BY <3>1, <3>2
  <2>. QED BY <2>3, <2>4
<1>. QED BY <1>1, <1>2 DEF ReportInv

\* A call of a user begins, with commands only.
LEMMA CommandsKeepReports ==
  ASSUME TypeOK, CountInv, ReportInv, NEW p \in Users, TypeOK',
         Issue(p) \/ Move(p) \/ MoveBatch(p)
  PROVE  ReportInv'
<1>1. ASSUME NEW cs, NEW phase \in {"validate", "read"}, Begin(p, cs, phase),
             \A i \in 1..Len(cs) : cs[i].type \in Synchronizable,
             calls[p].phase = "idle", log' = log, attempts' = attempts, failures' = failures
      PROVE  ReportInv'
  <2>1. p \in Processes
    BY DEF Processes
  <2>2. /\ calls'[p].events = EventsFrom(cs) /\ calls'[p].phase = phase
        /\ \A q \in Processes : q # p => calls'[q] = calls[q]
    BY <1>1, <2>1, BeginResult
  <2>3. \A g \in EventsFrom(cs) : g.type \in Synchronizable
    BY <1>1 DEF EventsFrom
  <2>4. ~Counting(p) /\ ~Counting(p)' /\ calls'[p].phase # "saveAttempt"
    BY <1>1, <2>2 DEF Counting
  <2>. QED BY <1>1, <2>1, <2>2, <2>3, <2>4, QuietKeepsReports
<1>2. CASE Issue(p)
  <2>1. PICK mints \in Batches([from: {ZeroAddress}, to: Addresses, volume: Volumes]) :
          Begin(p, [i \in 1..Len(mints) |->
                     [type |-> "Issued", cert |-> lastId + i, payload |-> mints[i]]], "read")
    BY <1>2 DEF Issue
  <2> DEFINE n == Len(mints)
             cs == [i \in 1..n |->
                      [type |-> "Issued", cert |-> lastId + i, payload |-> mints[i]]]
  <2>2. n \in Nat
    BY BatchIsSeq
  <2>3. Len(cs) = n
    <3>1. cs \in [1..n -> {cs[i] : i \in 1..n}]
      OBVIOUS
    <3> HIDE DEF cs
    <3>. QED BY <2>2, <3>1
  <2>4. \A i \in 1..Len(cs) : cs[i].type \in Synchronizable
    BY <2>3 DEF Synchronizable
  <2>5. Begin(p, cs, "read")
    BY <2>1
  <2> HIDE DEF cs
  <2>. QED BY <1>1, <1>2, <2>4, <2>5 DEF Issue
<1>3. CASE Move(p)
  <2>1. PICK c \in Transfers \cup Claims : Begin(p, <<c>>, "read")
    BY <1>3 DEF Move
  <2>2. \A i \in 1..Len(<<c>>) : <<c>>[i].type \in Synchronizable
    BY MovesAreCommands DEF Synchronizable
  <2>. QED BY <1>1, <1>3, <2>1, <2>2 DEF Move
<1>4. CASE MoveBatch(p)
  <2>1. PICK cs \in Batches(Transfers) \cup Batches(Claims) : Begin(p, cs, "validate")
    BY <1>4 DEF MoveBatch
  <2>2. \A i \in 1..Len(cs) : cs[i] \in Transfers \cup Claims
    BY <2>1, BatchIsSeq
  <2>3. \A i \in 1..Len(cs) : cs[i].type \in Synchronizable
    BY <2>2, MovesAreCommands DEF Synchronizable
  <2>. QED BY <1>1, <1>4, <2>1, <2>3 DEF MoveBatch
<1>. QED BY <1>2, <1>3, <1>4

\* A call that begins to report: its event has attempts left, and no success.
LEMMA BeginsToReport ==
  ASSUME TypeOK, CountInv, ReportInv, NEW p \in Synchronizers, TypeOK',
         NEW c, Begin(p, <<c>>, "read"), c.type \notin Synchronizable,
         calls[p].phase \in {"idle", "threw"},
         log' = log, attempts' = attempts, failures' = failures,
         LET t == c.payload.persistedEventId
         IN  failures = 0 => /\ attempts[t].count < MaxAttempts
                             /\ \A f \in Done(t) : f.type = "PersistError"
  PROVE  ReportInv'
<1>1. p \in Processes
  BY DEF Processes
<1>2. /\ calls'[p].events = EventsFrom(<<c>>) /\ calls'[p].phase = "read"
      /\ \A q \in Processes : q # p => calls'[q] = calls[q]
  BY <1>1, BeginResult
<1>3. ASSUME NEW g \in calls'[p].events
      PROVE  /\ g.payload.persistedEventId = c.payload.persistedEventId
             /\ clock < g.at /\ g.at \in Nat
  <2>1. PICK i \in 1..1 : g = [type |-> <<c>>[i].type, cert |-> <<c>>[i].cert,
                               payload |-> <<c>>[i].payload, at |-> clock + i, cmd |-> commands + i]
    BY <1>2 DEF EventsFrom
  <2>2. i = 1
    BY <2>1
  <2>. QED BY <2>1, <2>2 DEF TypeOK
<1>4. ReportersOK'
  BY <1>2 DEF ReportInv, ReportersOK, IsReport
<1>5. ASSUME failures' = 0 PROVE CountsExact' /\ InProgressOK'
  <2>1. CountsExact /\ InProgressOK
    BY <1>5 DEF ReportInv
  <2>2. \A t : Done(t)' = Done(t)
    BY <1>2 DEF Done, Counting
  <2>3. CountsExact'
    BY <2>1, <2>2 DEF CountsExact
  <2>4. InProgressOK'
    <3> SUFFICES ASSUME NEW q \in Processes, NEW g \in calls'[q].events,
                        g.type \notin Synchronizable
                 PROVE  LET t == g.payload.persistedEventId
                        IN  /\ attempts'[t].count < MaxAttempts
                            /\ \A f \in Done(t)' : f.type = "PersistError" /\ f.at < g.at
                            /\ calls'[q].phase = "saveAttempt" => calls'[q].count = attempts'[t].count
      BY DEF InProgressOK
    <3>1. CASE q # p
      BY <1>2, <2>1, <2>2, <3>1 DEF InProgressOK
    <3>2. CASE q = p
      <4>1. \A f \in Done(c.payload.persistedEventId) : f.at < g.at
        BY <1>3, <3>2, TablesTyped
      <4>. QED BY <1>2, <1>3, <1>5, <2>2, <3>2, <4>1
    <3>. QED BY <3>1, <3>2
  <2>. QED BY <2>3, <2>4
<1>. QED BY <1>4, <1>5 DEF ReportInv

\* The job reports on an event that is to be processed, or again on the one
\* whose report threw.
LEMMA ReportsKeepReports ==
  ASSUME TypeOK, CallsOK, CountInv, ReportInv, NEW p \in Synchronizers, TypeOK',
         ReportAnswer(p) \/ ReportError(p)
  PROVE  ReportInv'
<1>1. p \in Processes
  BY DEF Processes
<1>2. CASE ReportAnswer(p)
  <2>0. PICK e \in ToProcess :
          /\ e.type \in Synchronizable
          /\ \E type \in {PersistedType[e.type], "PersistError"} :
               Begin(p, <<[type |-> type, cert |-> e.cert,
                           payload |-> [persistedEventId |-> e.at]]>>, "read")
    BY <1>2 DEF ReportAnswer
  <2>1. PICK type \in {PersistedType[e.type], "PersistError"} :
          Begin(p, <<[type |-> type, cert |-> e.cert,
                      payload |-> [persistedEventId |-> e.at]]>>, "read")
    BY <2>0
  <2> DEFINE c == [type |-> type, cert |-> e.cert, payload |-> [persistedEventId |-> e.at]]
  <2>2. c.type \notin Synchronizable /\ c.payload.persistedEventId = e.at
    BY <2>0, <2>1 DEF PersistedType, Synchronizable
  <2>3. e \in log /\ e.at \in DOMAIN attempts /\ Unanswered(e) /\ ~IsBlocked(e.cert)
    BY DEF ToProcess
  <2>4. attempts[e.at].count < MaxAttempts
    <3>1. ~(attempts[e.at].count >= MaxAttempts)
      BY <2>3 DEF IsBlocked, LogOf
    <3>. QED BY <2>3, <3>1, TablesTyped, OffChainAssumption
  <2>5. ASSUME failures = 0, NEW f \in Done(e.at) PROVE f.type = "PersistError"
    <3>1. CASE attempts[e.at].count = 0
      <4> DEFINE D == Done(e.at)
      <4>1. Cardinality(D) = 0 /\ IsFiniteSet(D) /\ f \in D
        <5>1. Cardinality(D) <= 0 /\ Cardinality(D) \in Nat
          BY <2>3, <2>5, <3>1, TablesTyped DEF ReportInv, CountsExact
        <5> HIDE DEF D
        <5>2. Cardinality(D) = 0
          BY <5>1
        <5>. QED BY <2>5, <5>2, TablesTyped DEF D
      <4> HIDE DEF D
      <4>. QED BY <4>1, FS_EmptySet
    <3>2. CASE attempts[e.at].failed
      BY <2>3, <2>5, <3>2 DEF ReportInv, CountsExact
    <3>. QED BY <2>3, <3>1, <3>2 DEF Unanswered
  <2>6. /\ Begin(p, <<c>>, "read")
        /\ calls[p].phase = "idle" /\ log' = log /\ attempts' = attempts /\ failures' = failures
    BY <1>2, <2>1 DEF ReportAnswer
  <2> HIDE DEF c
  <2>. QED BY <2>2, <2>4, <2>5, <2>6, BeginsToReport
<1>3. CASE ReportError(p)
  <2>1. PICK e \in calls[p].events :
          Begin(p, <<[type |-> "PersistError", cert |-> e.cert, payload |-> e.payload]>>, "read")
    BY <1>3 DEF ReportError
  <2> DEFINE c == [type |-> "PersistError", cert |-> e.cert, payload |-> e.payload]
  <2>2. c.type \notin Synchronizable /\ c.payload.persistedEventId = e.payload.persistedEventId
    BY DEF Synchronizable
  <2>3. calls[p].phase = "threw" /\ log' = log /\ attempts' = attempts /\ failures' = failures
    BY <1>3 DEF ReportError
  <2>4. e.type \notin Synchronizable
    BY <1>1, <2>3 DEF CallsOK, IsReport
  <2>5. failures = 0 => /\ attempts[e.payload.persistedEventId].count < MaxAttempts
                        /\ \A f \in Done(e.payload.persistedEventId) : f.type = "PersistError"
    BY <1>1, <2>4 DEF ReportInv, InProgressOK
  <2>6. Begin(p, <<c>>, "read")
    BY <2>1
  <2> HIDE DEF c
  <2>. QED BY <2>2, <2>3, <2>5, <2>6, BeginsToReport
<1>. QED BY <1>2, <1>3

\* The events of a call are stored: a report is not over yet, and an event
\* for the chain has a new attempt row, on which nobody reports.
LEMMA StoreKeepsReports ==
  ASSUME TypeOK, CallsOK, CountInv, ReportInv, NEW p \in Processes, Store(p), TypeOK'
  PROVE  ReportInv'
<1> DEFINE E == calls[p].events
           fresh == {e.at : e \in {f \in E : ShouldBeSynchronized(f)}}
<1>1. /\ calls[p].phase = "store" /\ log' = log \cup E /\ failures' = failures
      /\ attempts' = [t \in DOMAIN attempts \cup fresh |->
                        IF t \in fresh THEN [count |-> 0, failed |-> FALSE] ELSE attempts[t]]
      /\ \A q \in Processes : q # p => calls'[q] = calls[q]
  BY DEF Store, TypeOK
<1>2. IF IsReport(p) THEN calls'[p].events = E /\ calls'[p].phase = "findAttempt"
                     ELSE calls'[p] = Idle
  BY DEF Store, TypeOK, Call
<1>3. ~Counting(p) /\ (Counting(p)' <=> IsReport(p))
  BY <1>1, <1>2 DEF Counting, Idle
<1>4. fresh \cap DOMAIN attempts = {}
  BY <1>1 DEF CountInv, TimesOK, AttemptRows, Pending
<1>5. \A g \in E : g.type \notin Synchronizable => g.payload.persistedEventId \in DOMAIN attempts
  BY DEF CallsOK
<1>6. \A t : Done(t)' = Done(t)
  <2> SUFFICES ASSUME NEW t, NEW f PROVE f \in Done(t)' <=> f \in Done(t)
    BY DEF Done
  <2>1. ASSUME f \in log PROVE f \notin E
    BY <1>1, <2>1 DEF CountInv, TimesOK, Pending
  <2>2. CASE f \in log
    BY <1>1, <1>2, <1>3, <2>1, <2>2 DEF Done, Counting, Idle
  <2>3. CASE f \in E /\ f \notin log
    <3>1. f.type \notin Synchronizable => IsReport(p) /\ Counting(p)' /\ f \in calls'[p].events
      BY <1>2, <1>3, <2>3 DEF IsReport
    <3>. QED BY <2>3, <3>1 DEF Done
  <2>4. CASE f \notin log /\ f \notin E
    BY <1>1, <2>4 DEF Done
  <2>. QED BY <2>2, <2>3, <2>4
<1>7. \A t \in fresh : Done(t) = {}
  BY <1>4 DEF ReportInv, ReportersOK, Done
<1>8. /\ DOMAIN attempts' = DOMAIN attempts \cup fresh
      /\ \A t \in DOMAIN attempts : attempts'[t] = attempts[t]
      /\ \A t \in fresh : attempts'[t] = [count |-> 0, failed |-> FALSE]
  BY <1>1, <1>4
<1>9. ReportersOK'
  <2>1. \A q \in Processes : IsReport(q)' => IsReport(q)
    BY <1>1, <1>2 DEF IsReport, Idle
  <2>. QED BY <1>1, <1>5, <1>8, <2>1 DEF ReportInv, ReportersOK
<1> HIDE DEF fresh
<1>10. ASSUME failures' = 0 PROVE CountsExact' /\ InProgressOK'
  <2>1. CountsExact /\ InProgressOK
    BY <1>1, <1>10 DEF ReportInv
  <2>2. CountsExact'
    <3> SUFFICES ASSUME NEW t \in DOMAIN attempts'
                 PROVE  /\ Cardinality(Done(t)) <= attempts'[t].count
                        /\ attempts'[t].count <= MaxAttempts
                        /\ \A f \in Done(t) : f.type # "PersistError" =>
                             /\ attempts'[t].count > 0 /\ ~attempts'[t].failed
                             /\ \A g \in Done(t) : g.at <= f.at
      BY <1>6 DEF CountsExact
    <3>1. CASE t \in DOMAIN attempts
      BY <1>8, <2>1, <3>1 DEF CountsExact
    <3>2. CASE t \in fresh
      <4>1. Done(t) = {} /\ attempts'[t].count = 0 /\ Cardinality({}) = 0
        <5>1. Done(t) = {} /\ attempts'[t].count = 0
          BY <1>7, <1>8, <3>2
        <5>2. Cardinality({}) = 0
          BY FS_EmptySet
        <5>. QED BY <5>1, <5>2
      <4>. QED BY <4>1, OffChainAssumption
    <3>. QED BY <1>8, <3>1, <3>2
  <2>3. InProgressOK'
    <3>1. ASSUME NEW q \in Processes, NEW g \in calls'[q].events
          PROVE  /\ g \in calls[q].events
                 /\ calls'[q].phase = "saveAttempt" => calls'[q] = calls[q]
                 /\ g.type \notin Synchronizable => g.payload.persistedEventId \in DOMAIN attempts
      BY <1>1, <1>2 DEF Idle, CallsOK
    <3>. QED BY <1>6, <1>8, <2>1, <3>1 DEF InProgressOK
  <2>. QED BY <2>2, <2>3
<1>. QED BY <1>9, <1>10 DEF ReportInv

\* The count that is read is the one in the table.
LEMMA FindKeepsReports ==
  ASSUME TypeOK, CallsOK, CountInv, ReportInv, NEW p \in Processes, FindAttempt(p), TypeOK'
  PROVE  ReportInv'
<1>1. PICK e \in calls[p].events :
        calls' = [calls EXCEPT ![p] =
                    [@ EXCEPT !.phase = "saveAttempt",
                              !.count = attempts[e.payload.persistedEventId].count]]
  BY DEF FindAttempt
<1>2. /\ calls[p].phase = "findAttempt"
      /\ log' = log /\ attempts' = attempts /\ failures' = failures
  BY DEF FindAttempt, tables
<1>3. /\ calls'[p].events = calls[p].events /\ calls'[p].phase = "saveAttempt"
      /\ calls'[p].count = attempts[e.payload.persistedEventId].count
      /\ \A q \in Processes : q # p => calls'[q] = calls[q]
  BY <1>1 DEF TypeOK, Call
<1>4. calls[p].events = {e}
  BY <1>2 DEF CallsOK, IsReport
<1>5. Counting(p) /\ Counting(p)'
  BY <1>2, <1>3 DEF Counting
<1>. QED BY <1>2, <1>3, <1>4, <1>5, QuietKeepsReports

\* The report is counted, and over.
LEMMA SaveKeepsReports ==
  ASSUME \A q, r \in Synchronizers : q = r,
         TypeOK, CallsOK, CountInv, ReportInv, NEW p \in Processes, SaveAttempt(p), TypeOK'
  PROVE  ReportInv'
<1>1. PICK e \in calls[p].events :
        attempts' = [attempts EXCEPT ![e.payload.persistedEventId] =
                       [count |-> calls[p].count + 1, failed |-> e.type = "PersistError"]]
  BY DEF SaveAttempt
<1> DEFINE u == e.payload.persistedEventId
<1>2. /\ calls[p].phase = "saveAttempt"
      /\ log' = log /\ failures' = failures /\ calls'[p] = Idle
      /\ \A q \in Processes : q # p => calls'[q] = calls[q]
  BY DEF SaveAttempt, TypeOK
<1>3. calls[p].events = {e} /\ e.type \notin Synchronizable /\ u \in DOMAIN attempts
  BY <1>2 DEF CallsOK, IsReport
<1>4. /\ DOMAIN attempts' = DOMAIN attempts
      /\ attempts'[u] = [count |-> calls[p].count + 1, failed |-> e.type = "PersistError"]
      /\ \A t \in DOMAIN attempts : t # u => attempts'[t] = attempts[t]
  BY <1>1, <1>3
<1>5. ReportersOK'
  BY <1>2, <1>4 DEF ReportInv, ReportersOK, IsReport, Idle
<1>6. \A q \in Processes : q # p => ~IsReport(q)
  BY <1>3 DEF ReportInv, ReportersOK, IsReport
<1>7. Done(u)' \subseteq Done(u) \cup {e} /\ \A t : t # u => Done(t)' = Done(t)
  <2>1. \A q \in Processes : Counting(q)' => q # p /\ Counting(q) /\ calls'[q].events = calls[q].events
    BY <1>2 DEF Counting, Idle
  <2>2. \A q \in Processes : Counting(q) => q = p
    BY <1>6 DEF CallsOK, Counting
  <2>. QED BY <1>2, <1>3, <2>1, <2>2 DEF Done
<1> HIDE DEF u
<1>8. ASSUME failures' = 0 PROVE CountsExact' /\ InProgressOK'
  <2>1. CountsExact /\ InProgressOK
    BY <1>2, <1>8 DEF ReportInv
  <2>2. /\ calls[p].count = attempts[u].count /\ attempts[u].count < MaxAttempts
        /\ \A f \in Done(u) : f.type = "PersistError" /\ f.at < e.at
        /\ attempts[u].count \in Nat /\ Cardinality(Done(u)) <= attempts[u].count
    BY <1>2, <1>3, <2>1, TablesTyped DEF InProgressOK, CountsExact, u
  <2>3. /\ IsFiniteSet(Done(u)) /\ Cardinality(Done(u)) \in Nat
        /\ \A f \in Done(u) : f.at \in Nat
    BY TablesTyped
  <2>4. e.at \in Nat
    BY DEF TypeOK, Call, Event
  <2>5. Cardinality(Done(u)') <= attempts'[u].count
    <3> DEFINE D == Done(u)
               F == Done(u)'
               n == Cardinality(D)
               m == Cardinality(D \cup {e})
    <3>1. F \subseteq D \cup {e} /\ IsFiniteSet(D) /\ n \in Nat
      BY <1>7, <2>3
    <3> HIDE DEF D, F
    <3>2. IsFiniteSet(D \cup {e}) /\ m = IF e \in D THEN n ELSE n + 1
      BY <3>1, FS_AddElement, ZenonT(20)
    <3>3. IsFiniteSet(F) /\ Cardinality(F) <= m /\ Cardinality(F) \in Nat
      BY <3>1, <3>2, FS_Subset, FS_CardinalityType
    <3> HIDE DEF n, m
    <3>4. Cardinality(F) <= n + 1
      BY <3>1, <3>2, <3>3
    <3>5. n <= attempts[u].count /\ attempts'[u].count = attempts[u].count + 1
      BY <1>4, <2>2 DEF n, D
    <3>6. Cardinality(F) <= attempts'[u].count
      BY <2>2, <3>1, <3>3, <3>4, <3>5
    <3>. QED BY <3>6 DEF F
  <2>6. CountsExact'
    <3> SUFFICES ASSUME NEW t \in DOMAIN attempts'
                 PROVE  /\ Cardinality(Done(t)') <= attempts'[t].count
                        /\ attempts'[t].count <= MaxAttempts
                        /\ \A f \in Done(t)' : f.type # "PersistError" =>
                             /\ attempts'[t].count > 0 /\ ~attempts'[t].failed
                             /\ \A g \in Done(t)' : g.at <= f.at
      BY DEF CountsExact
    <3>1. CASE t # u
      BY <1>4, <1>7, <2>1, <3>1 DEF CountsExact
    <3>2. CASE t = u
      <4>1. attempts'[u].count = attempts[u].count + 1 /\ attempts'[u].count <= MaxAttempts
        BY <1>4, <2>2, OffChainAssumption
      <4>2. ASSUME NEW f \in Done(u)', f.type # "PersistError"
            PROVE  f = e /\ ~attempts'[u].failed /\ \A g \in Done(u)' : g.at <= e.at
        <5>1. f = e
          BY <1>7, <2>2, <4>2
        <5>2. \A g \in Done(u)' : g.at <= e.at
          BY <1>7, <2>2, <2>3, <2>4
        <5>3. attempts'[u].failed = (e.type = "PersistError")
          BY <1>4
        <5>4. ~attempts'[u].failed
          BY <4>2, <5>1, <5>3
        <5>. QED BY <5>1, <5>2, <5>4
      <4>3. attempts'[u].count > 0
        BY <2>2, <4>1
      <4>. QED BY <2>5, <3>2, <4>1, <4>2, <4>3
    <3>. QED BY <3>1, <3>2
  <2>7. InProgressOK'
    <3>1. \A q \in Processes : \A g \in calls'[q].events : g.type \in Synchronizable
      BY <1>2, <1>6 DEF IsReport, Idle
    <3>. QED BY <3>1 DEF InProgressOK
  <2>. QED BY <2>6, <2>7
<1>. QED BY <1>5, <1>8 DEF ReportInv

\* Every step of a service with one synchronizer.
LEMMA NextReports ==
  ASSUME \A q, r \in Synchronizers : q = r
  PROVE  TypeOK /\ CallsOK /\ CountInv /\ ReportInv /\ [Next]_vars => ReportInv'
<1> SUFFICES ASSUME TypeOK, CallsOK, CountInv, ReportInv, [Next]_vars PROVE ReportInv'
  OBVIOUS
<1>1. TypeOK'
  BY NextTyped
<1>2. ASSUME NEW p \in Processes, NEW c \in Touched(p), Load(p, c) PROVE ReportInv'
  <2>1. /\ \A q \in Processes : q # p => calls'[q] = calls[q]
        /\ calls'[p].events = calls[p].events /\ calls'[p].phase = calls[p].phase
        /\ calls[p].phase \in {"validate", "read"}
        /\ log' = log /\ attempts' = attempts /\ failures' = failures
    BY <1>2 DEF Load, tables, TypeOK, Call
  <2>. QED BY <1>1, <2>1, QuietKeepsReports DEF Counting
<1>3. ASSUME NEW p \in Processes, NEW c \in Touched(p), Reject(p, c) PROVE ReportInv'
  <2>1. /\ calls[p].phase \in {"validate", "read"} /\ Throw(p)
        /\ log' = log /\ attempts' = attempts /\ failures' = failures
    BY <1>3 DEF Reject, tables
  <2>2. /\ \A q \in Processes : q # p => calls'[q] = calls[q]
        /\ calls'[p].events = {} \/ calls'[p].events = calls[p].events
        /\ calls'[p].phase \in {"idle", "threw"}
    <3> DEFINE threw == [calls[p] EXCEPT !.phase = "threw", !.views = NoViews]
    <3>1. threw.events = calls[p].events /\ threw.phase = "threw"
      BY DEF TypeOK, Call
    <3> HIDE DEF threw
    <3>2. calls' = [calls EXCEPT ![p] = threw] \/ calls' = [calls EXCEPT ![p] = Idle]
      BY <2>1 DEF Throw, threw
    <3>. QED BY <3>1, <3>2 DEF TypeOK, Idle
  <2>. QED BY <1>1, <2>1, <2>2, QuietKeepsReports DEF Counting
<1>4. ASSUME NEW p \in Processes, Fail(p) PROVE ReportInv'
  <2>1. /\ Throw(p) \/ calls' = [calls EXCEPT ![p] = Idle]
        /\ log' = log /\ attempts' = attempts /\ failures' = failures + 1
    BY <1>4 DEF Fail, tables
  <2>2. failures' # 0
    BY <2>1 DEF TypeOK
  <2>3. /\ \A q \in Processes : q # p => calls'[q] = calls[q]
        /\ calls'[p].events = {} \/ calls'[p].events = calls[p].events
    BY <2>1, ThrowResult DEF Idle
  <2>. QED BY <1>1, <2>1, <2>2, <2>3, QuietKeepsReports
<1>5. ASSUME NEW p \in Processes, Recreate(p) PROVE ReportInv'
  <2>1. /\ \A q \in Processes : q # p => calls'[q] = calls[q]
        /\ calls'[p].events = Recreated(p) /\ calls'[p].phase = "read"
        /\ calls[p].phase = "validate"
        /\ log' = log /\ attempts' = attempts /\ failures' = failures
    BY <1>5 DEF Recreate, tables, TypeOK, Call
  <2>2. \A g \in Recreated(p) : clock < g.at
    BY RecreatedFresh DEF CountInv
  <2>3. \A g \in Recreated(p) : \E f \in calls[p].events : f.type = g.type /\ f.payload = g.payload
    BY DEF Recreated, TypeOK, Call, Event
  <2>. QED BY <1>1, <2>1, <2>2, <2>3, QuietKeepsReports DEF Counting
<1>6. ASSUME NEW p \in Processes, Project(p) PROVE ReportInv'
  <2>1. /\ \A q \in Processes : q # p => calls'[q] = calls[q]
        /\ calls'[p].events = calls[p].events /\ calls'[p].phase = "store"
        /\ calls[p].phase = "read"
        /\ log' = log /\ attempts' = attempts /\ failures' = failures
    BY <1>6 DEF Project, TypeOK, Call
  <2>. QED BY <1>1, <2>1, QuietKeepsReports DEF Counting
<1>7. ASSUME NEW p \in Processes, Step(p) PROVE ReportInv'
  BY <1>1, <1>2, <1>3, <1>4, <1>5, <1>6, <1>7, StoreKeepsReports, FindKeepsReports,
     SaveKeepsReports DEF Step, Proceed
<1>8. CASE UNCHANGED vars
  <2>1. log' = log /\ attempts' = attempts /\ calls' = calls /\ failures' = failures
    BY <1>8 DEF vars
  <2>. QED BY <2>1 DEF ReportInv, ReportersOK, CountsExact, InProgressOK, IsReport, Done, Counting
<1>. QED BY <1>1, <1>7, <1>8, CommandsKeepReports, ReportsKeepReports DEF Next

\* With one job at a time and no call that failed half-way, however many
\* users there are: an event is reported as persisted at most once, never
\* after that, and is not tried more than MaxAttempts times
\* (CertificateEventPostgres.repository.ts:111-169).
THEOREM OneJobReportsOnce ==
  ASSUME \A q, r \in Synchronizers : q = r
  PROVE  Spec => []ReportsBounded
<1> DEFINE IInv == TypeOK /\ CallsOK /\ CountInv /\ ReportInv
<1>1. Init => IInv
  <2> SUFFICES ASSUME Init PROVE CountInv /\ ReportInv
    BY InitTyped
  <2>1. /\ log = {} /\ DOMAIN attempts = {}
        /\ \A p \in Processes : calls[p].events = {}
    BY DEF Init, Idle
  <2>2. IsFiniteSet({})
    BY FS_EmptySet
  <2>. QED BY <2>1, <2>2 DEF CountInv, TimesOK, Covered, AttemptRows, ReportInv, ReportersOK,
                             CountsExact, InProgressOK, IsReport
<1>2. IInv /\ [Next]_vars => IInv'
  BY NextTyped, NextCounts, NextReports
<1>3. IInv => ReportsBounded
  <2> SUFFICES ASSUME IInv, failures = 0, NEW e \in log, e.type \in Synchronizable
               PROVE  /\ Cardinality(Reports(e)) <= MaxAttempts
                      /\ \A f, g \in Reports(e) : f.type = PersistedType[e.type] => g.at <= f.at
    BY DEF ReportsBounded
  <2> DEFINE t == e.at
  <2>1. CountsExact /\ InProgressOK /\ ReportersOK
    BY DEF ReportInv
  <2>2. t \in DOMAIN attempts
    BY DEF CountInv, AttemptRows
  <2>3. PersistedType[e.type] # "PersistError"
    BY DEF PersistedType, Synchronizable
  <2>4. ASSUME NEW f \in Reports(e), f \notin Done(t)
        PROVE  \E p \in Processes : calls[p].events = {f} /\ IsReport(p)
    <3>1. PICK p \in Processes : Counting(p) /\ f \in calls[p].events
      BY <2>4 DEF Reports, Done
    <3>2. f.type \notin Synchronizable
      BY DEF Reports
    <3>. QED BY <3>1, <3>2 DEF CallsOK, IsReport
  <2>5. ASSUME NEW f \in Reports(e), NEW g \in Reports(e), f \notin Done(t), g \notin Done(t)
        PROVE  f = g
    BY <2>1, <2>4, <2>5 DEF ReportersOK
  <2>6. ASSUME NEW f \in Reports(e), f \notin Done(t)
        PROVE  /\ attempts[t].count < MaxAttempts
               /\ \A g \in Done(t) : g.type = "PersistError" /\ g.at < f.at
    <3>1. PICK p \in Processes : calls[p].events = {f}
      BY <2>4, <2>6
    <3>. QED BY <2>1, <3>1 DEF InProgressOK, Reports
  <2>7. \A f \in Reports(e) : f.at \in Nat
    BY TablesTyped DEF Reports
  <2>8. ASSUME NEW f \in Reports(e), NEW g \in Reports(e), f.type = PersistedType[e.type]
        PROVE  g.at <= f.at
    <3>1. CASE f \in Done(t) /\ g \in Done(t)
      BY <2>1, <2>2, <2>3, <2>8, <3>1 DEF CountsExact
    <3>2. CASE f \notin Done(t) /\ g \in Done(t)
      BY <2>6, <2>7, <3>2
    <3>3. CASE f \in Done(t) /\ g \notin Done(t)
      BY <2>3, <2>6, <2>8, <3>3
    <3>4. CASE f \notin Done(t) /\ g \notin Done(t)
      BY <2>5, <2>7, <3>4
    <3>. QED BY <3>1, <3>2, <3>3, <3>4
  <2>9. Cardinality(Reports(e)) <= MaxAttempts
    <3> DEFINE D == Done(t)
               R == Reports(e)
               n == Cardinality(D)
    <3>1. /\ IsFiniteSet(D) /\ n \in Nat /\ n <= attempts[t].count
          /\ attempts[t].count <= MaxAttempts /\ attempts[t].count \in Nat
      BY <2>1, <2>2, TablesTyped DEF CountsExact
    <3>2. CASE R \subseteq D
      <4> HIDE DEF D, R, n
      <4>1. IsFiniteSet(R) /\ Cardinality(R) <= n /\ Cardinality(R) \in Nat
        BY <3>1, <3>2, FS_Subset, FS_CardinalityType DEF n
      <4>2. Cardinality(R) <= MaxAttempts
        BY <3>1, <4>1, OffChainAssumption
      <4>. QED BY <4>2 DEF R
    <3>3. CASE ~(R \subseteq D)
      <4>1. PICK x \in R : x \notin D
        BY <3>3
      <4>2. R \subseteq D \cup {x} /\ attempts[t].count < MaxAttempts
        BY <2>5, <2>6, <4>1
      <4> HIDE DEF D, R
      <4>3. IsFiniteSet(D \cup {x}) /\ Cardinality(D \cup {x}) = n + 1
        BY <3>1, <4>1, FS_AddElement
      <4>4. IsFiniteSet(R) /\ Cardinality(R) <= n + 1 /\ Cardinality(R) \in Nat
        BY <4>2, <4>3, FS_Subset, FS_CardinalityType
      <4> HIDE DEF n, t
      <4>5. Cardinality(R) <= MaxAttempts
        BY <3>1, <4>2, <4>4, OffChainAssumption
      <4>. QED BY <4>5 DEF R
    <3>. QED BY <3>2, <3>3
  <2>. QED BY <2>8, <2>9
<1>. QED BY <1>1, <1>2, <1>3, PTL DEF Spec
===============================================================================
