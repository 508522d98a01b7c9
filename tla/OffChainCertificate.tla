-------------------------- MODULE OffChainCertificate --------------------------
(***************************************************************************)
(* OffChainCertificateService over its four tables                         *)
(* (offchain-certificate/offchain-certificate.service.ts).                 *)
(*                                                                         *)
(* A process is one call in progress: an API request of the application or *)
(* a report of the synchronization job.  Nothing serialises the calls, so  *)
(* every await is a point where another process may run: each action below *)
(* is the code from one await to the next.  A call saves its commands,     *)
(* creates its events, reads the certificates' logs and replays them with  *)
(* the new events, saves the resulting read model rows, saves the events,  *)
(* and, for an answer of the chain, counts the attempt.                    *)
(***************************************************************************)
EXTENDS CertificateAggregate, Sequences

CONSTANTS
  Users,            \* processes that issue, transfer and claim
  Synchronizers,    \* processes that report what the chain answered
  Volumes,          \* energy values of the commands
  MaxAttempts,      \* MAX_SYNCHRONIZATION_ATTEMPTS_FOR_EVENT
  MaxBatch,         \* bound: commands in a batch
  MaxCommands,      \* bound: rows of the command table
  MaxFailures       \* bound: calls that end half-way

ASSUME OffChainAssumption ==
  /\ Volumes \subseteq Nat
  /\ MaxAttempts \in Nat
  /\ MaxBatch \in Nat
  /\ MaxCommands \in Nat
  /\ MaxFailures \in Nat

VARIABLES
  commands,   \* number of rows in the command table; a row's id is its rank
  lastId,     \* certificate_internal_certificate_id_seq
  clock,      \* the latest createdAt given to an event
  log,        \* the event table
  attempts,   \* the synchronization attempt table, by event
  rows,       \* the read model table: the events each row is the aggregate of
  calls,      \* the call in progress of each process
  failures    \* calls that ended half-way so far

tables == <<log, attempts, rows>>
vars == <<commands, lastId, clock, log, attempts, rows, calls, failures>>

Processes == Users \cup Synchronizers

NoViews == [c \in CertificateIds |-> {}]

\* A call: its events, created after the time start; the events it read for
\* each certificate with its own added; the attempts count it read.
Idle == [phase |-> "idle", start |-> 0, size |-> 0, events |-> {},
         views |-> NoViews, count |-> 0]

Init ==
  /\ commands = 0
  /\ lastId = 0
  /\ clock = 0
  /\ log = {}
  /\ attempts = <<>>
  /\ rows = NoViews
  /\ calls = [p \in Processes |-> Idle]
  /\ failures = 0

-----------------------------------------------------------------------------
(* Reading the tables *)

LogOf(c) == {e \in log : e.cert = c}

\* shouldBeSynchronized: the events that get an attempt row.
ShouldBeSynchronizedForgetsClaims(e) == e.type \in {"Issued", "Transferred"}  \* mutant
ShouldBeSynchronized(e) == e.type \in Synchronizable

\* The certificates a call touches, its new events of one of them, and the
\* list that createAggregate replays for it.
Touched(p)      == {e.cert : e \in calls[p].events}
NewEventsOf(p, c) == {e \in calls[p].events : e.cert = c}
View(p, c)      == LogOf(c) \cup NewEventsOf(p, c)

AllLoaded(p) == \A c \in Touched(p) : calls[p].views[c] # {}

\* isPersistedEvent
IsReport(p) == \E e \in calls[p].events : e.type \notin Synchronizable

\* findAllToProcess.  A certificate is left alone once any of its events
\* has used up its attempts, whether or not the last of them succeeded.
UnansweredOrSucceeded(e) == attempts[e.at].count < MaxAttempts  \* mutant
UnansweredOnce(e) == attempts[e.at].count = 0  \* mutant: no retries
Unanswered(e) ==
  \/ attempts[e.at].count = 0
  \/ attempts[e.at].failed /\ attempts[e.at].count < MaxAttempts

IsBlocked(c) ==
  \E e \in LogOf(c) : e.at \in DOMAIN attempts /\ attempts[e.at].count >= MaxAttempts

ToProcess ==
  {e \in log : e.at \in DOMAIN attempts /\ Unanswered(e) /\ ~IsBlocked(e.cert)}

-----------------------------------------------------------------------------
(* The beginning of a call: commands are saved, then events are created *)

EventsFrom(cs) ==
  {[type |-> cs[i].type, cert |-> cs[i].cert, payload |-> cs[i].payload,
    at |-> clock + i, cmd |-> commands + i] : i \in 1..Len(cs)}

Begin(p, cs, phase) ==
  /\ commands + Len(cs) <= MaxCommands
  /\ commands' = commands + Len(cs)
  /\ clock' = clock + Len(cs)
  /\ calls' = [calls EXCEPT ![p] =
                 [Idle EXCEPT !.phase = phase, !.start = clock, !.size = Len(cs),
                              !.events = EventsFrom(cs)]]

Batches(S) == UNION {[1..n -> S] : n \in 1..MaxBatch}

\* Mutants of Issue: ids that start at 0, ids that are read and not taken.
IssueFromZero(p) ==
  \E mint \in [from: {ZeroAddress}, to: Addresses, volume: Volumes] :
    /\ calls[p].phase = "idle"
    /\ lastId < MaxCertificates
    /\ lastId' = lastId + 1
    /\ Begin(p, <<[type |-> "Issued", cert |-> lastId, payload |-> mint]>>, "read")
    /\ UNCHANGED <<log, attempts, rows, failures>>
IssueNextFreeId(p) ==
  \E mint \in [from: {ZeroAddress}, to: Addresses, volume: Volumes] :
    /\ calls[p].phase = "idle"
    /\ Begin(p, <<[type |-> "Issued", cert |-> 1, payload |-> mint]>>, "read")
    /\ UNCHANGED <<lastId, log, attempts, rows, failures>>

\* issue and batchIssue: the ids come from the sequence.
Issue(p) ==
  \E mints \in Batches([from: {ZeroAddress}, to: Addresses, volume: Volumes]) :
    /\ calls[p].phase = "idle"
    /\ lastId + Len(mints) <= MaxCertificates
    /\ lastId' = lastId + Len(mints)
    /\ Begin(p, [i \in 1..Len(mints) |->
                   [type |-> "Issued", cert |-> lastId + i, payload |-> mints[i]]], "read")
    /\ UNCHANGED <<log, attempts, rows, failures>>

Transfers == [type: {"Transferred"}, cert: CertificateIds,
              payload: [from: Addresses, to: Addresses, volume: Volumes]]

\* A claim is for one account.
Claims == {[type |-> "Claimed", cert |-> c,
            payload |-> [from |-> a, to |-> a, volume |-> v]] :
             c \in CertificateIds, a \in Addresses, v \in Volumes}

\* transfer and claim: no validation before the aggregate.
Move(p) ==
  /\ calls[p].phase = "idle"
  /\ \E c \in Transfers \cup Claims : Begin(p, <<c>>, "read")
  /\ UNCHANGED <<lastId, log, attempts, rows, failures>>

\* batchTransfer and batchClaim.  The commands are saved before validation.
MoveBatch(p) ==
  /\ calls[p].phase = "idle"
  /\ \E cs \in Batches(Transfers) \cup Batches(Claims) : Begin(p, cs, "validate")
  /\ UNCHANGED <<lastId, log, attempts, rows, failures>>

\* issuePersisted, transferPersisted, claimPersisted and persistError, called
\* with the answer of the chain for the next event of a certificate; there
\* is a handler for each type of event that must reach the chain.
ReportAnswer(p) ==
  /\ calls[p].phase = "idle"
  /\ \E e \in ToProcess :
       /\ e.type \in Synchronizable
       /\ \A f \in ToProcess : f.cert = e.cert => e.at <= f.at
       /\ \E type \in {PersistedType[e.type], "PersistError"} :
            Begin(p, <<[type |-> type, cert |-> e.cert,
                        payload |-> [persistedEventId |-> e.at]]>>, "read")
  /\ UNCHANGED <<lastId, log, attempts, rows, failures>>

\* When the call for an answer throws, the handler of the answer catches that
\* and reports a failure of the same event.  (Its block is this event only.)
ReportError(p) ==
  /\ calls[p].phase = "threw"
  /\ \E e \in calls[p].events :
       Begin(p, <<[type |-> "PersistError", cert |-> e.cert, payload |-> e.payload]>>, "read")
  /\ UNCHANGED <<lastId, log, attempts, rows, failures>>

-----------------------------------------------------------------------------
(* The rest of a call *)

\* A call that throws is over, unless it was for an answer of the chain.
Throw(p) ==
  \/ /\ \E e \in calls[p].events : e.type \in Acknowledgements
     /\ calls' = [calls EXCEPT ![p] = [@ EXCEPT !.phase = "threw", !.views = NoViews]]
  \/ /\ \A e \in calls[p].events : e.type \notin Acknowledgements
     /\ calls' = [calls EXCEPT ![p] = Idle]

LoadUnchecked(p, c) ==  \* mutant: the aggregate is not validated
  /\ calls[p].phase \in {"validate", "read"}
  /\ calls[p].views[c] = {}
  /\ calls' = [calls EXCEPT ![p].views[c] = View(p, c)]
  /\ UNCHANGED <<commands, lastId, clock, tables, failures>>

\* createAggregate for one certificate: the groups of a batch are read
\* independently of each other.
Load(p, c) ==
  /\ calls[p].phase \in {"validate", "read"}
  /\ calls[p].views[c] = {}
  /\ Replays(View(p, c))
  /\ calls' = [calls EXCEPT ![p].views[c] = View(p, c)]
  /\ UNCHANGED <<commands, lastId, clock, tables, failures>>

\* The aggregate throws, and the call with it.
Reject(p, c) ==
  /\ calls[p].phase \in {"validate", "read"}
  /\ calls[p].views[c] = {}
  /\ ~Replays(View(p, c))
  /\ Throw(p)
  /\ UNCHANGED <<commands, lastId, clock, tables, failures>>

\* handleBatch after its validation: the events are created a second time,
\* with a new createdAt, and the logs are read again.
Recreated(p) ==
  {[e EXCEPT !.at = e.at - calls[p].start + clock] : e \in calls[p].events}

Recreate(p) ==
  /\ calls[p].phase = "validate"
  /\ AllLoaded(p)
  /\ clock' = clock + calls[p].size
  /\ calls' = [calls EXCEPT ![p] =
       [@ EXCEPT !.phase = "read", !.start = clock, !.views = NoViews,
                 !.events = Recreated(p)]]
  /\ UNCHANGED <<commands, lastId, tables, failures>>

\* Mutants of Project: the row is made from the log as it is now; it is made
\* from the previous events only.
ProjectCurrentLog(p) ==
  /\ calls[p].phase = "read"
  /\ AllLoaded(p)
  /\ rows' = [c \in CertificateIds |-> IF c \in Touched(p) THEN View(p, c) ELSE rows[c]]
  /\ calls' = [calls EXCEPT ![p].phase = "store"]
  /\ UNCHANGED <<commands, lastId, clock, log, attempts, failures>>
ProjectPrevious(p) ==
  /\ calls[p].phase = "read"
  /\ AllLoaded(p)
  /\ rows' = [c \in CertificateIds |-> IF c \in Touched(p) THEN LogOf(c) ELSE rows[c]]
  /\ calls' = [calls EXCEPT ![p].phase = "store"]
  /\ UNCHANGED <<commands, lastId, clock, log, attempts, failures>>

\* propagate: the events are published and the rows of the read model are
\* overwritten with the aggregates.
Project(p) ==
  /\ calls[p].phase = "read"
  /\ AllLoaded(p)
  /\ rows' = [c \in CertificateIds |->
                IF c \in Touched(p) THEN calls[p].views[c] ELSE rows[c]]
  /\ calls' = [calls EXCEPT ![p].phase = "store"]
  /\ UNCHANGED <<commands, lastId, clock, log, attempts, failures>>

\* The events and the attempt rows of those that must reach the chain, in
\* one transaction.
Store(p) ==
  LET fresh == {e.at : e \in {f \in calls[p].events : ShouldBeSynchronized(f)}}
  IN  /\ calls[p].phase = "store"
      /\ log' = log \cup calls[p].events
      /\ attempts' = [t \in DOMAIN attempts \cup fresh |->
                        IF t \in fresh THEN [count |-> 0, failed |-> FALSE] ELSE attempts[t]]
      /\ calls' = [calls EXCEPT ![p] =
                     IF IsReport(p) THEN [@ EXCEPT !.phase = "findAttempt"] ELSE Idle]
      /\ UNCHANGED <<commands, lastId, clock, rows, failures>>

\* updateAttempt reads the attempt row ...
FindAttempt(p) ==
  /\ calls[p].phase = "findAttempt"
  /\ \E e \in calls[p].events :
       calls' = [calls EXCEPT ![p] =
                   [@ EXCEPT !.phase = "saveAttempt",
                             !.count = attempts[e.payload.persistedEventId].count]]
  /\ UNCHANGED <<commands, lastId, clock, tables, failures>>

SaveAttemptUncounted(p) ==  \* mutant: the error is written, the count is not
  /\ calls[p].phase = "saveAttempt"
  /\ \E e \in calls[p].events :
       attempts' = [attempts EXCEPT ![e.payload.persistedEventId] =
                      [count |-> calls[p].count, failed |-> e.type = "PersistError"]]
  /\ calls' = [calls EXCEPT ![p] = Idle]
  /\ UNCHANGED <<commands, lastId, clock, log, rows, failures>>

\* ... and writes it back, with the error of a persistError.
SaveAttempt(p) ==
  /\ calls[p].phase = "saveAttempt"
  /\ \E e \in calls[p].events :
       attempts' = [attempts EXCEPT ![e.payload.persistedEventId] =
                      [count |-> calls[p].count + 1, failed |-> e.type = "PersistError"]]
  /\ calls' = [calls EXCEPT ![p] = Idle]
  /\ UNCHANGED <<commands, lastId, clock, log, rows, failures>>

\* Any awaited call may reject, and the process may die: the call goes no
\* further, and what it wrote stays.
Fail(p) ==
  /\ calls[p].phase # "idle"
  /\ failures < MaxFailures
  /\ failures' = failures + 1
  /\ Throw(p) \/ calls' = [calls EXCEPT ![p] = Idle]
  /\ UNCHANGED <<commands, lastId, clock, tables>>

Proceed(p) ==
  \/ \E c \in Touched(p) : Load(p, c)
  \/ Recreate(p)
  \/ Project(p)
  \/ Store(p)
  \/ FindAttempt(p)
  \/ SaveAttempt(p)

Step(p) ==
  \/ Proceed(p)
  \/ \E c \in Touched(p) : Reject(p, c)
  \/ Fail(p)

Next ==
  \/ \E p \in Users : Issue(p) \/ Move(p) \/ MoveBatch(p)
  \/ \E p \in Synchronizers : ReportAnswer(p) \/ ReportError(p)
  \/ \E p \in Processes : Step(p)

Spec == Init /\ [][Next]_vars

-----------------------------------------------------------------------------
(* Properties *)

Phases == {"idle", "validate", "read", "store", "findAttempt", "saveAttempt",
           "threw"}

Call == [phase: Phases, start: Nat, size: Nat, events: SUBSET Event,
         views: [CertificateIds -> SUBSET Event], count: Nat]

TypeOK ==
  /\ commands \in Nat
  /\ lastId \in 0..MaxCertificates
  /\ clock \in Nat
  /\ log \subseteq Event
  /\ DOMAIN attempts \subseteq Nat
  /\ attempts \in [DOMAIN attempts -> [count: Nat, failed: BOOLEAN]]
  /\ rows \in [CertificateIds -> SUBSET Event]
  /\ calls \in [Processes -> Call]
  /\ failures \in 0..MaxFailures

\* A row of the read model is always the result of a replay that succeeded:
\* however the calls interleave and wherever they fail, no reader sees a
\* balance that an overdrawn or a malformed log would give, because a row is
\* only written from an aggregate (offchain-certificate.service.ts:303-311).
RowsReplay == \A c \in CertificateIds : rows[c] # {} => Replays(rows[c])

\* A certificate in the event table was issued exactly once, and before all
\* its other events, although commands may name a certificate that does not
\* exist yet and replays see neither each other nor calls in progress.
IssuanceFirst ==
  \A e \in log :
    \E i \in LogOf(e.cert) :
      /\ i.type = "Issued"
      /\ i.at <= e.at
      /\ \A j \in LogOf(e.cert) : j.type = "Issued" => j = i

\* The answers stored for an event.
Reports(e) ==
  {f \in log : f.type \notin Synchronizable /\ f.payload.persistedEventId = e.at}

\* Exactly the events that must reach the chain have an attempt row, and an
\* attempt is never counted without the answer that it stands for being in
\* the event table; lost updates and crashes only make the count too low
\* (CertificateEventPostgres.repository.ts:111-126).
CountsNeverExceedReports ==
  /\ DOMAIN attempts = {e.at : e \in {f \in log : f.type \in Synchronizable}}
  /\ \A e \in log : e.type \in Synchronizable =>
                      attempts[e.at].count <= Cardinality(Reports(e))

\* The event table of a certificate can be replayed.  When it cannot, every
\* later command on the certificate throws.
LogsReplay == \A c \in CertificateIds : LogOf(c) # {} => Replays(LogOf(c))

\* Every event in the table is reflected by the certificate's row: a read
\* that follows a call sees what the call stored.
RowsCoverLog == \A c \in CertificateIds : LogOf(c) \subseteq rows[c]

\* With no call in progress, and none that failed, the read model is the
\* aggregate of the event table.
RowsCurrent ==
  failures = 0 /\ (\A p \in Processes : calls[p].phase = "idle")
    => \A c \in CertificateIds : rows[c] = LogOf(c)

\* As long as no call failed, an event is answered with success at most once,
\* never after that, and not more often than MaxAttempts times: what the
\* synchronization does on the chain is neither repeated nor retried without
\* end.
ReportsBounded ==
  failures = 0 =>
    \A e \in log : e.type \in Synchronizable =>
      /\ Cardinality(Reports(e)) <= MaxAttempts
      /\ \A f, g \in Reports(e) : f.type = PersistedType[e.type] => g.at <= f.at
=============================================================================
