-------------------------- MODULE BlockchainSyncProofs --------------------------
(***************************************************************************)
(* Proofs about the synchronization composed with the service it reports   *)
(* to: what is proved of the service alone still holds, nothing is         *)
(* reported as persisted that the chain did not execute, and the chain     *)
(* executes the events of a certificate in the order of the log.  For any  *)
(* number of jobs, blocks of any size, any limits, and any failures.  And  *)
(* that one job's retries end, and its reports leave every log replayable. *)
(***************************************************************************)
EXTENDS BlockchainSync, OffChainCertificateProofs

-----------------------------------------------------------------------------
(* The invariant *)

Run == [phase: {"off", "find", "select", "send", "answers", "errors"}, round: Nat,
        queue: SUBSET Event, batch: SUBSET Event, todo: SUBSET Event,
        block: SUBSET Event]

SyncTypeOK ==
  /\ TypeOK
  /\ jobs \in [Jobs -> Run]
  /\ DOMAIN chain \subseteq Nat
  /\ chain \in [DOMAIN chain -> Nat]

\* What is proved of the service alone.
ServiceInv ==
  TypeOK /\ CallsOK /\ ViewsOK /\ RowsReplay /\ IssuancesOK /\ IssuanceFirst /\ CountInv

\* The events that must reach the chain, and those that a run has popped and
\* not left yet.
ForChain    == {e \in log : e.type \in Synchronizable}
Active(run) == run.batch \cup run.todo \cup run.block

\* A run works on stored events, on one of each certificate at a time.
RunOK(run) ==
  /\ run.queue \cup Active(run) \subseteq ForChain
  /\ \A e, f \in Active(run) : e.cert = f.cert => e = f
  /\ run.phase \notin {"answers", "errors"} => run.block = {}
  /\ run.phase \in {"off", "find"} => run.queue = {} /\ run.batch = {} /\ run.todo = {}
  /\ run.phase = "select" => run.todo = {}

RunsOK == \A j \in Jobs : RunOK(jobs[j])

\* An event is identified by its time.
TimesUnique ==
  /\ \A e, f \in log : e.at = f.at => e = f
  /\ \A p \in Processes : \A e, f \in calls[p].events : e.at = f.at => e = f

\* Users command, lanes report.
RolesOK ==
  /\ \A u \in Users : /\ \A g \in calls[u].events : g.type \in Synchronizable
                      /\ calls[u].phase \in {"idle", "validate", "read", "store"}
  /\ \A l \in Lanes : /\ \A g \in calls[l].events : g.type \notin Synchronizable
                      /\ calls[l].phase # "validate"

\* g reports that e is persisted.
IsAnswerTo(g, e) ==
  /\ g.type = PersistedType[e.type]
  /\ g.cert = e.cert
  /\ g.payload.persistedEventId = e.at

\* The answers for the event of time t that are stored, or may still be.
Answers(t) ==
  {g \in Event : /\ g.type \in Acknowledgements
                 /\ g.payload.persistedEventId = t
                 /\ g \in log \/ \E p \in Processes : Pending(p) /\ g \in calls[p].events}

\* Answers are about stored events, and there are no more of them than the
\* chain has executed the event.
AnswersOK ==
  /\ \A t \in Nat : \A g \in Answers(t) : \E e \in ForChain : IsAnswerTo(g, e)
  /\ \A t \in DOMAIN chain : chain[t] >= 1 /\ \E e \in ForChain : e.at = t
  /\ \A t \in Nat : /\ IsFiniteSet(Answers(t))
                    /\ Cardinality(Answers(t)) <= IF t \in DOMAIN chain THEN chain[t] ELSE 0

\* An attempt that is counted without an error has an answer.
CountedAnswered ==
  \A t \in DOMAIN attempts :
    attempts[t].count > 0 /\ ~attempts[t].failed =>
      \E g \in log : /\ g.type \notin Synchronizable /\ g.type # "PersistError"
                     /\ g.payload.persistedEventId = t

\* While a run waits for the answers of its block, each is stored or still
\* in its lane: in progress, or thrown.
BlockAwaited ==
  \A j \in Jobs : jobs[j].phase = "answers" =>
    \A e \in jobs[j].block :
      \/ Persisted(e)
      \/ LET l == <<j, e.cert, "answer">>
         IN  /\ calls[l].phase \in {"read", "store", "threw"}
             /\ \E g \in calls[l].events : IsAnswerTo(g, e)

SyncInv ==
  /\ ServiceInv /\ SyncTypeOK /\ RunsOK /\ TimesUnique /\ RolesOK
  /\ AnswersOK /\ CountedAnswered /\ BlockAwaited

\* Of the events of a certificate, those before an active one are persisted,
\* and those before one in the queue are persisted or this run's to do.
Earlier(f) == {e \in ForChain : e.cert = f.cert /\ e.at < f.at}
RunInOrder(run) ==
  /\ \A f \in Active(run) : \A e \in Earlier(f) : Persisted(e)
  /\ \A f \in run.queue : \A e \in Earlier(f) :
       Persisted(e) \/ e \in run.queue \cup Active(run)

InOrder == \A j \in Jobs : RunInOrder(jobs[j])

\* The calls of users that are in progress touch different certificates.
NoOverlap == \A u, v \in Users : u # v => Touched(u) \cap Touched(v) = {}

\* Then the events of a certificate are stored in the order in which they
\* are created.
UserLatest ==
  \A u \in Users : \A g \in calls[u].events :
    \A e \in ForChain : e.cert = g.cert => e.at < g.at

OrderInv == SyncInv /\ InOrder /\ UserLatest /\ ChainOrder

-----------------------------------------------------------------------------
(* Many calls at once begin a report, or end *)

\* A call that begins to report.
NewReport(p) ==
  /\ calls'[p].phase = "read" /\ calls'[p].views = NoViews
  /\ \E g \in Event :
       /\ calls'[p].events = {g}
       /\ g.type \notin Synchronizable
       /\ g.payload.persistedEventId \in DOMAIN attempts
       /\ calls'[p].start < g.at /\ g.at <= calls'[p].start + calls'[p].size
       /\ clock < g.at /\ g.at <= clock'

\* A step that stores nothing: calls go on unchanged, end or begin to report.
Replaced ==
  /\ calls' \in [Processes -> Call]
  /\ \A p \in Processes : calls'[p] = calls[p] \/ calls'[p] = Idle \/ NewReport(p)
  /\ \A p, q \in Processes : p # q =>
       \A g \in calls'[p].events, h \in calls'[q].events :
         clock < g.at /\ clock < h.at => g.at # h.at
  /\ log' = log /\ attempts' = attempts /\ rows' = rows /\ lastId' = lastId
  /\ commands' \in Nat /\ clock' \in Nat /\ clock <= clock'
  /\ failures' \in 0..MaxFailures

\* What each process has after such a step.
LEMMA ReplacedEvents ==
  ASSUME ServiceInv, Replaced, NEW p \in Processes, NEW e \in calls'[p].events
  PROVE  \/ calls'[p] = calls[p] /\ e \in calls[p].events /\ e.at <= clock
         \/ /\ NewReport(p) /\ calls'[p].events = {e} /\ e \in Event
            /\ e.type \notin Synchronizable /\ clock < e.at /\ e.at <= clock'
            /\ e.payload.persistedEventId \in DOMAIN attempts
            /\ calls'[p].start < e.at /\ e.at <= calls'[p].start + calls'[p].size
<1>1. CASE calls'[p] = calls[p]
  BY <1>1 DEF ServiceInv, CountInv, TimesOK
<1>2. CASE calls'[p] = Idle
  BY <1>2 DEF Idle
<1>3. CASE NewReport(p)
  BY <1>3 DEF NewReport
<1>. QED BY <1>1, <1>2, <1>3 DEF Replaced

\* The events of the calls stay apart in time.
LEMMA ReplacedTimes ==
  ASSUME ServiceInv, Replaced
  PROVE  TimesOK'
<1>1. clock \in Nat /\ clock' \in Nat /\ \A f \in log : f.at \in Nat /\ f.at <= clock
  BY DEF ServiceInv, TypeOK, CountInv, TimesOK, Event, Replaced
<1>2. ASSUME NEW p \in Processes, NEW e \in calls'[p].events
      PROVE  e.at \in Nat
  BY DEF Replaced, Call, Event
<1>3. ASSUME NEW p \in Processes
      PROVE  IsFiniteSet(calls'[p].events)
  <2>1. CASE NewReport(p)
    BY <2>1, FS_Singleton DEF NewReport
  <2>2. CASE calls'[p] = Idle
    BY <2>2, FS_EmptySet DEF Idle
  <2>3. CASE calls'[p] = calls[p]
    BY <2>3 DEF ServiceInv, CountInv, TimesOK
  <2>. QED BY <2>1, <2>2, <2>3 DEF Replaced
<1>4. ASSUME NEW p \in Processes, NEW e \in calls'[p].events
      PROVE  /\ e.at <= calls'[p].start + calls'[p].size
             /\ e.at <= clock'
             /\ Pending(p)' => \A f \in log : e.at # f.at
             /\ Counting(p)' => e \in log
  <2>1. CASE calls'[p] = calls[p] /\ e \in calls[p].events /\ e.at <= clock
    BY <1>1, <1>2, <2>1 DEF ServiceInv, CountInv, TimesOK, Pending, Counting, Replaced
  <2>2. CASE NewReport(p) /\ clock < e.at /\ e.at <= clock' /\ e.at <= calls'[p].start + calls'[p].size
    <3>1. calls'[p].phase = "read"
      BY <2>2 DEF NewReport
    <3>. QED BY <1>1, <1>2, <2>2, <3>1 DEF Counting
  <2>. QED BY <2>1, <2>2, ReplacedEvents
<1>5. ASSUME NEW p \in Processes, NEW e \in calls'[p].events,
             NEW q \in Processes, q # p, NEW f \in calls'[q].events
      PROVE  e.at # f.at
  <2>1. \/ e \in calls[p].events /\ e.at <= clock
        \/ clock < e.at
    BY ReplacedEvents
  <2>2. \/ f \in calls[q].events /\ f.at <= clock
        \/ clock < f.at
    BY ReplacedEvents
  <2>3. CASE e \in calls[p].events /\ f \in calls[q].events
    BY <1>5, <2>3 DEF ServiceInv, CountInv, TimesOK
  <2>4. e.at \in Nat /\ f.at \in Nat
    BY <1>2
  <2>5. CASE clock < e.at /\ clock < f.at
    BY <1>5, <2>5 DEF Replaced
  <2>. QED BY <1>1, <2>1, <2>2, <2>3, <2>4, <2>5
<1>6. IsFiniteSet(log') /\ \A e \in log' : e.at <= clock'
  BY <1>1 DEF ServiceInv, CountInv, TimesOK, Replaced
<1>. QED BY <1>3, <1>4, <1>5, <1>6 DEF TimesOK, Replaced

\* No call begins or ends to count an answer that is stored.
LEMMA ReplacedCounts ==
  ASSUME ServiceInv, Replaced
  PROVE  CountInv'
<1>1. \A t : /\ Cardinality(Done(t)) \in Nat /\ Cardinality(Done(t)') \in Nat
             /\ Cardinality(Done(t)) <= Cardinality(Done(t)')
  <2>1. ASSUME NEW p \in Processes, Counting(p)', NEW f \in calls'[p].events
        PROVE  Counting(p) /\ f \in calls[p].events
    BY <2>1, ReplacedEvents DEF NewReport, Counting
  <2>. QED BY <2>1, DoneGrows DEF ServiceInv, CountInv, TimesOK, Replaced
<1>2. ASSUME NEW t \in DOMAIN attempts'
      PROVE  attempts'[t].count <= Cardinality(Done(t)')
  <2>1. /\ attempts'[t] = attempts[t] /\ attempts[t].count \in Nat
        /\ attempts[t].count <= Cardinality(Done(t))
    BY DEF ServiceInv, CountInv, Covered, TypeOK, Replaced
  <2>. QED BY <1>1, <2>1
<1>3. ASSUME NEW p \in Processes, NEW e \in calls'[p].events, calls'[p].phase = "saveAttempt"
      PROVE  calls'[p].count <= Cardinality(Done(e.payload.persistedEventId)')
  <2> DEFINE t == e.payload.persistedEventId
  <2>1. calls'[p] = calls[p]
    BY <1>3, ReplacedEvents DEF NewReport
  <2>2. calls[p].count <= Cardinality(Done(t)) /\ calls[p].count \in Nat
    BY <1>3, <2>1 DEF ServiceInv, CountInv, Covered, TypeOK, Call
  <2> HIDE DEF t
  <2>3. calls'[p].count <= Cardinality(Done(t)')
    BY <1>1, <2>1, <2>2
  <2>. QED BY <2>3 DEF t
<1>4. Covered'
  BY <1>2, <1>3 DEF Covered
<1>5. AttemptRows'
  BY DEF AttemptRows, ServiceInv, CountInv, Replaced
<1>. QED BY <1>4, <1>5, ReplacedTimes DEF CountInv

\* What is proved of the service survives such a step.
LEMMA ReplacedKeepsService ==
  ASSUME ServiceInv, Replaced
  PROVE  ServiceInv'
<1>1. TypeOK'
  BY DEF ServiceInv, TypeOK, Replaced
<1>2. CallsOK'
  <2>1. ASSUME NEW p \in Processes, NEW e \in calls'[p].events
        PROVE  /\ calls'[p].start < e.at
               /\ e.type \notin Synchronizable =>
                    calls'[p].events = {e} /\ e.payload.persistedEventId \in DOMAIN attempts'
    BY ReplacedEvents DEF ServiceInv, CallsOK, Replaced
  <2>2. ASSUME NEW p \in Processes, calls'[p].phase \in {"findAttempt", "saveAttempt", "threw"}
        PROVE  IsReport(p)'
    <3>1. calls'[p] = calls[p]
      BY <2>2 DEF Replaced, NewReport, Idle
    <3>. QED BY <2>2, <3>1 DEF ServiceInv, CallsOK, IsReport
  <2>. QED BY <2>1, <2>2 DEF CallsOK
<1>3. ViewsOK'
  <2>1. ASSUME NEW p \in Processes
        PROVE  calls'[p] = calls[p] \/ (calls'[p].views = NoViews /\ calls'[p].phase # "store")
    BY DEF Replaced, NewReport, Idle
  <2>2. ASSUME NEW p \in Processes, calls'[p] = calls[p]
        PROVE  /\ \A c \in CertificateIds : calls'[p].views[c] # {} =>
                    /\ Replays(calls'[p].views[c])
                    /\ \A e \in calls'[p].views[c] : e.cert = c /\ e \in log' \cup calls'[p].events
                    /\ {e \in calls'[p].events : e.cert = c} \subseteq calls'[p].views[c]
               /\ calls'[p].phase = "store" => AllLoaded(p)'
    BY <2>2 DEF ServiceInv, ViewsOK, NewEventsOf, AllLoaded, Touched, Replaced
  <2>3. ASSUME NEW p \in Processes, calls'[p].views = NoViews /\ calls'[p].phase # "store"
        PROVE  \A c \in CertificateIds : calls'[p].views[c] = {}
    BY <2>3 DEF NoViews
  <2>. QED BY <2>1, <2>2, <2>3 DEF ViewsOK, NewEventsOf
<1>4. RowsReplay' /\ IssuanceFirst'
  BY DEF ServiceInv, RowsReplay, IssuanceFirst, LogOf, Replaced
<1>5. IssuancesOK'
  <2>1. ASSUME NEW p \in Processes, NEW e \in calls'[p].events, IsIssued(e)
        PROVE  calls'[p] = calls[p]
    BY <2>1, ReplacedEvents DEF IsIssued, Synchronizable
  <2>. QED BY <2>1 DEF ServiceInv, IssuancesOK, IsIssued, Replaced
<1>. QED BY <1>1, <1>2, <1>3, <1>4, <1>5, ReplacedCounts DEF ServiceInv

-----------------------------------------------------------------------------
(* The calls that report on a block *)

Rank(block, e) == Cardinality({f \in block : f.cert <= e.cert})

\* The report on an event of a block.
ReportOn(block, e, kind) ==
  [type |-> IF kind = "answer" THEN PersistedType[e.type] ELSE "PersistError",
   cert |-> e.cert, payload |-> [persistedEventId |-> e.at],
   at |-> clock + Rank(block, e), cmd |-> commands + Rank(block, e)]

\* Ranks count from one, and tell certificates apart.
LEMMA Ranks ==
  ASSUME NEW block, IsFiniteSet(block), block \subseteq Event, NEW e \in block
  PROVE  /\ Cardinality(block) \in Nat /\ Rank(block, e) \in 1..Cardinality(block)
         /\ \A f \in block : e.cert # f.cert => Rank(block, e) # Rank(block, f)
<1> DEFINE Below(f) == {g \in block : g.cert <= f.cert}
<1>1. ASSUME NEW f \in block
      PROVE  /\ IsFiniteSet(Below(f)) /\ Cardinality(Below(f)) \in Nat
             /\ Cardinality(Below(f)) <= Cardinality(block)
  <2>1. Below(f) \in SUBSET block
    OBVIOUS
  <2> HIDE DEF Below
  <2>. QED BY <2>1, FS_Subset, FS_CardinalityType
<1>2. Cardinality(block) \in Nat
  BY FS_CardinalityType
<1>3. e \in Below(e)
  BY DEF Event, CertificateIds
<1>4. Cardinality(Below(e)) # 0
  <2> HIDE DEF Below
  <2>. QED BY <1>1, <1>3, FS_EmptySet
<1>5. ASSUME NEW f \in block, NEW g \in block, f.cert < g.cert
      PROVE  Cardinality(Below(f)) # Cardinality(Below(g))
  <2>1. Below(f) \subseteq Below(g) /\ g \in Below(g) /\ g \notin Below(f)
    BY <1>5 DEF Event, CertificateIds
  <2> HIDE DEF Below
  <2>. QED BY <1>1, <2>1, FS_Subset
<1>6. \A f \in block : Rank(block, f) = Cardinality(Below(f))
  BY DEF Rank
<1>7. \A f \in block : f.cert \in Nat
  BY DEF Event, CertificateIds
<1> HIDE DEF Below
<1>8. ASSUME NEW f \in block, e.cert # f.cert
      PROVE  Rank(block, e) # Rank(block, f)
  <2>1. e.cert < f.cert \/ f.cert < e.cert
    BY <1>7, <1>8
  <2>. QED BY <1>5, <1>6, <2>1
<1>. QED BY <1>1, <1>2, <1>4, <1>6, <1>8

\* What a job's calls are when it begins to report on a block.
LEMMA ReportsBegin ==
  ASSUME ServiceInv, TimesUnique, NEW j \in Jobs, NEW block \in SUBSET ForChain,
         NEW kind \in {"answer", "error"}, BeginReports(j, block, kind),
         failures' \in 0..MaxFailures
  PROVE  /\ Replaced
         /\ \A l \in LanesOf(j, block, kind) : \E e \in block :
              /\ l = <<j, e.cert, kind>>
              /\ calls'[l].events = {ReportOn(block, e, kind)}
              /\ calls'[l].phase = "read"
              /\ ReportOn(block, e, kind) \in Event
         /\ \A p \in Processes : p \notin LanesOf(j, block, kind) => calls'[p] = calls[p]
<1> DEFINE Lane(e) == <<j, e.cert, kind>>
           n == Cardinality(block)
           Begun(e) == [Idle EXCEPT !.phase = "read", !.start = clock + Rank(block, e) - 1,
                                    !.size = 1, !.events = {ReportOn(block, e, kind)}]
<1>1. block \subseteq Event /\ IsFiniteSet(block) /\ clock \in Nat /\ commands \in Nat
  <2>1. block \in SUBSET log
    BY DEF ForChain
  <2>2. IsFiniteSet(block)
    BY <2>1, FS_Subset DEF ServiceInv, CountInv, TimesOK
  <2>. QED BY <2>1, <2>2 DEF ServiceInv, TypeOK
<1>2. /\ commands' = commands + n /\ clock' = clock + n
      /\ log' = log /\ attempts' = attempts /\ rows' = rows /\ lastId' = lastId
  BY DEF BeginReports, tables
<1>3. calls' = [p \in Processes |-> IF \E e \in block : p = Lane(e)
                                    THEN Begun(CHOOSE e \in block : p = Lane(e)) ELSE calls[p]]
  BY DEF BeginReports, ReportOn, Rank
<1>4. ASSUME NEW e \in block
      PROVE  /\ Rank(block, e) \in 1..n /\ n \in Nat
             /\ ReportOn(block, e, kind) \in Event
             /\ ReportOn(block, e, kind).type \notin Synchronizable
             /\ ReportOn(block, e, kind).payload.persistedEventId \in DOMAIN attempts
             /\ ReportOn(block, e, kind).at = clock + Rank(block, e)
  <2>1. Rank(block, e) \in 1..n /\ n \in Nat
    BY <1>1, Ranks
  <2>2. e.type \in Synchronizable /\ e \in log /\ e.at \in Nat /\ e.cert \in CertificateIds
    BY <1>1 DEF ForChain, Event
  <2>3. e.at \in DOMAIN attempts
    BY <2>2 DEF ServiceInv, CountInv, AttemptRows
  <2>4. /\ PersistedType[e.type] \in Acknowledgements
        /\ PersistedType[e.type] \notin Synchronizable
    BY <2>2 DEF PersistedType, Acknowledgements, Synchronizable
  <2>5. [persistedEventId |-> e.at] \in Report
    BY <2>2 DEF Report
  <2>. QED BY <1>1, <2>1, <2>2, <2>3, <2>4, <2>5 DEF ReportOn, Event, EventTypes, Synchronizable
<1>5. ASSUME NEW e \in block
      PROVE  /\ Begun(e) \in Call
             /\ Begun(e).phase = "read" /\ Begun(e).views = NoViews
             /\ Begun(e).events = {ReportOn(block, e, kind)}
             /\ Begun(e).start = clock + Rank(block, e) - 1 /\ Begun(e).size = 1
  <2> DEFINE start == clock + Rank(block, e) - 1
             events == {ReportOn(block, e, kind)}
             call == Begun(e)
  <2>1. start \in Nat /\ events \in SUBSET Event
    BY <1>1, <1>4
  <2>2. call = [Idle EXCEPT !.phase = "read", !.start = start, !.size = 1, !.events = events]
    OBVIOUS
  <2> HIDE DEF start, events, call
  <2>3. /\ call \in Call
        /\ call.phase = "read" /\ call.views = NoViews /\ call.events = events
        /\ call.start = start /\ call.size = 1
    BY <2>1, <2>2 DEF Call, Phases, Idle, NoViews
  <2>. QED BY <2>3 DEF start, events, call
<1> HIDE DEF Begun
<1>6. ASSUME NEW p \in Processes, NEW e \in block, p = Lane(e)
      PROVE  \E f \in block : p = Lane(f) /\ calls'[p] = Begun(f)
  BY <1>3, <1>6
<1>7. \A p \in Processes : (~ \E e \in block : p = Lane(e)) => calls'[p] = calls[p]
  BY <1>3
<1>8. ASSUME NEW l \in LanesOf(j, block, kind)
      PROVE  l \in Processes /\ \E e \in block : l = Lane(e)
  BY <1>1, <1>8, SyncAssumption DEF LanesOf, Lanes, Processes, Event
<1>9. ASSUME NEW p \in Processes, NEW e \in block, p = Lane(e), calls'[p] = Begun(e)
      PROVE  NewReport(p)
  <2> DEFINE g == ReportOn(block, e, kind)
  <2>1. /\ calls'[p].phase = "read" /\ calls'[p].views = NoViews /\ calls'[p].events = {g}
        /\ calls'[p].start = clock + Rank(block, e) - 1 /\ calls'[p].size = 1
    BY <1>5, <1>9
  <2>2. /\ g \in Event /\ g.type \notin Synchronizable /\ g.at = clock + Rank(block, e)
        /\ g.payload.persistedEventId \in DOMAIN attempts
        /\ Rank(block, e) \in 1..n /\ n \in Nat
    BY <1>4
  <2> HIDE DEF g, n
  <2>3. /\ calls'[p].start < g.at /\ g.at <= calls'[p].start + calls'[p].size
        /\ clock < g.at /\ g.at <= clock'
    BY <1>1, <1>2, <2>1, <2>2
  <2>. QED BY <2>1, <2>2, <2>3 DEF NewReport
<1>10. ASSUME NEW p \in Processes, NEW q \in Processes, p # q,
              NEW g \in calls'[p].events, NEW h \in calls'[q].events,
              clock < g.at, clock < h.at
       PROVE  g.at # h.at
  <2>1. ASSUME NEW r \in Processes, NEW e \in calls[r].events PROVE ~(clock < e.at)
    <3>1. e.at <= clock /\ e.at \in Nat
      BY DEF ServiceInv, CountInv, TimesOK, TypeOK, Call, Event
    <3>. QED BY <1>1, <3>1
  <2>2. PICK d \in block : p = Lane(d) /\ calls'[p] = Begun(d)
    BY <1>6, <1>7, <1>10, <2>1
  <2>3. PICK e \in block : q = Lane(e) /\ calls'[q] = Begun(e)
    BY <1>6, <1>7, <1>10, <2>1
  <2>4. d.cert # e.cert
    BY <1>10, <2>2, <2>3
  <2>5. Rank(block, d) # Rank(block, e)
    BY <1>1, <2>4, Ranks
  <2>6. g = ReportOn(block, d, kind) /\ h = ReportOn(block, e, kind)
    BY <1>5, <2>2, <2>3
  <2>. QED BY <1>1, <1>4, <2>5, <2>6
<1>11. calls' \in [Processes -> Call]
  <2>1. ASSUME NEW p \in Processes PROVE calls'[p] \in Call
    <3>1. CASE \E e \in block : p = Lane(e)
      BY <1>5, <1>6, <3>1
    <3>2. CASE ~ \E e \in block : p = Lane(e)
      BY <1>7, <3>2 DEF ServiceInv, TypeOK
    <3>. QED BY <3>1, <3>2
  <2>2. calls' = [p \in Processes |-> calls'[p]]
    BY <1>3
  <2>. QED BY <2>1, <2>2
<1>12. \A p \in Processes : calls'[p] = calls[p] \/ NewReport(p)
  BY <1>6, <1>7, <1>9
<1>13. commands' \in Nat /\ clock' \in Nat /\ clock <= clock'
  <2>1. n \in Nat
    BY <1>1, FS_CardinalityType
  <2>. QED BY <1>1, <1>2, <2>1
<1>14. Replaced
  BY <1>2, <1>10, <1>11, <1>12, <1>13 DEF Replaced
<1>15. ASSUME NEW l \in LanesOf(j, block, kind)
       PROVE  \E e \in block : /\ l = Lane(e)
                               /\ calls'[l].events = {ReportOn(block, e, kind)}
                               /\ calls'[l].phase = "read"
                               /\ ReportOn(block, e, kind) \in Event
  <2>1. PICK e \in block : l = Lane(e) /\ calls'[l] = Begun(e)
    BY <1>6, <1>8
  <2>. QED BY <1>4, <1>5, <2>1
<1>16. ASSUME NEW p \in Processes, p \notin LanesOf(j, block, kind)
       PROVE  calls'[p] = calls[p]
  BY <1>7, <1>16 DEF LanesOf
<1>. QED BY <1>14, <1>15, <1>16

\* A process that dies takes its calls with it.
LEMMA CrashReplaces ==
  ASSUME ServiceInv, NEW j \in Jobs, Crash(j)
  PROVE  Replaced
<1>1. /\ failures' = failures + 1 /\ failures < MaxFailures
      /\ log' = log /\ attempts' = attempts /\ rows' = rows /\ lastId' = lastId
      /\ commands' = commands /\ clock' = clock
      /\ calls' = [p \in Processes |-> IF p \in Lanes /\ p[1] = j THEN Idle ELSE calls[p]]
  BY DEF Crash, tables
<1>2. /\ calls' \in [Processes -> Call]
      /\ \A p \in Processes : calls'[p] = calls[p] \/ calls'[p] = Idle
  BY <1>1, IdleTyped DEF ServiceInv, TypeOK
<1>3. ASSUME NEW p \in Processes, NEW g \in calls'[p].events
      PROVE  ~(clock < g.at)
  <2>1. g \in calls[p].events
    BY <1>2 DEF Idle
  <2>2. g.at <= clock /\ g.at \in Nat /\ clock \in Nat
    BY <2>1 DEF ServiceInv, CountInv, TimesOK, TypeOK, Call, Event
  <2>. QED BY <2>2
<1>4. /\ commands' \in Nat /\ clock' \in Nat /\ clock <= clock'
      /\ failures' \in 0..MaxFailures
  BY <1>1, OffChainAssumption DEF ServiceInv, TypeOK
<1>. QED BY <1>1, <1>2, <1>3, <1>4 DEF Replaced

-----------------------------------------------------------------------------
(* The steps of one call *)

Others(p) == \A q \in Processes : q # p => calls'[q] = calls[q]

\* A user's call begins, or creates its events again.
Begins(p) ==
  /\ p \in Users
  /\ log' = log /\ attempts' = attempts
  /\ calls'[p].phase \in {"validate", "read"}
  /\ \A g \in calls'[p].events : g.type \in Synchronizable /\ clock < g.at
  /\ \A g, h \in calls'[p].events : g.at = h.at => g = h

\* A call goes on with its events.
GoesOn(p) ==
  /\ log' = log /\ attempts' = attempts
  /\ calls'[p].events = calls[p].events
  /\ <<calls[p].phase, calls'[p].phase>> \in
       {<<"validate", "validate">>, <<"read", "read">>, <<"read", "store">>,
        <<"findAttempt", "saveAttempt">>}

\* A call is over, or has thrown and holds its answer.
Throws(p) ==
  /\ log' = log /\ attempts' = attempts
  /\ \/ /\ calls'[p] = Idle
        /\ \A g \in calls[p].events : g.type \notin Acknowledgements
     \/ /\ calls'[p].events = calls[p].events /\ calls'[p].phase = "threw"
        /\ \E g \in calls[p].events : g.type \in Acknowledgements

\* A step of the call of process p, and what it does to the runs.
CallStep(p) ==
  /\ Others(p)
  /\ [Next]_vars
  /\ chain' = chain
  /\ jobs' = jobs \/ \E j \in Jobs : jobs' = [jobs EXCEPT ![j] = Off]
  /\ Begins(p) \/ GoesOn(p) \/ Store(p) \/ SaveAttempt(p) \/ Throws(p)

\* Users are no lanes, and every process is one or the other.
LEMMA Roles ==
  /\ Users \cap Lanes = {}
  /\ Processes = Users \cup Lanes
BY SyncAssumption DEF Processes

\* The events of a new call are told apart by their times.
LEMMA BeginBegins ==
  ASSUME SyncInv, NEW p \in Users, NEW cs, NEW phase \in {"validate", "read"},
         Len(cs) \in Nat, \A i \in 1..Len(cs) : cs[i].type \in Synchronizable,
         Begin(p, cs, phase), log' = log, attempts' = attempts
  PROVE  Begins(p) /\ Others(p)
<1>1. p \in Processes /\ clock \in Nat
  BY Roles DEF SyncInv, ServiceInv, TypeOK
<1>2. /\ calls'[p].events = EventsFrom(cs)
      /\ calls'[p].phase = phase
      /\ Others(p)
  BY <1>1, BeginResult DEF SyncInv, ServiceInv, Others
<1>3. \A g \in EventsFrom(cs) : g.type \in Synchronizable /\ clock < g.at
  BY <1>1 DEF EventsFrom
<1>4. \A g, h \in EventsFrom(cs) : g.at = h.at => g = h
  BY <1>1 DEF EventsFrom
<1>. QED BY <1>2, <1>3, <1>4 DEF Begins

\* A user's call begins.
LEMMA UserBegins ==
  ASSUME SyncInv, NEW p \in Users, Issue(p) \/ Move(p) \/ MoveBatch(p)
  PROVE  Begins(p) /\ Others(p)
<1>1. CASE Issue(p)
  <2>1. PICK mints \in Batches([from: {ZeroAddress}, to: Addresses, volume: Volumes]) :
          Begin(p, [i \in 1..Len(mints) |->
                     [type |-> "Issued", cert |-> lastId + i, payload |-> mints[i]]], "read")
    BY <1>1 DEF Issue
  <2> DEFINE n == Len(mints)
             cs == [i \in 1..n |->
                      [type |-> "Issued", cert |-> lastId + i, payload |-> mints[i]]]
  <2>2. n \in Nat
    BY BatchIsSeq
  <2>3. cs \in Seq({cs[i] : i \in 1..n}) /\ Len(cs) = n
    <3>1. cs \in [1..n -> {cs[i] : i \in 1..n}]
      OBVIOUS
    <3> HIDE DEF cs
    <3>. QED BY <2>2, <3>1
  <2>4. \A i \in 1..n : cs[i].type \in Synchronizable
    BY DEF Synchronizable
  <2>5. Begin(p, cs, "read") /\ log' = log /\ attempts' = attempts
    BY <1>1, <2>1 DEF Issue
  <2> HIDE DEF cs
  <2>. QED BY <2>2, <2>3, <2>4, <2>5, BeginBegins
<1>2. CASE Move(p)
  <2>1. PICK c \in Transfers \cup Claims : Begin(p, <<c>>, "read")
    BY <1>2 DEF Move
  <2>2. \A i \in 1..Len(<<c>>) : <<c>>[i].type \in Synchronizable
    BY MovesAreCommands DEF Synchronizable
  <2>. QED BY <1>2, <2>1, <2>2, BeginBegins DEF Move
<1>3. CASE MoveBatch(p)
  <2>1. PICK cs \in Batches(Transfers) \cup Batches(Claims) : Begin(p, cs, "validate")
    BY <1>3 DEF MoveBatch
  <2>2. Len(cs) \in Nat /\ \A i \in 1..Len(cs) : cs[i] \in Transfers \cup Claims
    BY BatchIsSeq
  <2>3. \A i \in 1..Len(cs) : cs[i].type \in Synchronizable
    BY <2>2, MovesAreCommands DEF Synchronizable
  <2>. QED BY <1>3, <2>1, <2>2, <2>3, BeginBegins DEF MoveBatch
<1>. QED BY <1>1, <1>2, <1>3

\* A batch that creates its events again begins anew.
LEMMA RecreateBegins ==
  ASSUME SyncInv, NEW p \in Processes, Recreate(p)
  PROVE  Begins(p) /\ Others(p)
<1>1. p \in Users
  BY Roles DEF Recreate, SyncInv, RolesOK
<1>2. /\ calls'[p].events = Recreated(p) /\ calls'[p].phase = "read"
      /\ log' = log /\ attempts' = attempts /\ Others(p)
  BY DEF Recreate, tables, SyncInv, ServiceInv, TypeOK, Call, Others
<1>3. \A g \in Recreated(p) : clock < g.at
  BY RecreatedFresh DEF SyncInv, ServiceInv, CountInv
<1>4. ASSUME NEW e \in calls[p].events
      PROVE  /\ e.at \in Nat /\ calls[p].start \in Nat /\ clock \in Nat
             /\ e.type \in Synchronizable
             /\ [e EXCEPT !.at = e.at - calls[p].start + clock].at = e.at - calls[p].start + clock
             /\ [e EXCEPT !.at = e.at - calls[p].start + clock].type = e.type
  BY <1>1 DEF SyncInv, ServiceInv, TypeOK, Call, Event, RolesOK
<1>5. \A g \in Recreated(p) : g.type \in Synchronizable
  BY <1>4 DEF Recreated
<1>6. ASSUME NEW g \in Recreated(p), NEW h \in Recreated(p), g.at = h.at
      PROVE  g = h
  <2>1. PICK d \in calls[p].events : g = [d EXCEPT !.at = d.at - calls[p].start + clock]
    BY DEF Recreated
  <2>2. PICK e \in calls[p].events : h = [e EXCEPT !.at = e.at - calls[p].start + clock]
    BY DEF Recreated
  <2>3. d.at - calls[p].start + clock = e.at - calls[p].start + clock
    BY <1>4, <1>6, <2>1, <2>2
  <2>4. d.at = e.at
    BY <1>4, <2>3
  <2>5. d = e
    BY <2>4 DEF SyncInv, TimesUnique
  <2>. QED BY <2>1, <2>2, <2>5
<1>. QED BY <1>1, <1>2, <1>3, <1>5, <1>6 DEF Begins

\* What a call that throws leaves.
LEMMA ThrowThrows ==
  ASSUME SyncInv, NEW p \in Processes, Throw(p), log' = log, attempts' = attempts
  PROVE  Throws(p) /\ Others(p)
<1>1. calls \in [Processes -> Call]
  BY DEF SyncInv, ServiceInv, TypeOK
<1>2. CASE /\ \E e \in calls[p].events : e.type \in Acknowledgements
           /\ calls' = [calls EXCEPT ![p] = [@ EXCEPT !.phase = "threw", !.views = NoViews]]
  <2>1. calls'[p].events = calls[p].events /\ calls'[p].phase = "threw"
    BY <1>1, <1>2 DEF Call
  <2>. QED BY <1>1, <1>2, <2>1 DEF Throws, Others
<1>3. CASE /\ \A e \in calls[p].events : e.type \notin Acknowledgements
           /\ calls' = [calls EXCEPT ![p] = Idle]
  BY <1>1, <1>3 DEF Throws, Others
<1>. QED BY <1>2, <1>3 DEF Throw

\* The other steps of a call.
LEMMA CallProceeds ==
  ASSUME SyncInv, NEW p \in Processes, Proceed(p)
  PROVE  /\ Others(p)
         /\ Begins(p) \/ GoesOn(p) \/ Store(p) \/ SaveAttempt(p)
<1>1. calls \in [Processes -> Call]
  BY DEF SyncInv, ServiceInv, TypeOK
<1>2. CASE \E c \in Touched(p) : Load(p, c)
  BY <1>1, <1>2 DEF Load, tables, Call, Others, GoesOn
<1>3. CASE Project(p)
  BY <1>1, <1>3 DEF Project, Call, Others, GoesOn
<1>4. CASE FindAttempt(p)
  BY <1>1, <1>4 DEF FindAttempt, tables, Call, Others, GoesOn
<1>5. CASE Store(p)
  BY <1>1, <1>5 DEF Store, Others
<1>6. CASE SaveAttempt(p)
  BY <1>1, <1>6 DEF SaveAttempt, Others
<1>7. CASE Recreate(p)
  BY <1>7, RecreateBegins
<1>. QED BY <1>2, <1>3, <1>4, <1>5, <1>6, <1>7 DEF Proceed

\* The steps of users and of lanes are steps of calls.
LEMMA CallStepsAre ==
  ASSUME SyncInv, NEW p \in Processes,
         (p \in Users /\ UserStep(p)) \/ (p \in Lanes /\ LaneStep(p))
  PROVE  CallStep(p)
<1>1. ASSUME p \in Users, UserStep(p)
      PROVE  CallStep(p)
  <2>1. chain' = chain /\ jobs' = jobs
    BY <1>1 DEF UserStep, syncVars
  <2>2. CASE Issue(p) \/ Move(p) \/ MoveBatch(p)
    BY <1>1, <2>1, <2>2, UserBegins DEF CallStep, Next
  <2>3. CASE Proceed(p)
    BY <2>1, <2>3, CallProceeds DEF CallStep, Next, Step
  <2>4. CASE \E c \in Touched(p) : Reject(p, c)
    BY <2>1, <2>4, ThrowThrows DEF CallStep, Next, Step, Reject, tables
  <2>. QED BY <1>1, <2>2, <2>3, <2>4 DEF UserStep
<1>2. ASSUME p \in Lanes, LaneStep(p)
      PROVE  CallStep(p)
  <2>1. CASE LaneProceeds(p)
    BY <2>1, CallProceeds DEF CallStep, Next, Step, LaneProceeds, syncVars
  <2>2. CASE LaneThrows(p)
    <3>1. chain' = chain /\ (jobs' = jobs \/ \E j \in Jobs : jobs' = [jobs EXCEPT ![j] = Off])
      BY <1>2, <2>2 DEF LaneThrows, Lanes
    <3>2. CASE \E c \in Touched(p) : Reject(p, c)
      BY <3>1, <3>2, ThrowThrows DEF CallStep, Next, Step, Reject, tables
    <3>3. CASE Fail(p) /\ Throw(p)
      BY <3>1, <3>3, ThrowThrows DEF CallStep, Next, Step, Fail, tables
    <3>. QED BY <2>2, <3>2, <3>3 DEF LaneThrows
  <2>. QED BY <1>2, <2>1, <2>2 DEF LaneStep
<1>. QED BY <1>1, <1>2

\* What such a step stores, and what the call has after it.
LEMMA CallStepResult ==
  ASSUME SyncInv, NEW p \in Processes, CallStep(p)
  PROVE  /\ log \subseteq log'
         /\ \A g \in log' : g \in log \/ (Store(p) /\ g \in calls[p].events)
         /\ \A g \in calls'[p].events :
              \/ g \in calls[p].events
              \/ Begins(p) /\ g.type \in Synchronizable /\ clock < g.at
         /\ Pending(p)' => Begins(p) \/ (Pending(p) /\ calls'[p].events = calls[p].events)
         /\ Store(p) => Pending(p) /\ calls[p].phase = "store"
<1>1. CASE Begins(p)
  BY <1>1 DEF Begins, Store, Pending
<1>2. CASE GoesOn(p)
  BY <1>2 DEF GoesOn, Store, Pending
<1>3. CASE Store(p)
  <2>1. log' = log \cup calls[p].events /\ calls[p].phase = "store"
    BY <1>3 DEF Store
  <2>2. \/ calls'[p] = Idle
        \/ calls'[p].events = calls[p].events /\ calls'[p].phase = "findAttempt"
    BY <1>3 DEF Store, SyncInv, ServiceInv, TypeOK, Call
  <2>. QED BY <1>3, <2>1, <2>2 DEF Idle, Pending
<1>4. CASE SaveAttempt(p)
  <2>1. calls'[p] = Idle /\ log' = log /\ calls[p].phase = "saveAttempt"
    BY <1>4 DEF SaveAttempt, SyncInv, ServiceInv, TypeOK
  <2>. QED BY <2>1 DEF Idle, Pending, Store
<1>5. CASE Throws(p)
  <2>1. log' = log /\ calls'[p].phase \in {"idle", "threw"} /\ calls'[p].events \in {{}, calls[p].events}
    BY <1>5 DEF Throws, Idle
  <2>. QED BY <2>1 DEF Pending, Store
<1>. QED BY <1>1, <1>2, <1>3, <1>4, <1>5 DEF CallStep

\* Types of the synchronization's own variables.
LEMMA CallStepTyped ==
  ASSUME SyncInv, NEW p \in Processes, CallStep(p)
  PROVE  ServiceInv' /\ SyncTypeOK'
<1>1. [Next]_vars
  BY DEF CallStep
<1>2. ServiceInv'
  BY <1>1, NextTyped, NextRead, NextIssues, NextCounts DEF SyncInv, ServiceInv
<1>3. Off \in Run
  BY DEF Off, Run
<1>. QED BY <1>2, <1>3 DEF SyncInv, SyncTypeOK, CallStep, ServiceInv

\* Events that are stored keep their times to themselves.
LEMMA CallStepTimes ==
  ASSUME SyncInv, NEW p \in Processes, CallStep(p)
  PROVE  TimesUnique'
<1>1. ASSUME NEW e \in log', NEW f \in log', e.at = f.at
      PROVE  e = f
  <2>1. CASE e \in log /\ f \in log
    BY <1>1, <2>1 DEF SyncInv, TimesUnique
  <2>2. CASE Store(p)
    <3>1. \A g \in calls[p].events, h \in log : g.at # h.at
      BY <2>2, CallStepResult DEF SyncInv, ServiceInv, CountInv, TimesOK
    <3>. QED BY <1>1, <3>1, CallStepResult DEF SyncInv, TimesUnique
  <2>. QED BY <2>1, <2>2, CallStepResult
<1>2. ASSUME NEW q \in Processes, NEW e \in calls'[q].events, NEW f \in calls'[q].events,
             e.at = f.at
      PROVE  e = f
  <2>1. CASE q # p
    BY <1>2, <2>1 DEF CallStep, Others, SyncInv, TimesUnique
  <2>2. CASE q = p /\ Begins(p)
    BY <1>2, <2>2 DEF Begins
  <2>3. CASE q = p /\ ~Begins(p)
    BY <1>2, <2>3, CallStepResult DEF SyncInv, TimesUnique
  <2>. QED BY <2>1, <2>2, <2>3
<1>. QED BY <1>1, <1>2 DEF TimesUnique

\* Users go on commanding, lanes reporting.
LEMMA CallStepRoles ==
  ASSUME SyncInv, NEW p \in Processes, CallStep(p)
  PROVE  RolesOK'
<1>1. ASSUME NEW u \in Users
      PROVE  /\ \A g \in calls'[u].events : g.type \in Synchronizable
             /\ calls'[u].phase \in {"idle", "validate", "read", "store"}
  <2>1. CASE u # p
    BY <2>1, Roles DEF CallStep, Others, SyncInv, RolesOK
  <2>2. CASE u = p
    <3>1. \A g \in calls'[u].events : g.type \in Synchronizable
      BY <2>2, CallStepResult DEF SyncInv, RolesOK
    <3>2. \A g \in calls[u].events : g.type \in Synchronizable /\ g.type \notin Acknowledgements
      BY DEF SyncInv, RolesOK, Acknowledgements, PersistedType, Synchronizable
    <3>3. CASE Begins(p)
      BY <2>2, <3>3 DEF Begins
    <3>4. CASE GoesOn(p)
      BY <2>2, <3>4 DEF GoesOn, SyncInv, RolesOK
    <3>5. CASE Store(p)
      BY <2>2, <3>2, <3>5 DEF Store, IsReport, Idle, SyncInv, ServiceInv, TypeOK
    <3>6. CASE SaveAttempt(p)
      BY <2>2, <3>6 DEF SaveAttempt, SyncInv, RolesOK
    <3>7. CASE Throws(p)
      BY <2>2, <3>2, <3>7 DEF Throws, Idle
    <3>. QED BY <3>1, <3>3, <3>4, <3>5, <3>6, <3>7 DEF CallStep
  <2>. QED BY <2>1, <2>2
<1>2. ASSUME NEW l \in Lanes
      PROVE  /\ \A g \in calls'[l].events : g.type \notin Synchronizable
             /\ calls'[l].phase # "validate"
  <2>1. CASE l # p
    BY <2>1, Roles DEF CallStep, Others, SyncInv, RolesOK
  <2>2. CASE l = p
    <3>1. ~Begins(p)
      BY <2>2, Roles DEF Begins
    <3>2. \A g \in calls'[l].events : g.type \notin Synchronizable
      BY <2>2, <3>1, CallStepResult DEF SyncInv, RolesOK
    <3>3. calls[l].phase # "validate"
      BY DEF SyncInv, RolesOK
    <3>4. CASE GoesOn(p)
      BY <2>2, <3>2, <3>3, <3>4 DEF GoesOn
    <3>5. CASE Store(p)
      BY <2>2, <3>2, <3>5 DEF Store, Idle, SyncInv, ServiceInv, TypeOK, Call
    <3>6. CASE SaveAttempt(p)
      BY <2>2, <3>2, <3>6 DEF SaveAttempt, Idle, SyncInv, ServiceInv, TypeOK
    <3>7. CASE Throws(p)
      BY <2>2, <3>2, <3>7 DEF Throws, Idle
    <3>. QED BY <3>1, <3>2, <3>4, <3>5, <3>6, <3>7 DEF CallStep
  <2>. QED BY <2>1, <2>2
<1>. QED BY <1>1, <1>2 DEF RolesOK

\* No answer is made by a call but what its beginning made.
LEMMA CallStepAnswers ==
  ASSUME SyncInv, NEW p \in Processes, CallStep(p)
  PROVE  AnswersOK'
<1>1. ForChain \subseteq ForChain'
  BY CallStepResult DEF ForChain
<1>2. chain' = chain
  BY DEF CallStep
<1>3. ASSUME NEW t \in Nat, NEW g \in Answers(t)'
      PROVE  g \in Answers(t)
  <2>1. g \in Event /\ g.type \in Acknowledgements /\ g.payload.persistedEventId = t
    BY DEF Answers
  <2>2. g.type \notin Synchronizable
    BY <2>1 DEF Acknowledgements, PersistedType, Synchronizable
  <2>3. CASE g \in log'
    BY <2>1, <2>3, CallStepResult DEF Answers
  <2>4. CASE \E q \in Processes : Pending(q)' /\ g \in calls'[q].events
    <3>1. PICK q \in Processes : Pending(q)' /\ g \in calls'[q].events
      BY <2>4
    <3>2. CASE q # p
      BY <2>1, <3>1, <3>2 DEF Answers, CallStep, Others, Pending
    <3>3. CASE q = p
      <4>1. ~Begins(p)
        BY <2>2, <3>1, <3>3 DEF Begins
      <4>. QED BY <2>1, <3>1, <3>3, <4>1, CallStepResult DEF Answers
    <3>. QED BY <3>2, <3>3
  <2>. QED BY <2>3, <2>4 DEF Answers
<1>4. ASSUME NEW t \in Nat
      PROVE  /\ IsFiniteSet(Answers(t)')
             /\ Cardinality(Answers(t)') <= IF t \in DOMAIN chain THEN chain[t] ELSE 0
  <2> DEFINE A == Answers(t)
             B == Answers(t)'
             n == IF t \in DOMAIN chain THEN chain[t] ELSE 0
  <2>1. B \subseteq A /\ IsFiniteSet(A) /\ Cardinality(A) <= n
    BY <1>3 DEF SyncInv, AnswersOK
  <2>2. n \in Nat
    BY DEF SyncInv, SyncTypeOK
  <2> HIDE DEF A, B, n
  <2>3. IsFiniteSet(B) /\ Cardinality(B) <= n
    BY <2>1, <2>2, FS_Subset, FS_CardinalityType
  <2>. QED BY <2>3 DEF B, n
<1>. QED BY <1>1, <1>2, <1>3, <1>4 DEF SyncInv, AnswersOK, IsAnswerTo

\* An answer that is counted is stored.
LEMMA CallStepCounted ==
  ASSUME SyncInv, NEW p \in Processes, CallStep(p)
  PROVE  CountedAnswered'
<1>1. log \subseteq log'
  BY CallStepResult
<1>2. CASE attempts' = attempts
  BY <1>1, <1>2 DEF SyncInv, CountedAnswered
<1>3. CASE Store(p)
  <2> DEFINE fresh == {e.at : e \in {f \in calls[p].events : ShouldBeSynchronized(f)}}
  <2>1. attempts' = [t \in DOMAIN attempts \cup fresh |->
                       IF t \in fresh THEN [count |-> 0, failed |-> FALSE] ELSE attempts[t]]
    BY <1>3 DEF Store
  <2> HIDE DEF fresh
  <2>2. ASSUME NEW t \in DOMAIN attempts', attempts'[t].count > 0
        PROVE  t \in DOMAIN attempts /\ attempts'[t] = attempts[t]
    BY <2>1, <2>2
  <2>. QED BY <1>1, <2>2 DEF SyncInv, CountedAnswered
<1>4. CASE SaveAttempt(p)
  <2>1. PICK e \in calls[p].events :
          attempts' = [attempts EXCEPT ![e.payload.persistedEventId] =
                         [count |-> calls[p].count + 1, failed |-> e.type = "PersistError"]]
    BY <1>4 DEF SaveAttempt
  <2>2. e \in log /\ e.type \notin Synchronizable
    BY <1>4 DEF SaveAttempt, SyncInv, ServiceInv, CountInv, TimesOK, Counting, CallsOK, IsReport
  <2>3. ASSUME NEW t \in DOMAIN attempts', attempts'[t].count > 0, ~attempts'[t].failed
        PROVE  \E g \in log : /\ g.type \notin Synchronizable /\ g.type # "PersistError"
                              /\ g.payload.persistedEventId = t
    <3>1. CASE t = e.payload.persistedEventId
      BY <2>1, <2>2, <2>3, <3>1
    <3>2. CASE t # e.payload.persistedEventId
      BY <2>1, <2>3, <3>2 DEF SyncInv, CountedAnswered
    <3>. QED BY <3>1, <3>2
  <2>. QED BY <1>1, <2>3 DEF CountedAnswered
<1>. QED BY <1>2, <1>3, <1>4 DEF CallStep, Begins, GoesOn, Throws

\* An answer that is awaited is stored, or stays in its lane.
LEMMA CallStepAwaited ==
  ASSUME SyncInv, NEW p \in Processes, CallStep(p)
  PROVE  BlockAwaited'
<1> SUFFICES ASSUME NEW j \in Jobs, jobs'[j].phase = "answers", NEW e \in jobs'[j].block,
                    ~Persisted(e)'
             PROVE  LET l == <<j, e.cert, "answer">>
                    IN  /\ calls'[l].phase \in {"read", "store", "threw"}
                        /\ \E g \in calls'[l].events : IsAnswerTo(g, e)
  BY DEF BlockAwaited
<1> DEFINE l == <<j, e.cert, "answer">>
<1>1. jobs'[j] = jobs[j]
  BY DEF CallStep, Off, SyncInv, SyncTypeOK
<1>2. e \in ForChain
  BY <1>1 DEF SyncInv, RunsOK, RunOK, Active
<1>3. ~Persisted(e)
  BY CallStepResult DEF Persisted, Reports
<1>4. /\ calls[l].phase \in {"read", "store", "threw"}
      /\ \E g \in calls[l].events : IsAnswerTo(g, e)
  BY <1>1, <1>3 DEF SyncInv, BlockAwaited
<1>5. PICK g \in calls[l].events : IsAnswerTo(g, e)
  BY <1>4
<1>6. l \in Lanes
  BY <1>2 DEF Lanes, ForChain, SyncInv, ServiceInv, TypeOK, Event
<1>7. g.type \in Acknowledgements /\ g.type \notin Synchronizable /\ g.type # "PersistError"
  BY <1>2, <1>5 DEF IsAnswerTo, ForChain, Acknowledgements, PersistedType, Synchronizable
<1> HIDE DEF l
<1>8. CASE l # p
  BY <1>4, <1>6, <1>8, Roles DEF CallStep, Others, l
<1>9. CASE l = p
  <2>1. ~Begins(p)
    BY <1>6, <1>9, Roles DEF Begins
  <2>2. CASE GoesOn(p)
    BY <1>4, <1>9, <2>2 DEF GoesOn, l
  <2>3. ~Store(p)
    <3>1. ASSUME Store(p) PROVE g \in log'
      BY <1>5, <1>9, <3>1 DEF Store
    <3>. QED BY <1>5, <1>7, <3>1 DEF Persisted, Reports, IsAnswerTo
  <2>4. ~SaveAttempt(p)
    BY <1>4, <1>9 DEF SaveAttempt, l
  <2>5. CASE Throws(p)
    BY <1>4, <1>5, <1>7, <1>9, <2>5 DEF Throws, l
  <2>. QED BY <2>1, <2>2, <2>3, <2>4, <2>5 DEF CallStep
<1>. QED BY <1>8, <1>9

\* Runs go on with what they have, or are over.
LEMMA CallStepRuns ==
  ASSUME SyncInv, NEW p \in Processes, CallStep(p)
  PROVE  RunsOK'
<1>1. ForChain \subseteq ForChain'
  BY CallStepResult DEF ForChain
<1>2. \A j \in Jobs : jobs'[j] = jobs[j] \/ jobs'[j] = Off
  BY DEF CallStep, SyncInv, SyncTypeOK
<1>. QED BY <1>1, <1>2 DEF SyncInv, RunsOK, RunOK, Active, Off

LEMMA CallStepKeeps ==
  ASSUME SyncInv, NEW p \in Processes, CallStep(p)
  PROVE  SyncInv'
BY CallStepTyped, CallStepTimes, CallStepRoles, CallStepAnswers, CallStepCounted,
   CallStepAwaited, CallStepRuns DEF SyncInv

-----------------------------------------------------------------------------
(* The steps of a run *)

\* A run that goes on works on what it had; the events it pops are the
\* earliest of their certificates in the queue.
LEMMA ContinueOK ==
  ASSUME TimesUnique, NEW run \in Run, run.block = {},
         run.queue \cup Active(run) \subseteq ForChain,
         \A e, f \in Active(run) : e.cert = f.cert => e = f
  PROVE  /\ Continue(run) \in Run /\ Continue(run).phase \in {"send", "select", "find"}
         /\ RunOK(Continue(run))
         /\ RunInOrder(run) => RunInOrder(Continue(run))
<1> DEFINE next == Continue(run)
           first == FirstOfEach(run.queue)
<1>1. CASE run.todo # {}
  <2>1. next = [run EXCEPT !.phase = "send"]
    BY <1>1 DEF Continue
  <2>2. /\ next \in Run /\ next.phase = "send" /\ next.queue = run.queue
        /\ next.batch = run.batch /\ next.todo = run.todo /\ next.block = {}
    BY <2>1 DEF Run
  <2> HIDE DEF next
  <2>. QED BY <2>2 DEF next, RunOK, RunInOrder, Active
<1>2. CASE run.todo = {} /\ run.batch # {}
  <2>1. next = [run EXCEPT !.phase = "select"]
    BY <1>2 DEF Continue
  <2>2. /\ next \in Run /\ next.phase = "select" /\ next.queue = run.queue
        /\ next.batch = run.batch /\ next.todo = {} /\ next.block = {}
    BY <1>2, <2>1 DEF Run
  <2> HIDE DEF next
  <2>. QED BY <1>2, <2>2 DEF next, RunOK, RunInOrder, Active
<1>3. CASE run.todo = {} /\ run.batch = {} /\ run.queue # {}
  <2>1. next = [run EXCEPT !.phase = "select", !.batch = first, !.queue = @ \ first]
    BY <1>3 DEF Continue
  <2>2. first \subseteq run.queue /\ run.queue \subseteq Event
    BY DEF FirstOfEach, Run
  <2> HIDE DEF first, next
  <2>3. /\ next \in Run /\ next.phase = "select" /\ next.queue = run.queue \ first
        /\ next.batch = first /\ next.todo = {} /\ next.block = {}
    BY <1>3, <2>1, <2>2 DEF Run
  <2>4. Active(next) = first /\ Active(run) = {}
    BY <1>3, <2>3 DEF Active
  <2>5. ASSUME NEW e \in first, NEW f \in run.queue, e.cert = f.cert
        PROVE  e.at <= f.at /\ e.at \in Nat /\ f.at \in Nat
    BY <2>2, <2>5 DEF first, FirstOfEach, Event
  <2>6. ASSUME NEW e \in first, NEW f \in first, e.cert = f.cert
        PROVE  e = f
    <3>1. e.at = f.at
      BY <2>2, <2>5, <2>6
    <3>2. e \in log /\ f \in log
      BY <2>2 DEF ForChain
    <3>. QED BY <3>1, <3>2 DEF TimesUnique
  <2>7. RunOK(next)
    BY <2>2, <2>3, <2>4, <2>6 DEF RunOK
  <2>8. ASSUME RunInOrder(run)
        PROVE  RunInOrder(next)
    <3>1. ASSUME NEW f \in run.queue, NEW e \in Earlier(f)
          PROVE  Persisted(e) \/ e \in run.queue
      BY <2>4, <2>8 DEF RunInOrder
    <3>2. ASSUME NEW f \in first, NEW e \in Earlier(f)
          PROVE  Persisted(e)
      <4>1. ~(e \in run.queue)
        <5>1. e.cert = f.cert /\ e.at < f.at
          BY DEF Earlier
        <5>. QED BY <2>5, <5>1
      <4>. QED BY <2>2, <3>1, <4>1
    <3>. QED BY <2>2, <2>3, <2>4, <3>1, <3>2 DEF RunInOrder
  <2>. QED BY <2>3, <2>7, <2>8 DEF next
<1>4. CASE run.todo = {} /\ run.batch = {} /\ run.queue = {}
  <2>1. next = [run EXCEPT !.phase = "find", !.round = @ + 1]
    BY <1>4 DEF Continue
  <2> DEFINE round == run.round + 1
  <2>2. round \in Nat
    BY DEF Run
  <2>3. next = [run EXCEPT !.phase = "find", !.round = round]
    BY <2>1
  <2> HIDE DEF round, next
  <2>4. /\ next \in Run /\ next.phase = "find" /\ next.queue = {}
        /\ next.batch = {} /\ next.todo = {} /\ next.block = {}
    BY <1>4, <2>2, <2>3 DEF Run
  <2>. QED BY <2>4 DEF next, RunOK, RunInOrder, Active
<1>. QED BY <1>1, <1>2, <1>3, <1>4

\* A run's own step: it reads the tables and changes nothing but itself.
RunMoves(j) ==
  /\ UNCHANGED <<vars, chain>>
  /\ \E run \in Run :
       /\ jobs' = [jobs EXCEPT ![j] = run]
       /\ run.phase # "answers"
       /\ RunOK(run)
       /\ InOrder => RunInOrder(run)

\* What runs work on is typed.
LEMMA StoredTyped ==
  ASSUME SyncInv
  PROVE  /\ ForChain \subseteq log /\ log \subseteq Event
         /\ \A e \in log : e.at \in Nat /\ e.cert \in CertificateIds
         /\ \A j \in Jobs : jobs[j] \in Run /\ RunOK(jobs[j])
BY DEF ForChain, SyncInv, ServiceInv, TypeOK, Event, SyncTypeOK, RunsOK

\* A run that is off has nothing to do.
LEMMA OffMoves ==
  ASSUME SyncInv, NEW j \in Jobs, Start(j) \/ Finish(j)
  PROVE  RunMoves(j)
<1>1. CASE Start(j)
  <2> DEFINE run == [jobs[j] EXCEPT !.phase = "find"]
  <2>1. jobs' = [jobs EXCEPT ![j] = run] /\ UNCHANGED <<vars, chain>>
    BY <1>1 DEF Start, SyncInv, SyncTypeOK
  <2>2. /\ jobs[j] \in Run /\ jobs[j].queue = {} /\ jobs[j].batch = {}
        /\ jobs[j].todo = {} /\ jobs[j].block = {}
    BY <1>1, StoredTyped DEF Start, RunOK
  <2>3. /\ run \in Run /\ run.phase = "find" /\ run.queue = {} /\ run.batch = {}
        /\ run.todo = {} /\ run.block = {}
    BY <2>2 DEF Run
  <2> HIDE DEF run
  <2>4. RunOK(run) /\ RunInOrder(run)
    BY <2>3 DEF RunOK, RunInOrder, Active
  <2>. QED BY <2>1, <2>3, <2>4 DEF RunMoves
<1>2. CASE Finish(j)
  <2>1. /\ Off \in Run /\ Off.phase = "off" /\ Off.queue = {} /\ Off.batch = {}
        /\ Off.todo = {} /\ Off.block = {}
    BY DEF Off, Run
  <2>2. RunOK(Off) /\ RunInOrder(Off)
    BY <2>1 DEF RunOK, RunInOrder, Active
  <2>. QED BY <1>2, <2>1, <2>2 DEF RunMoves, Finish
<1>. QED BY <1>1, <1>2

\* Only stored events for the chain are to be processed.
LEMMA ToProcessForChain ==
  ASSUME SyncInv
  PROVE  ToProcess \subseteq ForChain /\ IsFiniteSet(ToProcess)
<1>1. ASSUME NEW e \in ToProcess PROVE e \in ForChain
  <2>1. e \in log /\ \E f \in log : f.type \in Synchronizable /\ f.at = e.at
    BY DEF ToProcess, SyncInv, ServiceInv, CountInv, AttemptRows
  <2>. QED BY <2>1 DEF SyncInv, TimesUnique, ForChain
<1>2. ToProcess \in SUBSET log
  BY DEF ToProcess
<1>. QED BY <1>1, <1>2, FS_Subset DEF SyncInv, ServiceInv, CountInv, TimesOK

\* With an event, all those before it that are to be processed are taken;
\* the others of its certificate are persisted.
LEMMA TakenInOrder ==
  ASSUME SyncInv, NEW f \in Taken, NEW e \in Earlier(f)
  PROVE  e \in Taken \/ Persisted(e)
<1>1. f \in ToProcess /\ e \in ForChain /\ e.cert = f.cert /\ e.at < f.at
  BY DEF Taken, Earlier
<1>2. e \in log /\ f \in log /\ e.at \in Nat /\ f.at \in Nat /\ e \in Event
  BY <1>1, StoredTyped DEF ToProcess
<1>3. CASE e \in ToProcess
  <2> DEFINE Before(g) == {h \in ToProcess : h.at < g.at}
  <2>1. Before(e) \subseteq Before(f)
    BY <1>1, <1>2, StoredTyped DEF ToProcess
  <2>2. IsFiniteSet(Before(f))
    <3>1. Before(f) \in SUBSET ToProcess
      OBVIOUS
    <3> HIDE DEF Before
    <3>. QED BY <3>1, ToProcessForChain, FS_Subset
  <2>3. Cardinality(Before(f)) < Limit
    BY DEF Taken
  <2>4. Cardinality(Before(e)) < Limit
    <3> HIDE DEF Before
    <3>. QED BY <2>1, <2>2, <2>3, FS_Subset, FS_CardinalityType, SyncAssumption
  <2>. QED BY <1>3, <2>4 DEF Taken
<1>4. CASE e \notin ToProcess
  <2>1. e.at \in DOMAIN attempts
    BY <1>1 DEF ForChain, SyncInv, ServiceInv, CountInv, AttemptRows
  <2>2. ~IsBlocked(e.cert)
    BY <1>1 DEF ToProcess
  <2>3. ~Unanswered(e)
    BY <1>2, <1>4, <2>1, <2>2 DEF ToProcess
  <2>4. attempts[e.at].count < MaxAttempts
    <3>1. ~(attempts[e.at].count >= MaxAttempts)
      BY <1>2, <2>1, <2>2 DEF IsBlocked, LogOf
    <3>2. attempts[e.at].count \in Nat
      BY <2>1 DEF SyncInv, ServiceInv, TypeOK
    <3>. QED BY <3>1, <3>2, OffChainAssumption
  <2>5. attempts[e.at].count > 0 /\ ~attempts[e.at].failed
    <3>1. attempts[e.at].count \in Nat /\ attempts[e.at].failed \in BOOLEAN
      BY <2>1 DEF SyncInv, ServiceInv, TypeOK
    <3>2. attempts[e.at].count # 0 /\ ~attempts[e.at].failed
      BY <2>3, <2>4 DEF Unanswered
    <3>. QED BY <3>1, <3>2
  <2>. QED BY <2>1, <2>5 DEF SyncInv, CountedAnswered, Persisted, Reports
<1>. QED BY <1>3, <1>4

\* A run takes the events to process.
LEMMA FindMoves ==
  ASSUME SyncInv, NEW j \in Jobs, Find(j)
  PROVE  RunMoves(j)
<1> DEFINE run == [jobs[j] EXCEPT !.queue = Taken]
<1>1. /\ jobs[j] \in Run /\ jobs[j].batch = {} /\ jobs[j].todo = {} /\ jobs[j].block = {}
  BY StoredTyped DEF Find, RunOK
<1>2. Taken \subseteq ForChain /\ ForChain \subseteq Event
  BY ToProcessForChain, StoredTyped DEF Taken
<1>3. /\ run \in Run /\ run.queue = Taken /\ run.batch = {} /\ run.todo = {} /\ run.block = {}
  BY <1>1, <1>2 DEF Run
<1>4. jobs' = [jobs EXCEPT ![j] = Continue(run)] /\ UNCHANGED <<vars, chain>>
  BY DEF Find, SyncInv, SyncTypeOK
<1> HIDE DEF run
<1>5. Active(run) = {}
  BY <1>3 DEF Active
<1>6. RunInOrder(run)
  BY <1>3, <1>5, TakenInOrder DEF RunInOrder
<1>7. /\ Continue(run) \in Run /\ Continue(run).phase \in {"send", "select", "find"}
      /\ RunOK(Continue(run)) /\ RunInOrder(Continue(run))
  BY <1>2, <1>3, <1>5, <1>6, ContinueOK DEF SyncInv
<1>. QED BY <1>4, <1>7 DEF RunMoves

\* When an event of a certificate is active that is not its issuance, the
\* certificate has a blockchain id.
LEMMA IdsKnown ==
  ASSUME SyncInv, NEW run, RunOK(run), RunInOrder(run), NEW e \in Active(run), e.type # "Issued"
  PROVE  HasBlockchainId(e.cert)
<1>1. e \in ForChain /\ e \in log /\ e.at \in Nat
  BY StoredTyped DEF RunOK
<1>2. PICK i \in log : i.cert = e.cert /\ i.type = "Issued" /\ i.at <= e.at
  BY <1>1 DEF SyncInv, ServiceInv, IssuanceFirst, LogOf
<1>3. i.at < e.at /\ i.at \in Nat
  <2>1. i.at # e.at
    BY <1>1, <1>2 DEF SyncInv, TimesUnique
  <2>. QED BY <1>1, <1>2, <2>1, StoredTyped
<1>4. i \in Earlier(e)
  BY <1>2, <1>3 DEF Earlier, ForChain, Synchronizable
<1>5. PICK f \in Reports(i) : f.type # "PersistError"
  BY <1>4 DEF RunInOrder, Persisted
<1>6. /\ f \in log /\ f.type \notin Synchronizable /\ f.payload.persistedEventId = i.at
      /\ f \in Event
  BY <1>5, StoredTyped DEF Reports
<1>7. f \in Answers(i.at)
  BY <1>5, <1>6 DEF Answers, Event, EventTypes
<1>8. PICK d \in ForChain : IsAnswerTo(f, d)
  BY <1>3, <1>7 DEF SyncInv, AnswersOK
<1>9. d = i
  BY <1>2, <1>6, <1>8, StoredTyped DEF IsAnswerTo, SyncInv, TimesUnique
<1>10. f.type = "IssuancePersisted" /\ f.cert = e.cert
  BY <1>2, <1>8, <1>9 DEF IsAnswerTo, PersistedType
<1>. QED BY <1>6, <1>10 DEF HasBlockchainId, LogOf

\* A run sends the events of the next type to their handler.
LEMMA SelectMoves ==
  ASSUME SyncInv, NEW j \in Jobs, Select(j)
  PROVE  RunMoves(j)
<1> DEFINE old  == jobs[j]
           type == NextType(old.batch)
           same == {e \in old.batch : e.type = type}
           todo == {e \in same : type = "Issued" \/ HasBlockchainId(e.cert)}
           batch == old.batch \ same
           run  == [old EXCEPT !.batch = batch, !.todo = todo]
<1>1. old \in Run /\ RunOK(old) /\ old.todo = {} /\ old.block = {}
  BY StoredTyped DEF Select, RunOK
<1>2. jobs' = [jobs EXCEPT ![j] = Continue(run)] /\ UNCHANGED <<vars, chain>>
  BY DEF Select
<1>3. batch \subseteq old.batch /\ todo \subseteq old.batch /\ old.batch \subseteq Event
  BY <1>1 DEF Run
<1>4. RunInOrder(old) => batch \cup todo = old.batch
  BY <1>1, IdsKnown DEF Active
<1> HIDE DEF todo, batch
<1>5. /\ run \in Run /\ run.queue = old.queue /\ run.batch = batch /\ run.todo = todo
      /\ run.block = {}
  BY <1>1, <1>3 DEF Run
<1> HIDE DEF run, old
<1>6. Active(run) \subseteq Active(old) /\ (RunInOrder(old) => Active(run) = Active(old))
  BY <1>1, <1>3, <1>4, <1>5 DEF Active
<1>7. RunInOrder(old) => RunInOrder(run)
  BY <1>5, <1>6 DEF RunInOrder
<1>8. /\ run.queue \cup Active(run) \subseteq ForChain
      /\ \A e, f \in Active(run) : e.cert = f.cert => e = f
  BY <1>1, <1>5, <1>6 DEF RunOK
<1>9. /\ Continue(run) \in Run /\ Continue(run).phase \in {"send", "select", "find"}
      /\ RunOK(Continue(run)) /\ (RunInOrder(run) => RunInOrder(Continue(run)))
  BY <1>5, <1>8, ContinueOK DEF SyncInv
<1>10. InOrder => RunInOrder(old)
  BY DEF InOrder, old
<1>. QED BY <1>2, <1>7, <1>9, <1>10 DEF RunMoves

\* A run leaves the block it sent: all its events are persisted, or their
\* certificates leave the queue.
LEMMA BlockMoves ==
  ASSUME SyncInv, NEW j \in Jobs, BlockAnswered(j) \/ BlockFailed(j)
  PROVE  RunMoves(j)
<1> DEFINE old == jobs[j]
<1>1. old \in Run /\ RunOK(old)
  BY StoredTyped
<1>2. ASSUME NEW run \in Run, run.queue \subseteq old.queue, run.batch = old.batch,
             run.todo = old.todo, run.block = {},
             jobs' = [jobs EXCEPT ![j] = Continue(run)], UNCHANGED <<vars, chain>>,
             \A f \in run.queue : \A e \in Earlier(f) :
               e \in old.queue \cup old.block => Persisted(e) \/ e \in run.queue
      PROVE  RunMoves(j)
  <2>1. Active(run) \subseteq Active(old) /\ Active(old) = Active(run) \cup old.block
    BY <1>2 DEF Active
  <2> HIDE DEF old
  <2>2. RunInOrder(old) => RunInOrder(run)
    BY <1>2, <2>1 DEF RunInOrder
  <2>3. /\ run.queue \cup Active(run) \subseteq ForChain
        /\ \A e, f \in Active(run) : e.cert = f.cert => e = f
    BY <1>1, <1>2, <2>1 DEF RunOK
  <2>4. /\ Continue(run) \in Run /\ Continue(run).phase \in {"send", "select", "find"}
        /\ RunOK(Continue(run)) /\ (RunInOrder(run) => RunInOrder(Continue(run)))
    BY <1>2, <2>3, ContinueOK DEF SyncInv
  <2>5. InOrder => RunInOrder(old)
    BY DEF InOrder, old
  <2>. QED BY <1>2, <2>2, <2>4, <2>5 DEF RunMoves
<1>3. CASE BlockAnswered(j)
  <2> DEFINE run == [old EXCEPT !.block = {}]
  <2>1. jobs' = [jobs EXCEPT ![j] = Continue(run)] /\ UNCHANGED <<vars, chain>>
    BY <1>3 DEF BlockAnswered, SyncInv, SyncTypeOK
  <2>2. /\ run \in Run /\ run.queue = old.queue /\ run.batch = old.batch
        /\ run.todo = old.todo /\ run.block = {}
    BY <1>1 DEF Run
  <2>3. ASSUME NEW e \in old.block PROVE Persisted(e)
    BY <1>3 DEF BlockAnswered, SyncInv, BlockAwaited, LanesOf
  <2> HIDE DEF run
  <2>. QED BY <1>2, <2>1, <2>2, <2>3
<1>4. CASE BlockFailed(j)
  <2> DEFINE certs == {e.cert : e \in old.block}
             queue == {e \in old.queue : e.cert \notin certs}
             run == [old EXCEPT !.block = {}, !.queue = queue]
  <2>1. jobs' = [jobs EXCEPT ![j] = Continue(run)] /\ UNCHANGED <<vars, chain>>
    BY <1>4 DEF BlockFailed
  <2>2. queue \subseteq old.queue /\ old.queue \subseteq Event
    BY <1>1 DEF Run
  <2>3. ASSUME NEW f \in queue, NEW e \in Earlier(f), e \in old.queue \cup old.block
        PROVE  e \in queue
    BY <2>3 DEF Earlier
  <2> HIDE DEF queue
  <2>4. /\ run \in Run /\ run.queue = queue /\ run.batch = old.batch
        /\ run.todo = old.todo /\ run.block = {}
    BY <1>1, <2>2 DEF Run
  <2> HIDE DEF run
  <2>. QED BY <1>2, <2>1, <2>2, <2>3, <2>4
<1>. QED BY <1>3, <1>4

\* Such a step keeps everything that is known of the system.
LEMMA RunMovesKeep ==
  ASSUME SyncInv, NEW j \in Jobs, RunMoves(j)
  PROVE  SyncInv' /\ (InOrder => InOrder')
<1>1. PICK run \in Run : /\ jobs' = [jobs EXCEPT ![j] = run]
                         /\ run.phase # "answers" /\ RunOK(run)
                         /\ InOrder => RunInOrder(run)
  BY DEF RunMoves
<1>2. UNCHANGED <<vars, chain>>
  BY DEF RunMoves
<1>3. UNCHANGED <<commands, lastId, clock, log, attempts, rows, calls, failures>>
  BY <1>2 DEF vars, tables
<1>4. [Next]_vars
  BY <1>2
<1>5. ServiceInv'
  BY <1>4, NextTyped, NextRead, NextIssues, NextCounts DEF SyncInv, ServiceInv
<1>6. SyncTypeOK'
  BY <1>1, <1>2, <1>5 DEF SyncInv, SyncTypeOK, ServiceInv
<1>7. \A i \in Jobs : jobs'[i] = IF i = j THEN run ELSE jobs[i]
  BY <1>1 DEF SyncInv, SyncTypeOK
<1>8. ASSUME NEW i \in Jobs PROVE RunOK(jobs'[i])
  BY <1>1, <1>7 DEF SyncInv, RunsOK
<1>9. RunsOK'
  BY <1>3, <1>8 DEF RunsOK, RunOK, ForChain, Active
<1>10. TimesUnique' /\ RolesOK'
  BY <1>3 DEF SyncInv, TimesUnique, RolesOK
<1>11. AnswersOK' /\ CountedAnswered'
  <2>1. \A t : Answers(t)' = Answers(t)
    BY <1>3 DEF Answers, Pending
  <2>. QED BY <1>2, <1>3, <2>1 DEF SyncInv, AnswersOK, CountedAnswered, ForChain, IsAnswerTo
<1>12. BlockAwaited'
  BY <1>1, <1>3, <1>7 DEF SyncInv, BlockAwaited, Persisted, Reports
<1>13. ASSUME InOrder PROVE InOrder'
  <2>1. ASSUME NEW i \in Jobs PROVE RunInOrder(jobs'[i])
    BY <1>1, <1>7, <1>13 DEF InOrder
  <2>. QED BY <1>3, <2>1 DEF InOrder, RunInOrder, Active, Earlier, ForChain, Persisted, Reports
<1>. QED BY <1>5, <1>6, <1>9, <1>10, <1>11, <1>12, <1>13 DEF SyncInv

-----------------------------------------------------------------------------
(* What the chain says of a block *)

\* A run begins to report on its block, which the chain has executed unless
\* it is reported as failed.
Reporting(j, block, kind) ==
  /\ BeginReports(j, block, kind)
  /\ block \subseteq Active(jobs[j])
  /\ failures' \in 0..MaxFailures
  /\ Execute(block) \/ (kind = "error" /\ chain' = chain)
  /\ \E run \in Run :
       /\ jobs' = [jobs EXCEPT ![j] = run]
       /\ run.phase = IF kind = "answer" THEN "answers" ELSE "errors"
       /\ run.queue = jobs[j].queue /\ Active(run) = Active(jobs[j]) /\ run.block = block

\* The steps of a run that report.
LEMMA ReportingSteps ==
  ASSUME SyncInv, NEW j \in Jobs, ChainAccepts(j) \/ ChainRejects(j) \/ Catch(j)
  PROVE  \E block \in SUBSET ForChain, kind \in {"answer", "error"} : Reporting(j, block, kind)
<1> DEFINE old == jobs[j]
<1>1. /\ old \in Run /\ RunOK(old) /\ Active(old) \subseteq ForChain
      /\ failures \in 0..MaxFailures /\ jobs \in [Jobs -> Run]
  BY StoredTyped DEF RunOK, SyncInv, ServiceInv, TypeOK, SyncTypeOK
<1>2. ASSUME old.phase = "send", NEW phase \in {"answers", "errors"}, jobs' = Sent(j, phase)
      PROVE  /\ FirstBlock(old.todo) \subseteq Active(old)
             /\ \E run \in Run :
                  /\ jobs' = [jobs EXCEPT ![j] = run] /\ run.phase = phase
                  /\ run.queue = old.queue /\ Active(run) = Active(old)
                  /\ run.block = FirstBlock(old.todo)
  <2> DEFINE block == FirstBlock(old.todo)
             todo  == old.todo \ block
             run   == [old EXCEPT !.phase = phase, !.block = block, !.todo = todo]
  <2>1. jobs' = [jobs EXCEPT ![j] = run]
    BY <1>2 DEF Sent
  <2>2. block \subseteq old.todo /\ old.todo \subseteq Event /\ old.block = {}
    BY <1>1, <1>2 DEF FirstBlock, RunOK, Run
  <2>3. todo \subseteq Event /\ todo \cup block = old.todo
    BY <2>2
  <2> HIDE DEF block, todo
  <2>4. /\ run \in Run /\ run.phase = phase /\ run.queue = old.queue /\ run.batch = old.batch
        /\ run.todo = todo /\ run.block = block
    BY <1>1, <2>2, <2>3 DEF Run
  <2> HIDE DEF run
  <2>5. Active(run) = Active(old)
    BY <2>2, <2>3, <2>4 DEF Active
  <2>. QED BY <2>1, <2>2, <2>4, <2>5 DEF block, Active
<1>3. CASE ChainAccepts(j)
  <2>1. /\ old.phase = "send" /\ jobs' = Sent(j, "answers") /\ failures' = failures
        /\ BeginReports(j, FirstBlock(old.todo), "answer") /\ Execute(FirstBlock(old.todo))
    BY <1>3 DEF ChainAccepts
  <2> HIDE DEF old
  <2>2. Reporting(j, FirstBlock(old.todo), "answer")
    BY <1>1, <1>2, <2>1 DEF Reporting, old
  <2>. QED BY <1>1, <1>2, <2>1, <2>2
<1>4. CASE ChainRejects(j)
  <2>1. /\ old.phase = "send" /\ jobs' = Sent(j, "errors")
        /\ failures' = failures + 1 /\ failures < MaxFailures
        /\ BeginReports(j, FirstBlock(old.todo), "error")
        /\ Execute(FirstBlock(old.todo)) \/ chain' = chain
    BY <1>4 DEF ChainRejects
  <2>2. failures' \in 0..MaxFailures
    BY <1>1, <2>1, OffChainAssumption
  <2> HIDE DEF old
  <2>3. Reporting(j, FirstBlock(old.todo), "error")
    BY <1>1, <1>2, <2>1, <2>2 DEF Reporting, old
  <2>. QED BY <1>1, <1>2, <2>1, <2>3
<1>5. CASE Catch(j)
  <2> DEFINE run == [old EXCEPT !.phase = "errors"]
  <2>1. /\ jobs' = [jobs EXCEPT ![j] = run] /\ failures' = failures /\ chain' = chain
        /\ BeginReports(j, old.block, "error")
    BY <1>1, <1>5 DEF Catch
  <2>2. /\ run \in Run /\ run.phase = "errors" /\ run.queue = old.queue
        /\ run.batch = old.batch /\ run.todo = old.todo /\ run.block = old.block
    BY <1>1 DEF Run
  <2> HIDE DEF run, old
  <2>3. Active(run) = Active(old) /\ old.block \subseteq Active(old)
    BY <2>2 DEF Active
  <2>4. Reporting(j, old.block, "error")
    BY <1>1, <2>1, <2>2, <2>3 DEF Reporting, old
  <2>. QED BY <1>1, <2>3, <2>4
<1>. QED BY <1>3, <1>4, <1>5

\* How often the chain has executed what has the time t.
Count(t) == IF t \in DOMAIN chain THEN chain[t] ELSE 0

\* The chain executes the events of the block once more, and no others.
LEMMA Counts ==
  ASSUME SyncInv, NEW block \in SUBSET ForChain, Execute(block) \/ chain' = chain
  PROVE  /\ \A t : Count(t) \in Nat
         /\ \A t : (\E e \in block : e.at = t) /\ Execute(block) => Count(t)' = Count(t) + 1
         /\ \A t : Count(t)' = Count(t) \/ (Count(t)' = Count(t) + 1 /\ \E e \in block : e.at = t)
         /\ DOMAIN chain' \subseteq Nat /\ chain' \in [DOMAIN chain' -> Nat]
         /\ \A t \in DOMAIN chain' : chain'[t] >= 1 /\ \E e \in ForChain : e.at = t
<1>1. /\ DOMAIN chain \subseteq Nat /\ chain \in [DOMAIN chain -> Nat]
      /\ \A t \in DOMAIN chain : chain[t] >= 1 /\ \E e \in ForChain : e.at = t
  BY DEF SyncInv, SyncTypeOK, AnswersOK
<1>2. CASE chain' = chain /\ ~Execute(block)
  BY <1>1, <1>2 DEF Count
<1>3. CASE Execute(block)
  <2> DEFINE ids == {e.at : e \in block}
  <2>1. chain' = [t \in DOMAIN chain \cup ids |->
                    (IF t \in DOMAIN chain THEN chain[t] ELSE 0) + (IF t \in ids THEN 1 ELSE 0)]
    BY <1>3 DEF Execute
  <2>2. ids \subseteq Nat /\ \A t \in ids : \E e \in ForChain : e.at = t
    BY StoredTyped
  <2>3. \A t : t \in ids <=> \E e \in block : e.at = t
    OBVIOUS
  <2> HIDE DEF ids
  <2>4. \A t \in DOMAIN chain \cup ids : chain'[t] = Count(t) + (IF t \in ids THEN 1 ELSE 0)
    BY <2>1 DEF Count
  <2>5. \A t : Count(t) \in Nat
    BY <1>1 DEF Count
  <2>6. DOMAIN chain' = DOMAIN chain \cup ids
    BY <2>1
  <2>7. \A t : Count(t)' = Count(t) + (IF t \in ids THEN 1 ELSE 0)
    BY <2>4, <2>5, <2>6 DEF Count
  <2>8. \A t \in DOMAIN chain' : chain'[t] \in Nat /\ chain'[t] >= 1
    BY <1>1, <2>4, <2>5, <2>6 DEF Count
  <2>9. chain' \in [DOMAIN chain' -> Nat]
    BY <2>1, <2>6, <2>8
  <2>. QED BY <1>1, <1>3, <2>2, <2>3, <2>5, <2>6, <2>7, <2>8, <2>9
<1>. QED BY <1>2, <1>3

\* Every answer is preceded by an execution of its own.
LEMMA ReportingAnswers ==
  ASSUME SyncInv, NEW j \in Jobs, NEW block \in SUBSET ForChain,
         NEW kind \in {"answer", "error"}, Reporting(j, block, kind)
  PROVE  AnswersOK'
<1>1. /\ Replaced
      /\ \A l \in LanesOf(j, block, kind) : \E e \in block :
           /\ calls'[l].events = {ReportOn(block, e, kind)}
           /\ ReportOn(block, e, kind) \in Event
      /\ \A p \in Processes : p \notin LanesOf(j, block, kind) => calls'[p] = calls[p]
  BY ReportsBegin DEF Reporting, SyncInv
<1>2. log' = log /\ ForChain' = ForChain
  BY <1>1 DEF Replaced, ForChain
<1>3. /\ \A t : Count(t) \in Nat
      /\ \A t : (\E e \in block : e.at = t) /\ Execute(block) => Count(t)' = Count(t) + 1
      /\ \A t : Count(t)' = Count(t) \/ (Count(t)' = Count(t) + 1 /\ \E e \in block : e.at = t)
      /\ \A t \in DOMAIN chain' : chain'[t] >= 1 /\ \E e \in ForChain : e.at = t
  BY Counts DEF Reporting
<1>4. ASSUME NEW t \in Nat, NEW g \in Answers(t)', g \notin Answers(t)
      PROVE  \E e \in block : /\ e.at = t /\ kind = "answer"
                              /\ g = ReportOn(block, e, "answer") /\ IsAnswerTo(g, e)
  <2>1. g \in Event /\ g.type \in Acknowledgements /\ g.payload.persistedEventId = t /\ g \notin log
    BY <1>2, <1>4 DEF Answers
  <2>2. PICK p \in Processes : Pending(p)' /\ g \in calls'[p].events
    BY <1>2, <1>4, <2>1 DEF Answers
  <2>3. p \in LanesOf(j, block, kind)
    BY <1>1, <1>4, <2>1, <2>2 DEF Answers, Pending
  <2>4. PICK e \in block : g = ReportOn(block, e, kind)
    BY <1>1, <2>2, <2>3
  <2>5. kind = "answer"
    BY <2>1, <2>4 DEF ReportOn, Acknowledgements, PersistedType, Synchronizable
  <2>6. /\ g.type = PersistedType[e.type] /\ g.cert = e.cert /\ g.payload.persistedEventId = e.at
    BY <2>4, <2>5 DEF ReportOn
  <2>. QED BY <2>1, <2>4, <2>5, <2>6 DEF IsAnswerTo
<1>5. ASSUME NEW t \in Nat
      PROVE  /\ IsFiniteSet(Answers(t)') /\ Cardinality(Answers(t)') <= Count(t)'
             /\ \A g \in Answers(t)' : \E e \in ForChain : IsAnswerTo(g, e)
  <2> DEFINE A == Answers(t)
             B == Answers(t)'
  <2>1. IsFiniteSet(A) /\ Cardinality(A) <= Count(t) /\ \A g \in A : \E e \in ForChain : IsAnswerTo(g, e)
    BY DEF SyncInv, AnswersOK, Count
  <2>2. \A g \in B : \E e \in ForChain : IsAnswerTo(g, e)
    BY <1>4, <2>1
  <2>3. CASE B \subseteq A
    <3> HIDE DEF A, B
    <3>1. IsFiniteSet(B) /\ Cardinality(B) <= Cardinality(A)
      BY <2>1, <2>3, FS_Subset
    <3>2. Cardinality(A) \in Nat /\ Cardinality(B) \in Nat
      BY <2>1, <3>1, FS_CardinalityType
    <3>3. Count(t) \in Nat /\ (Count(t)' = Count(t) \/ Count(t)' = Count(t) + 1)
      BY <1>3
    <3>4. Cardinality(B) <= Count(t)'
      BY <2>1, <3>1, <3>2, <3>3
    <3>. QED BY <2>2, <3>1, <3>4 DEF A, B
  <2>4. CASE ~(B \subseteq A)
    <3>1. PICK e \in block : e.at = t /\ kind = "answer"
      BY <1>4, <2>4
    <3>2. Count(t)' = Count(t) + 1
      BY <1>3, <3>1 DEF Reporting
    <3>3. B \subseteq A \cup {ReportOn(block, e, "answer")}
      <4>1. ASSUME NEW g \in B, g \notin A
            PROVE  g = ReportOn(block, e, "answer")
        <5>1. PICK d \in block : d.at = t /\ g = ReportOn(block, d, "answer")
          BY <1>4, <4>1
        <5>2. d = e
          BY <3>1, <5>1 DEF SyncInv, TimesUnique, ForChain
        <5>. QED BY <5>1, <5>2
      <4>. QED BY <4>1
    <3> DEFINE x == ReportOn(block, e, "answer")
    <3> HIDE DEF A, B, x
    <3>4. /\ IsFiniteSet(A \cup {x})
          /\ Cardinality(A \cup {x}) <= Cardinality(A) + 1
      <4> DEFINE n == Cardinality(A)
                 m == Cardinality(A \cup {x})
      <4>1. n \in Nat
        BY <2>1, FS_CardinalityType
      <4>2. IsFiniteSet(A \cup {x}) /\ m = IF x \in A THEN n ELSE n + 1
        BY <2>1, FS_AddElement, ZenonT(20)
      <4> HIDE DEF n, m
      <4>3. m <= n + 1
        BY <4>1, <4>2
      <4>. QED BY <4>2, <4>3 DEF n, m
    <3>5. IsFiniteSet(B) /\ Cardinality(B) <= Cardinality(A \cup {x})
      BY <3>3, <3>4, FS_Subset DEF x
    <3>6. Cardinality(A) \in Nat /\ Cardinality(B) \in Nat /\ Cardinality(A \cup {x}) \in Nat
      BY <2>1, <3>4, <3>5, FS_CardinalityType
    <3>7. Count(t) \in Nat
      BY <1>3
    <3>8. Cardinality(B) <= Count(t)'
      BY <2>1, <3>2, <3>4, <3>5, <3>6, <3>7
    <3>. QED BY <2>2, <3>5, <3>8 DEF A, B
  <2>. QED BY <2>3, <2>4
<1>. QED BY <1>2, <1>3, <1>5 DEF AnswersOK, Count, IsAnswerTo

\* While the reports begin, all that is known of the system is kept.
LEMMA ReportingKeeps ==
  ASSUME SyncInv, NEW j \in Jobs, NEW block \in SUBSET ForChain,
         NEW kind \in {"answer", "error"}, Reporting(j, block, kind)
  PROVE  SyncInv' /\ (InOrder => InOrder')
<1>1. /\ Replaced
      /\ \A l \in LanesOf(j, block, kind) : \E e \in block :
           /\ l = <<j, e.cert, kind>>
           /\ calls'[l].events = {ReportOn(block, e, kind)} /\ calls'[l].phase = "read"
           /\ ReportOn(block, e, kind) \in Event
      /\ \A p \in Processes : p \notin LanesOf(j, block, kind) => calls'[p] = calls[p]
  BY ReportsBegin DEF Reporting, SyncInv
<1>2. PICK run \in Run :
        /\ jobs' = [jobs EXCEPT ![j] = run]
        /\ run.phase = IF kind = "answer" THEN "answers" ELSE "errors"
        /\ run.queue = jobs[j].queue /\ Active(run) = Active(jobs[j]) /\ run.block = block
  BY DEF Reporting
<1>3. log' = log /\ attempts' = attempts /\ ForChain' = ForChain
  BY <1>1 DEF Replaced, ForChain
<1>4. ServiceInv'
  BY <1>1, ReplacedKeepsService DEF SyncInv
<1>5. SyncTypeOK'
  <2>1. DOMAIN chain' \subseteq Nat /\ chain' \in [DOMAIN chain' -> Nat]
    BY Counts DEF Reporting
  <2>. QED BY <1>2, <1>4, <2>1 DEF SyncInv, SyncTypeOK, ServiceInv
<1>6. \A i \in Jobs : jobs'[i] = IF i = j THEN run ELSE jobs[i]
  BY <1>2 DEF SyncInv, SyncTypeOK
<1>7. RunsOK'
  <2>1. RunOK(run)
    BY <1>2, StoredTyped DEF RunOK
  <2>2. \A i \in Jobs : RunOK(jobs'[i])
    BY <1>6, <2>1 DEF SyncInv, RunsOK
  <2>. QED BY <1>3, <2>2 DEF RunsOK, RunOK, Active
<1>8. LanesOf(j, block, kind) \subseteq Lanes
  BY StoredTyped DEF LanesOf, Lanes
<1>9. TimesUnique'
  <2>1. ASSUME NEW p \in Processes, NEW e \in calls'[p].events, NEW f \in calls'[p].events,
               e.at = f.at
        PROVE  e = f
    <3>1. CASE p \in LanesOf(j, block, kind)
      BY <1>1, <2>1, <3>1
    <3>2. CASE p \notin LanesOf(j, block, kind)
      BY <1>1, <2>1, <3>2 DEF SyncInv, TimesUnique
    <3>. QED BY <3>1, <3>2
  <2>. QED BY <1>3, <2>1 DEF SyncInv, TimesUnique
<1>10. RolesOK'
  <2>1. ASSUME NEW u \in Users PROVE calls'[u] = calls[u]
    BY <1>1, <1>8, Roles
  <2>2. ASSUME NEW l \in Lanes
        PROVE  /\ \A g \in calls'[l].events : g.type \notin Synchronizable
               /\ calls'[l].phase # "validate"
    <3>1. CASE l \in LanesOf(j, block, kind)
      <4>1. PICK e \in block : /\ calls'[l].events = {ReportOn(block, e, kind)}
                               /\ calls'[l].phase = "read"
        BY <1>1, <3>1
      <4>2. ReportOn(block, e, kind).type \notin Synchronizable
        BY DEF ReportOn, ForChain, PersistedType, Synchronizable
      <4>. QED BY <4>1, <4>2
    <3>2. CASE l \notin LanesOf(j, block, kind)
      BY <1>1, <3>2, Roles DEF SyncInv, RolesOK
    <3>. QED BY <3>1, <3>2
  <2>. QED BY <2>1, <2>2 DEF SyncInv, RolesOK
<1>11. CountedAnswered'
  BY <1>3 DEF SyncInv, CountedAnswered
<1>12. BlockAwaited'
  <2> SUFFICES ASSUME NEW i \in Jobs, jobs'[i].phase = "answers", NEW e \in jobs'[i].block,
                      ~Persisted(e)'
               PROVE  LET l == <<i, e.cert, "answer">>
                      IN  /\ calls'[l].phase \in {"read", "store", "threw"}
                          /\ \E g \in calls'[l].events : IsAnswerTo(g, e)
    BY DEF BlockAwaited
  <2> DEFINE l == <<i, e.cert, "answer">>
  <2>1. ~Persisted(e)
    BY <1>3 DEF Persisted, Reports
  <2>2. CASE i = j
    <3>1. kind = "answer" /\ e \in block
      BY <1>2, <1>6, <2>2
    <3>2. l \in LanesOf(j, block, kind)
      BY <2>2, <3>1 DEF LanesOf
    <3>3. PICK d \in block : /\ l = <<j, d.cert, kind>>
                             /\ calls'[l].events = {ReportOn(block, d, kind)}
                             /\ calls'[l].phase = "read"
      BY <1>1, <3>2
    <3>4. d = e
      <4>1. d.cert = e.cert /\ d \in Active(jobs[j]) /\ e \in Active(jobs[j])
        BY <3>1, <3>3 DEF Reporting
      <4>. QED BY <4>1, StoredTyped DEF RunOK
    <3>5. IsAnswerTo(ReportOn(block, e, kind), e)
      BY <3>1 DEF IsAnswerTo, ReportOn
    <3> HIDE DEF l
    <3>6. calls'[l].phase = "read" /\ \E g \in calls'[l].events : IsAnswerTo(g, e)
      BY <3>3, <3>4, <3>5
    <3>. QED BY <3>6 DEF l
  <2>3. CASE i # j
    <3>1. jobs'[i] = jobs[i]
      BY <1>6, <2>3
    <3>2. l \notin LanesOf(j, block, kind)
      BY <2>3 DEF LanesOf
    <3>3. l \in Processes
      <4>1. e \in ForChain
        BY <3>1, StoredTyped DEF RunOK, Active
      <4>. QED BY <4>1, StoredTyped, Roles DEF Lanes
    <3>. QED BY <1>1, <2>1, <3>1, <3>2, <3>3 DEF SyncInv, BlockAwaited
  <2>. QED BY <2>2, <2>3
<1>13. ASSUME InOrder PROVE InOrder'
  <2>1. RunInOrder(run)
    BY <1>2, <1>13 DEF InOrder, RunInOrder
  <2>2. \A i \in Jobs : RunInOrder(jobs'[i])
    BY <1>6, <1>13, <2>1 DEF InOrder
  <2>. QED BY <1>3, <2>2 DEF InOrder, RunInOrder, Active, Earlier, Persisted, Reports
<1>. QED BY <1>4, <1>5, <1>7, <1>9, <1>10, <1>11, <1>12, <1>13, ReportingAnswers DEF SyncInv

\* A process that dies leaves what is stored.
LEMMA CrashKeeps ==
  ASSUME SyncInv, NEW j \in Jobs, Crash(j)
  PROVE  SyncInv' /\ (InOrder => InOrder')
<1>1. Replaced
  BY CrashReplaces DEF SyncInv
<1>2. /\ jobs' = [jobs EXCEPT ![j] = Off] /\ chain' = chain
      /\ log' = log /\ attempts' = attempts /\ ForChain' = ForChain
      /\ calls' = [p \in Processes |-> IF p \in Lanes /\ p[1] = j THEN Idle ELSE calls[p]]
  BY DEF Crash, tables, ForChain
<1>3. \A p \in Processes : calls'[p] = calls[p] \/ calls'[p] = Idle
  BY <1>2
<1>4. ServiceInv'
  BY <1>1, ReplacedKeepsService DEF SyncInv
<1>5. /\ Off \in Run /\ Off.phase = "off" /\ Off.queue = {} /\ Off.block = {} /\ Active(Off) = {}
      /\ Off.batch = {} /\ Off.todo = {}
  BY DEF Off, Run, Active
<1>6. \A i \in Jobs : jobs'[i] = IF i = j THEN Off ELSE jobs[i]
  BY <1>2 DEF SyncInv, SyncTypeOK
<1>7. SyncTypeOK'
  BY <1>2, <1>4, <1>5 DEF SyncInv, SyncTypeOK, ServiceInv
<1>8. RunsOK'
  <2>1. \A i \in Jobs : RunOK(jobs'[i])
    BY <1>5, <1>6 DEF SyncInv, RunsOK, RunOK
  <2>. QED BY <1>2, <2>1 DEF RunsOK, RunOK, Active
<1>9. TimesUnique' /\ RolesOK'
  BY <1>2, <1>3, Roles DEF SyncInv, TimesUnique, RolesOK, Idle
<1>10. CountedAnswered'
  BY <1>2 DEF SyncInv, CountedAnswered
<1>11. AnswersOK'
  <2>1. ASSUME NEW t PROVE Answers(t)' \subseteq Answers(t)
    BY <1>2, <1>3 DEF Answers, Pending, Idle
  <2>2. ASSUME NEW t \in Nat
        PROVE  IsFiniteSet(Answers(t)') /\ Cardinality(Answers(t)') <= Count(t)
    <3> DEFINE A == Answers(t)
               B == Answers(t)'
    <3>1. B \subseteq A /\ IsFiniteSet(A) /\ Cardinality(A) <= Count(t) /\ Count(t) \in Nat
      BY <2>1 DEF SyncInv, AnswersOK, Count, SyncTypeOK
    <3> HIDE DEF A, B
    <3>2. IsFiniteSet(B) /\ Cardinality(B) <= Count(t)
      BY <3>1, FS_Subset, FS_CardinalityType
    <3>. QED BY <3>2 DEF B
  <2>. QED BY <1>2, <2>1, <2>2 DEF SyncInv, AnswersOK, IsAnswerTo, Count
<1>12. BlockAwaited'
  <2>1. ASSUME NEW i \in Jobs, jobs'[i].phase = "answers", NEW e \in jobs'[i].block
        PROVE  calls'[<<i, e.cert, "answer">>] = calls[<<i, e.cert, "answer">>] /\ jobs'[i] = jobs[i]
    <3>1. i # j /\ jobs'[i] = jobs[i]
      BY <1>5, <1>6, <2>1
    <3>2. <<i, e.cert, "answer">> \in Processes
      <4>1. e \in ForChain
        BY <2>1, <3>1, StoredTyped DEF RunOK, Active
      <4>. QED BY <4>1, StoredTyped, Roles DEF Lanes
    <3>. QED BY <1>2, <3>1, <3>2
  <2>. QED BY <1>2, <2>1 DEF SyncInv, BlockAwaited, Persisted, Reports
<1>13. ASSUME InOrder PROVE InOrder'
  <2>1. \A i \in Jobs : RunInOrder(jobs'[i])
    BY <1>5, <1>6, <1>13 DEF InOrder, RunInOrder
  <2>. QED BY <1>2, <2>1 DEF InOrder, RunInOrder, Active, Earlier, Persisted, Reports
<1>. QED BY <1>4, <1>7, <1>8, <1>9, <1>10, <1>11, <1>12, <1>13 DEF SyncInv

-----------------------------------------------------------------------------
(* The invariant is inductive *)

\* Nothing is stored, in progress or executed at the start.
LEMMA SyncStarts ==
  ASSUME SyncInit
  PROVE  SyncInv /\ InOrder /\ UserLatest /\ ChainOrder
<1>1. /\ log = {} /\ attempts = <<>> /\ chain = <<>> /\ jobs = [j \in Jobs |-> Off]
      /\ calls = [p \in Processes |-> Idle] /\ Init
  BY DEF SyncInit, Init
<1>2. DOMAIN attempts = {} /\ DOMAIN chain = {} /\ ForChain = {}
  BY <1>1 DEF ForChain
<1>3. \A p \in Processes : calls[p].events = {} /\ calls[p].phase = "idle"
  BY <1>1 DEF Idle
<1>4. ServiceInv
  <2>1. CountInv
    BY <1>1, <1>2, <1>3, FS_EmptySet DEF CountInv, TimesOK, Covered, AttemptRows
  <2>2. IssuancesOK /\ IssuanceFirst
    BY <1>1, <1>3 DEF Init, IssuancesOK, IssuanceFirst
  <2>. QED BY <1>1, <2>1, <2>2, InitTyped, InitRead DEF ServiceInv
<1>5. /\ Off \in Run /\ Off.phase = "off" /\ Off.queue = {} /\ Active(Off) = {}
      /\ Off.batch = {} /\ Off.todo = {} /\ Off.block = {}
  BY DEF Off, Run, Active
<1>6. SyncTypeOK
  BY <1>1, <1>2, <1>4, <1>5 DEF SyncTypeOK, ServiceInv
<1>7. \A j \in Jobs : jobs[j] = Off
  BY <1>1
<1>8. RunsOK /\ InOrder /\ BlockAwaited
  BY <1>5, <1>7 DEF RunsOK, RunOK, InOrder, RunInOrder, BlockAwaited
<1>9. TimesUnique /\ RolesOK /\ CountedAnswered /\ ChainOrder /\ UserLatest
  BY <1>1, <1>2, <1>3, Roles
     DEF TimesUnique, RolesOK, CountedAnswered, ChainOrder, UserLatest
<1>10. AnswersOK
  <2>1. \A t : Answers(t) = {}
    BY <1>1, <1>3 DEF Answers, Pending
  <2>2. IsFiniteSet({}) /\ Cardinality({}) = 0
    BY FS_EmptySet
  <2>3. \A t : IsFiniteSet(Answers(t)) /\ Cardinality(Answers(t)) = 0
    BY <2>1, <2>2
  <2>. QED BY <1>2, <2>1, <2>3 DEF AnswersOK
<1>. QED BY <1>4, <1>6, <1>8, <1>9, <1>10 DEF SyncInv

\* A step of the synchronization is one of these.
LEMMA SyncSteps ==
  ASSUME SyncInv, SyncNext
  PROVE  \/ \E j \in Jobs : RunMoves(j) \/ Crash(j)
         \/ \E j \in Jobs, block \in SUBSET ForChain, kind \in {"answer", "error"} :
              Reporting(j, block, kind)
         \/ \E p \in Processes : CallStep(p)
<1>1. CASE \E j \in Jobs : Start(j) \/ RunStep(j) \/ Crash(j)
  BY <1>1, OffMoves, FindMoves, SelectMoves, BlockMoves, ReportingSteps DEF RunStep
<1>2. CASE \E l \in Lanes : LaneStep(l)
  BY <1>2, Roles, CallStepsAre
<1>3. CASE \E p \in Users : UserStep(p)
  BY <1>3, Roles, CallStepsAre
<1>. QED BY <1>1, <1>2, <1>3 DEF SyncNext

\* What must hold of the state does not depend on anything else.
LEMMA SyncStutters ==
  ASSUME UNCHANGED allVars
  PROVE  /\ SyncInv => SyncInv'
         /\ InOrder => InOrder'
         /\ UserLatest => UserLatest'
         /\ ChainOrder => ChainOrder'
<1>1. UNCHANGED <<commands, lastId, clock, log, attempts, rows, calls, failures, jobs, chain>>
  BY DEF allVars, vars, syncVars
<1>2. (SyncInv' <=> SyncInv)
  BY <1>1 DEF SyncInv, ServiceInv, SyncTypeOK, RunsOK, TimesUnique, RolesOK, AnswersOK,
       CountedAnswered, BlockAwaited, TypeOK, CallsOK, ViewsOK, RowsReplay, IssuancesOK,
       IssuanceFirst, CountInv, TimesOK, Covered, AttemptRows, RunOK, Active, ForChain,
       Answers, Pending, Counting, Done, Persisted, Reports, LogOf, NewEventsOf, AllLoaded,
       Touched, IsReport
<1>3. (InOrder' <=> InOrder) /\ (UserLatest' <=> UserLatest) /\ (ChainOrder' <=> ChainOrder)
  BY <1>1 DEF InOrder, UserLatest, ChainOrder, RunInOrder, Active, Earlier, ForChain,
       Persisted, Reports, Executions
<1>. QED BY <1>2, <1>3

LEMMA SyncKeeps == SyncInv /\ [SyncNext]_allVars => SyncInv'
BY SyncSteps, SyncStutters, RunMovesKeep, ReportingKeeps, CrashKeeps, CallStepKeeps

-----------------------------------------------------------------------------
(* The order of the log, when calls on a certificate do not overlap *)

\* Runs are still in order when a call of a user or of a lane goes on: what
\* it stores for the chain is later than all that is stored of the same
\* certificate.
LEMMA CallStepOrder ==
  ASSUME SyncInv, InOrder, UserLatest, NoOverlap,
         NEW p \in Processes, CallStep(p)
  PROVE  InOrder' /\ UserLatest' /\ (ChainOrder => ChainOrder')
<1>1. /\ log \subseteq log'
      /\ \A g \in log' : g \in log \/ (Store(p) /\ g \in calls[p].events)
  BY CallStepResult
<1>2. ASSUME NEW g \in ForChain', g \notin ForChain
      PROVE  /\ p \in Users /\ Store(p) /\ g \in calls[p].events
             /\ \A e \in ForChain : e.cert = g.cert => e.at < g.at
  <2>1. Store(p) /\ g \in calls[p].events /\ g.type \in Synchronizable
    BY <1>1, <1>2 DEF ForChain
  <2>2. p \in Users
    BY <2>1, Roles DEF SyncInv, RolesOK
  <2>. QED BY <2>1, <2>2 DEF UserLatest
<1>3. \A e \in ForChain : e.at \in Nat
  BY StoredTyped
<1>4. \A e \in ForChain : Persisted(e) => Persisted(e)'
  BY <1>1 DEF Persisted, Reports
<1>5. InOrder'
  <2>1. ASSUME NEW f \in ForChain, NEW e \in Earlier(f)'
        PROVE  e \in Earlier(f)
    <3>1. e \in ForChain' /\ e.cert = f.cert /\ e.at < f.at
      BY <2>1 DEF Earlier
    <3>2. e \in ForChain
      <4>1. ASSUME e \notin ForChain PROVE FALSE
        <5>1. f.at < e.at /\ f.at \in Nat
          BY <1>2, <1>3, <3>1, <4>1
        <5>2. e.at \in Nat
          BY <1>2, <3>1, <4>1 DEF SyncInv, ServiceInv, TypeOK, Call, Event
        <5>. QED BY <3>1, <5>1, <5>2
      <4>. QED BY <4>1
    <3>. QED BY <3>1, <3>2 DEF Earlier
  <2>2. \A j \in Jobs : jobs'[j] = jobs[j] \/ jobs'[j] = Off
    BY DEF CallStep, SyncInv, SyncTypeOK
  <2>3. ASSUME NEW j \in Jobs
        PROVE  RunInOrder(jobs[j])'
    <3>1. CASE jobs'[j] = Off
      BY <3>1 DEF RunInOrder, Off, Active
    <3>2. CASE jobs'[j] = jobs[j]
      <4>1. jobs[j].queue \cup Active(jobs[j]) \subseteq ForChain
        BY StoredTyped DEF RunOK
      <4>2. RunInOrder(jobs[j])
        BY DEF InOrder
      <4>3. /\ \A f \in Active(jobs[j]) : \A e \in Earlier(f)' : Persisted(e)'
            /\ \A f \in jobs[j].queue : \A e \in Earlier(f)' :
                 Persisted(e)' \/ e \in jobs[j].queue \cup Active(jobs[j])
        <5>1. \A f \in ForChain : Earlier(f) \subseteq ForChain
          BY DEF Earlier
        <5>. QED BY <1>4, <2>1, <4>1, <4>2, <5>1 DEF RunInOrder
      <4>. QED BY <3>2, <4>3 DEF RunInOrder, Active
    <3>. QED BY <2>2, <3>1, <3>2
  <2>. QED BY <2>3 DEF InOrder
<1>6. UserLatest'
  <2> SUFFICES ASSUME NEW u \in Users, NEW g \in calls'[u].events, NEW e \in ForChain',
                      e.cert = g.cert
               PROVE  e.at < g.at
    BY DEF UserLatest
  <2>1. CASE u = p
    <3>1. CASE Store(p)
      <4>1. calls'[p] = Idle
        BY <2>1, <3>1 DEF Store, IsReport, SyncInv, RolesOK, ServiceInv, TypeOK
      <4>. QED BY <2>1, <4>1 DEF Idle
    <3>2. CASE ~Store(p)
      <4>1. e \in ForChain
        BY <1>2, <3>2
      <4>2. CASE g \in calls[p].events
        BY <2>1, <4>1, <4>2 DEF UserLatest
      <4>3. CASE clock < g.at
        <5>1. e.at <= clock /\ e.at \in Nat /\ clock \in Nat
          BY <4>1, StoredTyped DEF SyncInv, ServiceInv, CountInv, TimesOK, TypeOK
        <5>2. g.at \in Nat
          <6>1. SyncInv'
            BY CallStepKeeps
          <6>2. calls' \in [Processes -> Call]
            BY <6>1 DEF SyncInv, ServiceInv, TypeOK
          <6>. QED BY <2>1, <6>2 DEF Call, Event
        <5>. QED BY <4>3, <5>1, <5>2
      <4>. QED BY <2>1, <4>2, <4>3, CallStepResult
    <3>. QED BY <3>1, <3>2
  <2>2. CASE u # p
    <3>1. calls'[u] = calls[u]
      BY <2>2, Roles DEF CallStep, Others
    <3>2. e \in ForChain
      <4>1. ASSUME e \notin ForChain PROVE FALSE
        <5>1. p \in Users /\ e \in calls[p].events
          BY <1>2, <4>1
        <5>2. e.cert \in Touched(p) /\ e.cert \in Touched(u)
          BY <3>1, <5>1 DEF Touched
        <5>. QED BY <2>2, <5>1, <5>2 DEF NoOverlap
      <4>. QED BY <4>1
    <3>. QED BY <3>1, <3>2 DEF UserLatest
  <2>. QED BY <2>1, <2>2
<1>7. ASSUME ChainOrder PROVE ChainOrder'
  <2> SUFFICES ASSUME NEW e \in log', NEW f \in log',
                      {e.type, f.type} \subseteq Synchronizable,
                      e.cert = f.cert, e.at < f.at, Executions(f)' > 0
               PROVE  Executions(e)' > 0
    BY DEF ChainOrder
  <2>1. chain' = chain
    BY DEF CallStep
  <2>2. f.at \in DOMAIN chain
    BY <2>1 DEF Executions
  <2>3. PICK d \in ForChain : d.at = f.at
    BY <2>2 DEF SyncInv, AnswersOK
  <2>4. d = f
    <3>1. SyncInv' /\ d \in log'
      BY <1>1, CallStepKeeps DEF ForChain
    <3>. QED BY <2>3, <3>1 DEF SyncInv, TimesUnique
  <2>5. e \in ForChain
    <3>1. ASSUME e \notin ForChain PROVE FALSE
      <4>1. e \in ForChain'
        BY DEF ForChain
      <4>2. f.at < e.at /\ f.at \in Nat /\ e \in calls[p].events
        BY <1>2, <1>3, <2>3, <2>4, <3>1, <4>1
      <4>3. e.at \in Nat
        BY <4>2 DEF SyncInv, ServiceInv, TypeOK, Call, Event
      <4>. QED BY <4>2, <4>3
    <3>. QED BY <3>1
  <2>6. Executions(f) > 0
    BY <2>1 DEF Executions
  <2>7. Executions(e) > 0
    BY <1>7, <2>3, <2>4, <2>5, <2>6 DEF ChainOrder, ForChain
  <2>. QED BY <2>1, <2>7 DEF Executions
<1>. QED BY <1>5, <1>6, <1>7

\* A step that stores nothing and that no user takes leaves the users behind
\* the log.
LEMMA UsersUnmoved ==
  ASSUME UserLatest, log' = log, \A u \in Users : calls'[u] = calls[u]
  PROVE  UserLatest'
BY DEF UserLatest, ForChain

\* The chain executes an event when those before it are persisted, hence
\* executed.
LEMMA ReportingOrder ==
  ASSUME SyncInv, InOrder, UserLatest, ChainOrder, NEW j \in Jobs,
         NEW block \in SUBSET ForChain, NEW kind \in {"answer", "error"},
         Reporting(j, block, kind)
  PROVE  UserLatest' /\ ChainOrder'
<1>1. log' = log
  BY DEF Reporting, BeginReports, tables
<1>2. UserLatest'
  <2>1. \A u \in Users : u \in Processes /\ u \notin Lanes
    BY Roles
  <2>2. LanesOf(j, block, kind) \subseteq Lanes
    BY StoredTyped DEF LanesOf, Lanes
  <2>3. \A p \in Processes : p \notin LanesOf(j, block, kind) => calls'[p] = calls[p]
    BY ReportsBegin DEF Reporting, SyncInv
  <2>. QED BY <1>1, <2>1, <2>2, <2>3, UsersUnmoved
<1>3. \A e : Executions(e) = Count(e.at) /\ Executions(e)' = Count(e.at)'
  BY DEF Executions, Count
<1>4. /\ \A t : Count(t) \in Nat
      /\ \A t : Count(t)' = Count(t) \/ (Count(t)' = Count(t) + 1 /\ \E e \in block : e.at = t)
  BY Counts DEF Reporting
<1>5. ASSUME NEW e \in log, NEW f \in log, {e.type, f.type} \subseteq Synchronizable,
             e.cert = f.cert, e.at < f.at, Executions(f)' > 0
      PROVE  Executions(e)' > 0
  <2>1. CASE Executions(f) > 0
    <3>1. Executions(e) > 0
      BY <1>5, <2>1 DEF ChainOrder
    <3>2. Count(e.at) > 0 /\ Count(e.at)' >= Count(e.at)
      BY <1>3, <1>4, <3>1
    <3>. QED BY <1>3, <1>4, <3>2
  <2>2. CASE ~(Executions(f) > 0)
    <3>1. PICK d \in block : d.at = f.at
      BY <1>3, <1>4, <1>5, <2>2
    <3>2. d = f
      BY <3>1 DEF SyncInv, TimesUnique, ForChain
    <3>3. f \in Active(jobs[j])
      BY <3>1, <3>2 DEF Reporting
    <3>4. e \in Earlier(f)
      BY <1>5 DEF Earlier, ForChain
    <3>5. PICK g \in Reports(e) : g.type # "PersistError"
      BY <3>3, <3>4 DEF InOrder, RunInOrder, Persisted
    <3>6. g \in Answers(e.at) /\ e.at \in Nat
      BY <3>5, StoredTyped DEF Reports, Answers, Event, EventTypes
    <3>7. IsFiniteSet(Answers(e.at)) /\ Cardinality(Answers(e.at)) <= Count(e.at)
      BY <3>6 DEF SyncInv, AnswersOK, Count
    <3>8. Cardinality(Answers(e.at)) \in Nat /\ Cardinality(Answers(e.at)) # 0
      <4> DEFINE A == Answers(e.at)
      <4>1. IsFiniteSet(A) /\ A # {}
        BY <3>6, <3>7
      <4> HIDE DEF A
      <4>2. Cardinality(A) \in Nat /\ Cardinality(A) # 0
        BY <4>1, FS_CardinalityType, FS_EmptySet
      <4>. QED BY <4>2 DEF A
    <3>9. Count(e.at) > 0 /\ Count(e.at)' >= Count(e.at)
      BY <1>4, <3>7, <3>8
    <3>. QED BY <1>3, <1>4, <3>9
  <2>. QED BY <2>1, <2>2
<1>. QED BY <1>1, <1>2, <1>5 DEF ChainOrder

\* Every step keeps the order.
LEMMA OrderKeeps == OrderInv /\ NoOverlap /\ [SyncNext]_allVars => OrderInv'
<1> SUFFICES ASSUME OrderInv, NoOverlap, [SyncNext]_allVars PROVE OrderInv'
  OBVIOUS
<1> USE DEF OrderInv
<1>1. SyncInv'
  BY SyncKeeps
<1>2. CASE UNCHANGED allVars
  BY <1>1, <1>2, SyncStutters
<1>3. ASSUME NEW p \in Processes, CallStep(p)
      PROVE  InOrder' /\ UserLatest' /\ ChainOrder'
  BY <1>3, CallStepOrder
<1>4. ASSUME NEW j \in Jobs, RunMoves(j)
      PROVE  InOrder' /\ UserLatest' /\ ChainOrder'
  <2>1. log' = log /\ calls' = calls /\ chain' = chain
    BY <1>4 DEF RunMoves, vars
  <2>. QED BY <1>4, <2>1, RunMovesKeep, UsersUnmoved DEF ChainOrder, Executions
<1>5. ASSUME NEW j \in Jobs, Crash(j)
      PROVE  InOrder' /\ UserLatest' /\ ChainOrder'
  <2>1. /\ log' = log /\ chain' = chain
        /\ calls' = [p \in Processes |-> IF p \in Lanes /\ p[1] = j THEN Idle ELSE calls[p]]
    BY <1>5 DEF Crash, tables
  <2>2. \A u \in Users : calls'[u] = calls[u]
    BY <2>1, Roles
  <2>. QED BY <1>5, <2>1, <2>2, CrashKeeps, UsersUnmoved DEF ChainOrder, Executions
<1>6. ASSUME NEW j \in Jobs, NEW block \in SUBSET ForChain, NEW kind \in {"answer", "error"},
             Reporting(j, block, kind)
      PROVE  InOrder' /\ UserLatest' /\ ChainOrder'
  BY <1>6, ReportingKeeps, ReportingOrder
<1>. QED BY <1>1, <1>2, <1>3, <1>4, <1>5, <1>6, SyncSteps

-----------------------------------------------------------------------------
(* Theorems *)

\* The types of all variables hold in every behaviour of the
\* synchronization, whatever the jobs, the users and the bounds.
THEOREM SyncTypeCorrectness == SyncSpec => []SyncTypeOK
<1>1. SyncInit => SyncInv
  BY SyncStarts
<1>2. SyncInv => SyncTypeOK
  BY DEF SyncInv
<1>. QED BY <1>1, <1>2, SyncKeeps, PTL DEF SyncSpec

\* Composed with the jobs that call it, the service still writes only rows
\* that are the result of a replay.
THEOREM SyncRowsReplay == SyncSpec => []RowsReplay
<1>1. SyncInit => SyncInv
  BY SyncStarts
<1>2. SyncInv => RowsReplay
  BY DEF SyncInv, ServiceInv
<1>. QED BY <1>1, <1>2, SyncKeeps, PTL DEF SyncSpec

\* No attempt is counted without a report that is stored, however many jobs
\* report on the same event and wherever they fail
\* (CertificateEventPostgres.repository.ts:111-126).
THEOREM SyncCountsAreReports == SyncSpec => []CountsNeverExceedReports
<1>1. SyncInit => SyncInv
  BY SyncStarts
<1>2. SyncInv => CountsNeverExceedReports
  BY CountsCovered DEF SyncInv, ServiceInv
<1>. QED BY <1>1, <1>2, SyncKeeps, PTL DEF SyncSpec

\* Each report that an event is persisted stands for an execution of its own
\* by the chain: for any number of jobs and users, any blocks, and whatever
\* is retried, crashes or throws.
THEOREM AnswersAreExecutions == SyncSpec => []AnsweredMeansExecuted
<1>1. SyncInit => SyncInv
  BY SyncStarts
<1>2. SyncInv => AnsweredMeansExecuted
  <2> SUFFICES ASSUME SyncInv, NEW e \in log, e.type \in Synchronizable
               PROVE  Cardinality(Successes(e)) <= Executions(e)
    BY DEF AnsweredMeansExecuted
  <2> DEFINE A == Answers(e.at)
             S == Successes(e)
  <2>1. e.at \in Nat
    BY StoredTyped
  <2>2. S \subseteq A
    BY StoredTyped DEF Successes, Reports, Answers, Event, EventTypes
  <2>3. IsFiniteSet(A) /\ Cardinality(A) <= Executions(e)
    BY <2>1 DEF SyncInv, AnswersOK, Executions
  <2>4. Executions(e) \in Nat
    BY DEF SyncInv, SyncTypeOK, Executions
  <2> HIDE DEF A, S
  <2>5. /\ Cardinality(S) <= Cardinality(A)
        /\ Cardinality(S) \in Nat /\ Cardinality(A) \in Nat
    BY <2>2, <2>3, FS_Subset, FS_CardinalityType
  <2>6. Cardinality(S) <= Executions(e)
    BY <2>3, <2>4, <2>5
  <2>. QED BY <2>6 DEF S
<1>. QED BY <1>1, <1>2, SyncKeeps, PTL DEF SyncSpec

\* As long as calls of users that overlap touch different certificates, the
\* chain executes the events of a certificate in the order of the log: for
\* any number of jobs that run at once, blocks of any size, and whatever
\* fails, crashes or is retried (batch-synchronize.strategy.ts).
THEOREM ChainFollowsLog == SyncSpec /\ []NoOverlap => []ChainOrder
<1>1. SyncInit => OrderInv
  BY SyncStarts DEF OrderInv
<1>2. OrderInv => ChainOrder
  BY DEF OrderInv
<1>. QED BY <1>1, <1>2, OrderKeeps, PTL DEF SyncSpec

\* As long as calls of users that overlap touch different certificates, a
\* transfer or a claim is selected only when its certificate has a
\* blockchain id: none is ever dropped.
THEOREM NoneIsDropped == SyncSpec /\ []NoOverlap => []IdWhenSelected
<1>1. SyncInit => OrderInv
  BY SyncStarts DEF OrderInv
<1>2. OrderInv => IdWhenSelected
  <2> SUFFICES ASSUME OrderInv, NEW j \in Jobs, NEW e \in jobs[j].batch,
                      e.type # "Issued"
               PROVE  HasBlockchainId(e.cert)
    BY DEF IdWhenSelected
  <2>1. RunOK(jobs[j]) /\ RunInOrder(jobs[j]) /\ e \in Active(jobs[j])
    BY StoredTyped DEF OrderInv, InOrder, Active
  <2>. QED BY <2>1, IdsKnown DEF OrderInv
<1>. QED BY <1>1, <1>2, OrderKeeps, PTL DEF SyncSpec

\* When users call one after the other, as one user does, both hold without
\* a condition.
COROLLARY OneUserInOrder ==
  ASSUME \A u, v \in Users : u = v
  PROVE  SyncSpec => []ChainOrder /\ []IdWhenSelected
<1>1. NoOverlap
  BY DEF NoOverlap
<1>. QED BY <1>1, ChainFollowsLog, NoneIsDropped, PTL


-----------------------------------------------------------------------------
(* How often an event is executed, when there is one job *)

\* What a run has taken and not sent.
Held(run) == run.queue \cup run.batch \cup run.todo

\* The last execution of e is not counted yet: its run waits for the lane
\* that reports on it.
Owing(j, e) ==
  /\ e \in jobs[j].block
  /\ \/ jobs[j].phase = "answers" /\ calls[<<j, e.cert, "answer">>].phase # "idle"
     \/ jobs[j].phase = "errors" /\ calls[<<j, e.cert, "error">>].phase # "idle"

About(l, e) == \E g \in calls[l].events : g.payload.persistedEventId = e.at

\* Lane l is about to write the count that it has read for e.
Writes(l, e) == calls[l].phase = "saveAttempt" /\ About(l, e)

\* Executions are counted, but for the one that is owed and for one for each
\* failure; a lane that wrote now would not lose more than that.  Of lanes
\* that were left behind, those that report an error would not even lose as
\* much, because their event may be executed again before they write.
EventBounded(j, e) ==
  /\ Executions(e) <= attempts[e.at].count + failures + (IF Owing(j, e) THEN 1 ELSE 0)
  /\ Executions(e) <= MaxAttempts + failures
  /\ e \in Held(jobs[j]) => Executions(e) < MaxAttempts + failures
  /\ \A l \in Lanes : Writes(l, e) =>
       /\ Executions(e) <= calls[l].count + 1 + failures
       /\ l[3] = "error" /\ ~Owing(j, e) /\ (e \in Held(jobs[j]) \/ Unanswered(e))
            => Executions(e) <= calls[l].count + failures

\* A lane reports on a stored event of its certificate, and in its way.
LaneOK(l) ==
  /\ calls[l].phase # "idle" => calls[l].events # {}
  /\ \A g \in calls[l].events :
       /\ g.cert = l[2]
       /\ g.type = "PersistError" <=> l[3] = "error"
       /\ \E e \in ForChain : e.cert = g.cert /\ e.at = g.payload.persistedEventId

Apart(run) ==
  /\ run.queue \cap Active(run) = {}
  /\ run.batch \cap run.todo = {}
  /\ (run.batch \cup run.todo) \cap run.block = {}

\* What a run holds, and the lanes of its block.
RunApart(j) ==
  /\ Apart(jobs[j])
  /\ \A e \in jobs[j].block :
       /\ jobs[j].phase = "answers" =>
            LET l == <<j, e.cert, "answer">> IN calls[l].phase # "idle" => About(l, e)
       /\ jobs[j].phase = "errors" =>
            LET l == <<j, e.cert, "error">> IN calls[l].phase # "idle" => About(l, e)

BoundInv(j) ==
  /\ \A l \in Lanes : LaneOK(l)
  /\ RunApart(j)
  /\ \A e \in ForChain : EventBounded(j, e)

\* The numbers.
LEMMA BoundNumbers ==
  ASSUME SyncInv, NEW e \in ForChain
  PROVE  /\ Executions(e) \in Nat /\ failures \in Nat /\ MaxAttempts \in Nat
         /\ e.at \in DOMAIN attempts /\ attempts[e.at].count \in Nat
         /\ attempts[e.at].failed \in BOOLEAN
         /\ \A l \in Lanes : calls[l].count \in Nat
<1>1. Executions(e) \in Nat
  BY DEF SyncInv, SyncTypeOK, Executions
<1>2. e.at \in DOMAIN attempts
  BY DEF ForChain, SyncInv, ServiceInv, CountInv, AttemptRows
<1>3. attempts[e.at].count \in Nat /\ attempts[e.at].failed \in BOOLEAN
  BY <1>2 DEF SyncInv, ServiceInv, TypeOK
<1>4. failures \in Nat /\ MaxAttempts \in Nat
  BY OffChainAssumption DEF SyncInv, ServiceInv, TypeOK
<1>5. \A l \in Lanes : calls[l].count \in Nat
  BY Roles DEF SyncInv, ServiceInv, TypeOK, Call
<1>. QED BY <1>1, <1>2, <1>3, <1>4, <1>5

\* What is to be processed has attempts left.
LEMMA ToProcessLeft ==
  ASSUME SyncInv, NEW e \in ToProcess
  PROVE  e \in ForChain /\ Unanswered(e) /\ attempts[e.at].count < MaxAttempts
<1>1. e \in ForChain /\ Unanswered(e) /\ ~IsBlocked(e.cert) /\ e \in log /\ e.at \in DOMAIN attempts
  BY ToProcessForChain DEF ToProcess
<1>2. ~(attempts[e.at].count >= MaxAttempts)
  BY <1>1 DEF IsBlocked, LogOf
<1>. QED BY <1>1, <1>2, BoundNumbers

\* An event that is not executed and whose attempt is not written is as
\* bounded as before, unless its run stops to wait without a failure.
LEMMA BoundsStay ==
  ASSUME SyncInv, NEW j \in Jobs, NEW e \in ForChain, EventBounded(j, e),
         Executions(e)' = Executions(e), attempts'[e.at] = attempts[e.at],
         failures' \in Nat, failures <= failures',
         Owing(j, e) => Owing(j, e)' \/ failures + 1 <= failures',
         e \in Held(jobs[j])' => e \in Held(jobs[j]) \/ (e \in ToProcess /\ ~Owing(j, e)),
         \A l \in Lanes : Writes(l, e)' => Writes(l, e) /\ calls'[l].count = calls[l].count
  PROVE  EventBounded(j, e)'
<1>1. /\ Executions(e) \in Nat /\ failures \in Nat /\ MaxAttempts \in Nat
      /\ attempts[e.at].count \in Nat /\ \A l \in Lanes : calls[l].count \in Nat
  BY BoundNumbers
<1>2. Executions(e)' <= attempts'[e.at].count + failures' + (IF Owing(j, e)' THEN 1 ELSE 0)
  <2>1. \A x, c, f, g \in Nat :
          /\ x <= c + f + 0 /\ f <= g => x <= c + g + 0 /\ x <= c + g + 1
          /\ x <= c + f + 1 /\ f <= g => x <= c + g + 1
          /\ x <= c + f + 1 /\ f + 1 <= g => x <= c + g + 0 /\ x <= c + g + 1
    OBVIOUS
  <2>2. Executions(e) <= attempts[e.at].count + failures + (IF Owing(j, e) THEN 1 ELSE 0)
    BY DEF EventBounded
  <2>3. CASE Owing(j, e) /\ Owing(j, e)'
    <3>1. Executions(e) <= attempts[e.at].count + failures + 1
      BY <2>2, <2>3
    <3>2. Executions(e) <= attempts[e.at].count + failures' + 1
      BY <1>1, <2>1, <3>1
    <3>. QED BY <2>3, <3>2
  <2>4. CASE Owing(j, e) /\ ~Owing(j, e)'
    <3>1. Executions(e) <= attempts[e.at].count + failures + 1 /\ failures + 1 <= failures'
      BY <2>2, <2>4
    <3>2. Executions(e) <= attempts[e.at].count + failures' + 0
      BY <1>1, <2>1, <3>1
    <3>. QED BY <2>4, <3>2
  <2>5. CASE ~Owing(j, e)
    <3>1. Executions(e) <= attempts[e.at].count + failures + 0
      BY <2>2, <2>5
    <3>2. /\ Executions(e) <= attempts[e.at].count + failures' + 0
          /\ Executions(e) <= attempts[e.at].count + failures' + 1
      BY <1>1, <2>1, <3>1
    <3>. QED BY <3>2
  <2>. QED BY <2>3, <2>4, <2>5
<1>3. /\ Executions(e)' <= MaxAttempts + failures'
      /\ e \in Held(jobs[j])' => Executions(e)' < MaxAttempts + failures'
  <2>1. \A x, m, c, f, g \in Nat : f <= g => /\ x <= m + f => x <= m + g
                                             /\ x < m + f => x < m + g
                                             /\ x <= c + f + 0 /\ c < m => x < m + g
    OBVIOUS
  <2>2. /\ Executions(e) <= MaxAttempts + failures
        /\ e \in Held(jobs[j]) => Executions(e) < MaxAttempts + failures
        /\ ~Owing(j, e) => Executions(e) <= attempts[e.at].count + failures + 0
    BY DEF EventBounded
  <2>3. e \in ToProcess => attempts[e.at].count < MaxAttempts
    BY ToProcessLeft
  <2>. QED BY <1>1, <2>1, <2>2, <2>3
<1>4. ASSUME NEW l \in Lanes, Writes(l, e)'
      PROVE  /\ Executions(e)' <= calls'[l].count + 1 + failures'
             /\ l[3] = "error" /\ ~Owing(j, e)' /\ (e \in Held(jobs[j])' \/ Unanswered(e)')
                  => Executions(e)' <= calls'[l].count + failures'
  <2>1. \A x, k, f, g \in Nat :
          /\ f <= g /\ x <= k + 1 + f => x <= k + 1 + g
          /\ f <= g /\ x <= k + f => x <= k + g
          /\ f + 1 <= g /\ x <= k + 1 + f => x <= k + g
    OBVIOUS
  <2>2. Writes(l, e) /\ calls'[l].count = calls[l].count
    BY <1>4
  <2>3. /\ Executions(e) <= calls[l].count + 1 + failures
        /\ l[3] = "error" /\ ~Owing(j, e) /\ (e \in Held(jobs[j]) \/ Unanswered(e))
             => Executions(e) <= calls[l].count + failures
    BY <2>2 DEF EventBounded
  <2>4. Unanswered(e)' <=> Unanswered(e)
    BY DEF Unanswered
  <2>5. e \in ToProcess => Unanswered(e)
    BY ToProcessLeft
  <2>6. Executions(e)' <= calls'[l].count + 1 + failures'
    BY <1>1, <2>1, <2>2, <2>3
  <2>7. ASSUME l[3] = "error", ~Owing(j, e)', e \in Held(jobs[j])' \/ Unanswered(e)'
        PROVE  Executions(e)' <= calls'[l].count + failures'
    <3>1. CASE Owing(j, e)
      BY <1>1, <2>1, <2>2, <2>3, <2>7, <3>1
    <3>2. CASE ~Owing(j, e)
      <4>1. Executions(e) <= calls[l].count + failures
        BY <2>3, <2>4, <2>5, <2>7, <3>2
      <4>. QED BY <1>1, <2>1, <2>2, <4>1
    <3>. QED BY <3>1, <3>2
  <2>. QED BY <2>6, <2>7
<1>. QED BY <1>2, <1>3, <1>4 DEF EventBounded

-----------------------------------------------------------------------------
(* The steps of the run *)

LEMMA ContinueApart ==
  ASSUME NEW run \in Run, Apart(run), run.block = {}
  PROVE  /\ Apart(Continue(run)) /\ Continue(run).block = {}
         /\ Held(Continue(run)) \subseteq Held(run)
<1> DEFINE next == Continue(run)
           first == FirstOfEach(run.queue)
<1>1. CASE run.todo # {}
  <2>1. next = [run EXCEPT !.phase = "send"]
    BY <1>1 DEF Continue
  <2>2. /\ next.queue = run.queue /\ next.batch = run.batch /\ next.todo = run.todo
        /\ next.block = {}
    BY <2>1 DEF Run
  <2> HIDE DEF next
  <2>. QED BY <2>2 DEF next, Apart, Held, Active
<1>2. CASE run.todo = {} /\ run.batch # {}
  <2>1. next = [run EXCEPT !.phase = "select"]
    BY <1>2 DEF Continue
  <2>2. /\ next.queue = run.queue /\ next.batch = run.batch /\ next.todo = run.todo
        /\ next.block = {}
    BY <1>2, <2>1 DEF Run
  <2> HIDE DEF next
  <2>. QED BY <2>2 DEF next, Apart, Held, Active
<1>3. CASE run.todo = {} /\ run.batch = {} /\ run.queue # {}
  <2>1. next = [run EXCEPT !.phase = "select", !.batch = first, !.queue = @ \ first]
    BY <1>3 DEF Continue
  <2>2. first \subseteq run.queue
    BY DEF FirstOfEach
  <2> HIDE DEF first, next
  <2>3. /\ next.queue = run.queue \ first /\ next.batch = first /\ next.todo = {}
        /\ next.block = {}
    BY <1>3, <2>1 DEF Run
  <2>. QED BY <2>2, <2>3 DEF next, Apart, Held, Active
<1>4. CASE run.todo = {} /\ run.batch = {} /\ run.queue = {}
  <2> DEFINE round == run.round + 1
  <2>1. next = [run EXCEPT !.phase = "find", !.round = round]
    BY <1>4 DEF Continue
  <2> HIDE DEF round
  <2>2. /\ next.queue = {} /\ next.batch = {} /\ next.todo = {} /\ next.block = {}
    BY <1>4, <2>1 DEF Run
  <2> HIDE DEF next
  <2>. QED BY <2>2 DEF next, Apart, Held, Active
<1>. QED BY <1>1, <1>2, <1>3, <1>4

\* A run that reads the tables: it takes nothing but what is to be processed,
\* and has no block then; before, it waited for nothing.
Turns(j) ==
  /\ UNCHANGED <<vars, chain>>
  /\ \A i \in Jobs : i # j => jobs'[i] = jobs[i]
  /\ Apart(jobs'[j]) /\ jobs'[j].block = {}
  /\ Held(jobs'[j]) \subseteq Held(jobs[j]) \cup ToProcess
  /\ \A e : ~Owing(j, e)

LEMMA OffApart == Apart(Off) /\ Off.block = {} /\ Held(Off) = {}
BY DEF Apart, Off, Held, Active

LEMMA RunTurns ==
  ASSUME SyncInv, NEW j \in Jobs, RunApart(j),
         Start(j) \/ Finish(j) \/ Find(j) \/ Select(j) \/ BlockAnswered(j) \/ BlockFailed(j)
  PROVE  Turns(j)
<1> DEFINE old == jobs[j]
<1>1. old \in Run /\ RunOK(old) /\ Apart(old) /\ jobs \in [Jobs -> Run]
  BY StoredTyped DEF RunApart, SyncInv, SyncTypeOK
<1>2. ASSUME NEW run \in Run, jobs' = [jobs EXCEPT ![j] = Continue(run)], Apart(run), run.block = {},
             Held(run) \subseteq Held(old) \cup ToProcess, UNCHANGED <<vars, chain>>,
             \A e : ~Owing(j, e)
      PROVE  Turns(j)
  <2>1. jobs'[j] = Continue(run) /\ \A i \in Jobs : i # j => jobs'[i] = jobs[i]
    BY <1>1, <1>2
  <2>2. Apart(Continue(run)) /\ Continue(run).block = {} /\ Held(Continue(run)) \subseteq Held(run)
    BY <1>2, ContinueApart
  <2>. QED BY <1>2, <2>1, <2>2 DEF Turns
<1>3. old.block = {} => \A e : ~Owing(j, e)
  BY DEF Owing
<1>4. CASE Start(j)
  <2> DEFINE run == [old EXCEPT !.phase = "find"]
  <2>1. jobs' = [jobs EXCEPT ![j] = run] /\ UNCHANGED <<vars, chain>> /\ old.phase = "off"
    BY <1>1, <1>4 DEF Start
  <2>2. old.block = {}
    BY <1>1, <2>1 DEF RunOK
  <2>3. jobs'[j] = run /\ \A i \in Jobs : i # j => jobs'[i] = jobs[i]
    BY <1>1, <2>1
  <2>4. /\ run.queue = old.queue /\ run.batch = old.batch /\ run.todo = old.todo
        /\ run.block = old.block
    BY <1>1 DEF Run
  <2> HIDE DEF run, old
  <2>5. Apart(run) /\ Held(run) = Held(old)
    BY <1>1, <2>4 DEF Apart, Held, Active
  <2>. QED BY <1>3, <2>1, <2>2, <2>3, <2>4, <2>5 DEF Turns, old
<1>5. CASE Finish(j)
  <2>1. old.block = {}
    BY <1>1, <1>5 DEF RunOK, Finish
  <2>2. /\ UNCHANGED <<vars, chain>> /\ jobs'[j] = Off
        /\ \A i \in Jobs : i # j => jobs'[i] = jobs[i]
    BY <1>1, <1>5 DEF Finish
  <2>. QED BY <1>3, <2>1, <2>2, OffApart DEF Turns
<1>6. CASE Find(j)
  <2> DEFINE run == [old EXCEPT !.queue = Taken]
  <2>1. jobs' = [jobs EXCEPT ![j] = Continue(run)] /\ UNCHANGED <<vars, chain>> /\ old.phase = "find"
    BY <1>1, <1>6 DEF Find
  <2>2. old.batch = {} /\ old.todo = {} /\ old.block = {}
    BY <1>1, <2>1 DEF RunOK
  <2>3. Taken \subseteq ToProcess /\ Taken \subseteq Event
    BY ToProcessForChain, StoredTyped DEF Taken
  <2>4. /\ run \in Run /\ run.queue = Taken /\ run.batch = {} /\ run.todo = {} /\ run.block = {}
    BY <1>1, <2>2, <2>3 DEF Run
  <2> HIDE DEF run, old
  <2>5. Apart(run) /\ Held(run) \subseteq ToProcess
    BY <2>3, <2>4 DEF Apart, Held, Active
  <2>6. \A e : ~Owing(j, e)
    BY <1>3, <2>2
  <2>. QED BY <1>2, <2>1, <2>4, <2>5, <2>6
<1>7. CASE Select(j)
  <2> DEFINE type == NextType(old.batch)
             same == {e \in old.batch : e.type = type}
             todo == {e \in same : type = "Issued" \/ HasBlockchainId(e.cert)}
             batch == old.batch \ same
             run  == [old EXCEPT !.batch = batch, !.todo = todo]
  <2>1. jobs' = [jobs EXCEPT ![j] = Continue(run)] /\ UNCHANGED <<vars, chain>> /\ old.phase = "select"
    BY <1>7 DEF Select
  <2>2. old.todo = {} /\ old.block = {}
    BY <1>1, <2>1 DEF RunOK
  <2>3. /\ batch \subseteq old.batch /\ todo \subseteq old.batch /\ batch \cap todo = {}
        /\ old.batch \subseteq Event
    BY <1>1 DEF Run
  <2> HIDE DEF todo, batch
  <2>4. /\ run \in Run /\ run.queue = old.queue /\ run.batch = batch /\ run.todo = todo
        /\ run.block = {}
    BY <1>1, <2>2, <2>3 DEF Run
  <2> HIDE DEF run, old
  <2>5. Apart(run) /\ Held(run) \subseteq Held(old)
    BY <1>1, <2>3, <2>4 DEF Apart, Held, Active
  <2>6. \A e : ~Owing(j, e)
    BY <1>3, <2>2
  <2>. QED BY <1>2, <2>1, <2>4, <2>5, <2>6
<1>8. CASE BlockAnswered(j)
  <2> DEFINE run == [old EXCEPT !.block = {}]
  <2>1. /\ jobs' = [jobs EXCEPT ![j] = Continue(run)] /\ UNCHANGED <<vars, chain>>
        /\ old.phase = "answers"
        /\ \A e \in old.block : calls[<<j, e.cert, "answer">>].phase = "idle"
    BY <1>1, <1>8 DEF BlockAnswered, LanesOf
  <2>2. \A e : ~Owing(j, e)
    BY <2>1 DEF Owing
  <2>3. /\ run \in Run /\ run.queue = old.queue /\ run.batch = old.batch /\ run.todo = old.todo
        /\ run.block = {}
    BY <1>1 DEF Run
  <2> HIDE DEF run, old
  <2>4. Apart(run) /\ Held(run) = Held(old)
    BY <1>1, <2>3 DEF Apart, Held, Active
  <2>. QED BY <1>2, <2>1, <2>2, <2>3, <2>4
<1>9. CASE BlockFailed(j)
  <2> DEFINE certs == {e.cert : e \in old.block}
             queue == {e \in old.queue : e.cert \notin certs}
             run == [old EXCEPT !.block = {}, !.queue = queue]
  <2>1. /\ jobs' = [jobs EXCEPT ![j] = Continue(run)] /\ UNCHANGED <<vars, chain>>
        /\ old.phase = "errors"
        /\ \A e \in old.block : calls[<<j, e.cert, "error">>].phase = "idle"
    BY <1>9 DEF BlockFailed, LanesOf
  <2>2. \A e : ~Owing(j, e)
    BY <2>1 DEF Owing
  <2>3. queue \subseteq old.queue /\ old.queue \subseteq Event
    BY <1>1 DEF Run
  <2> HIDE DEF queue
  <2>4. /\ run \in Run /\ run.queue = queue /\ run.batch = old.batch /\ run.todo = old.todo
        /\ run.block = {}
    BY <1>1, <2>3 DEF Run
  <2> HIDE DEF run, old
  <2>5. Apart(run) /\ Held(run) \subseteq Held(old)
    BY <1>1, <2>3, <2>4 DEF Apart, Held, Active
  <2>. QED BY <1>2, <2>1, <2>2, <2>4, <2>5
<1>. QED BY <1>4, <1>5, <1>6, <1>7, <1>8, <1>9

\* It executes nothing and writes no attempt.
LEMMA TurnsKeepBounds ==
  ASSUME SyncInv, NEW j \in Jobs, BoundInv(j), Turns(j)
  PROVE  BoundInv(j)'
<1>1. /\ log' = log /\ attempts' = attempts /\ calls' = calls /\ failures' = failures
      /\ chain' = chain /\ ForChain' = ForChain
  BY DEF Turns, vars, tables, ForChain
<1>2. \A l \in Lanes : LaneOK(l)'
  BY <1>1 DEF BoundInv, LaneOK
<1>3. RunApart(j)'
  BY DEF Turns, RunApart
<1>4. ASSUME NEW e \in ForChain PROVE EventBounded(j, e)'
  <2>1. Executions(e)' = Executions(e)
    BY <1>1 DEF Executions
  <2>2. failures' \in Nat /\ failures <= failures'
    BY <1>1, BoundNumbers
  <2>3. ~Owing(j, e) /\ (e \in Held(jobs[j])' => e \in Held(jobs[j]) \/ e \in ToProcess)
    BY DEF Turns, Held
  <2>4. \A l \in Lanes : Writes(l, e)' => Writes(l, e) /\ calls'[l].count = calls[l].count
    BY <1>1 DEF Writes, About
  <2>. QED BY <1>1, <2>1, <2>2, <2>3, <2>4, BoundsStay DEF BoundInv
<1>. QED BY <1>1, <1>2, <1>3, <1>4 DEF BoundInv

\* A process that dies writes no attempt, and nobody waits for it.
LEMMA CrashKeepsBounds ==
  ASSUME SyncInv, NEW j \in Jobs, Jobs = {j}, BoundInv(j), Crash(j)
  PROVE  BoundInv(j)'
<1>1. /\ log' = log /\ attempts' = attempts /\ failures' = failures + 1
      /\ chain' = chain /\ ForChain' = ForChain
      /\ calls' = [p \in Processes |-> IF p \in Lanes /\ p[1] = j THEN Idle ELSE calls[p]]
      /\ jobs' = [jobs EXCEPT ![j] = Off]
  BY DEF Crash, tables, ForChain
<1>2. \A l \in Lanes : calls'[l] = Idle
  <2>1. \A l \in Lanes : l[1] = j
    BY DEF Lanes
  <2>. QED BY <1>1, <2>1, Roles
<1>3. jobs'[j] = Off
  BY <1>1 DEF SyncInv, SyncTypeOK
<1>4. \A l \in Lanes : LaneOK(l)'
  BY <1>2 DEF LaneOK, Idle
<1>5. RunApart(j)'
  BY <1>3, OffApart DEF RunApart
<1>6. ASSUME NEW e \in ForChain PROVE EventBounded(j, e)'
  <2>1. Executions(e)' = Executions(e)
    BY <1>1 DEF Executions
  <2>2. failures' \in Nat /\ failures <= failures' /\ failures + 1 <= failures'
    BY <1>1, BoundNumbers
  <2>3. e \notin Held(jobs[j])'
    BY <1>3, OffApart
  <2>4. \A l \in Lanes : ~Writes(l, e)'
    BY <1>2 DEF Writes, Idle
  <2>. QED BY <1>1, <2>1, <2>2, <2>3, <2>4, BoundsStay DEF BoundInv
<1>. QED BY <1>1, <1>4, <1>5, <1>6 DEF BoundInv

\* The calls that begin to report on a block are about its events; no call
\* that writes a count is one of them, or is about the same event in the
\* same way.
LEMMA ReportsApart ==
  ASSUME SyncInv, NEW j, Jobs = {j}, BoundInv(j), NEW block \in SUBSET ForChain,
         NEW kind \in {"answer", "error"}, BeginReports(j, block, kind),
         failures' \in 0..MaxFailures, \A e, f \in block : e.cert = f.cert => e = f
  PROVE  /\ ForChain' = ForChain /\ attempts' = attempts /\ log' = log
         /\ \A l \in Lanes : LaneOK(l)'
         /\ \A e \in block : /\ calls'[<<j, e.cert, kind>>].phase = "read"
                             /\ About(<<j, e.cert, kind>>, e)'
         /\ \A e \in ForChain, l \in Lanes : Writes(l, e)' =>
              /\ Writes(l, e) /\ calls'[l].count = calls[l].count
              /\ e \in block => l[3] # kind
<1>1. /\ Replaced
      /\ \A l \in LanesOf(j, block, kind) : \E e \in block :
           /\ l = <<j, e.cert, kind>>
           /\ calls'[l].events = {ReportOn(block, e, kind)}
           /\ calls'[l].phase = "read"
           /\ ReportOn(block, e, kind) \in Event
      /\ \A p \in Processes : p \notin LanesOf(j, block, kind) => calls'[p] = calls[p]
  BY ReportsBegin, Zenon DEF SyncInv
<1>2. ForChain' = ForChain /\ attempts' = attempts /\ log' = log
  BY <1>1 DEF Replaced, ForChain
<1>3. Lanes \subseteq Processes
  BY Roles
<1>4. \A e \in block : e.type \in Synchronizable /\ e \in ForChain /\ e.cert \in CertificateIds
  BY StoredTyped DEF ForChain
<1>5. \A l \in Lanes : l[1] = j /\ l = <<j, l[2], l[3]>>
  BY DEF Lanes
<1>6. ASSUME NEW l \in Lanes PROVE LaneOK(l)'
  <2>1. CASE l \notin LanesOf(j, block, kind)
    <3>1. calls'[l] = calls[l]
      BY <1>1, <1>3, <2>1
    <3>. QED BY <1>2, <3>1 DEF LaneOK, BoundInv
  <2>2. CASE l \in LanesOf(j, block, kind)
    <3>1. PICK e \in block : /\ l = <<j, e.cert, kind>>
                             /\ calls'[l].events = {ReportOn(block, e, kind)}
                             /\ calls'[l].phase = "read"
      BY <1>1, <2>2
    <3>2. l[2] = e.cert /\ l[3] = kind
      BY <3>1
    <3> DEFINE g == ReportOn(block, e, kind)
    <3>3. /\ g.cert = e.cert /\ g.payload.persistedEventId = e.at
          /\ g.type = IF kind = "answer" THEN PersistedType[e.type] ELSE "PersistError"
      BY DEF ReportOn
    <3>4. PersistedType[e.type] # "PersistError"
      BY <1>4 DEF PersistedType, Synchronizable
    <3>5. g.type = "PersistError" <=> l[3] = "error"
      BY <3>2, <3>3, <3>4
    <3> HIDE DEF g
    <3>6. calls'[l].events = {g}
      BY <3>1 DEF g
    <3>. QED BY <1>2, <1>4, <3>1, <3>2, <3>3, <3>5, <3>6 DEF LaneOK
  <2>. QED BY <2>1, <2>2
<1>7. ASSUME NEW e \in block
      PROVE  /\ calls'[<<j, e.cert, kind>>].phase = "read"
             /\ About(<<j, e.cert, kind>>, e)'
  <2>1. <<j, e.cert, kind>> \in LanesOf(j, block, kind)
    BY DEF LanesOf
  <2>2. PICK f \in block : /\ <<j, e.cert, kind>> = <<j, f.cert, kind>>
                           /\ calls'[<<j, e.cert, kind>>].events = {ReportOn(block, f, kind)}
                           /\ calls'[<<j, e.cert, kind>>].phase = "read"
    BY <1>1, <2>1
  <2>3. e = f
    BY <2>2
  <2>4. ReportOn(block, f, kind).payload.persistedEventId = e.at
    BY <2>3 DEF ReportOn
  <2>. QED BY <2>2, <2>4 DEF About
<1>8. ASSUME NEW e \in ForChain, NEW l \in Lanes, Writes(l, e)'
      PROVE  /\ Writes(l, e) /\ calls'[l].count = calls[l].count
             /\ e \in block => l[3] # kind
  <2>1. l \notin LanesOf(j, block, kind)
    BY <1>1, <1>8 DEF Writes
  <2>2. calls'[l] = calls[l]
    BY <1>1, <1>3, <2>1
  <2>3. Writes(l, e)
    BY <1>8, <2>2 DEF Writes, About
  <2>4. ASSUME e \in block, l[3] = kind PROVE FALSE
    <3>1. PICK g \in calls[l].events : g.payload.persistedEventId = e.at
      BY <2>3 DEF Writes, About
    <3>2. PICK f \in ForChain : f.cert = g.cert /\ f.at = g.payload.persistedEventId
      BY <3>1 DEF BoundInv, LaneOK
    <3>3. g.cert = l[2]
      BY <3>1 DEF BoundInv, LaneOK
    <3>4. f = e
      BY <3>1, <3>2 DEF SyncInv, TimesUnique, ForChain
    <3>5. l = <<j, e.cert, kind>>
      BY <1>5, <2>4, <3>2, <3>3, <3>4
    <3>. QED BY <2>1, <2>4, <3>5 DEF LanesOf
  <2>. QED BY <2>2, <2>3, <2>4
<1>. QED BY <1>2, <1>6, <1>7, <1>8

\* A block that is sent leaves the run apart, with its lanes.
LEMMA SentApart ==
  ASSUME SyncInv, NEW j, Jobs = {j}, BoundInv(j), jobs[j].phase = "send",
         NEW phase \in {"answers", "errors"}, jobs' = Sent(j, phase),
         LET block == FirstBlock(jobs[j].todo)
             kind  == IF phase = "answers" THEN "answer" ELSE "error"
         IN  \A e \in block : calls'[<<j, e.cert, kind>>].phase = "read" /\ About(<<j, e.cert, kind>>, e)'
  PROVE  /\ RunApart(j)'
         /\ \A e : ~Owing(j, e)
         /\ Held(jobs[j])' \subseteq Held(jobs[j])
         /\ \A e \in FirstBlock(jobs[j].todo) :
              e \in Held(jobs[j]) /\ e \notin Held(jobs[j])' /\ Owing(j, e)'
<1> DEFINE old == jobs[j]
           block == FirstBlock(old.todo)
           todo == old.todo \ block
<1>1. old \in Run /\ RunOK(old) /\ Apart(old) /\ jobs \in [Jobs -> Run] /\ j \in Jobs
  BY StoredTyped DEF BoundInv, RunApart, SyncInv, SyncTypeOK
<1>2. old.block = {}
  BY <1>1 DEF RunOK
<1>3. block \subseteq old.todo
  BY DEF FirstBlock
<1>4. jobs'[j] = [old EXCEPT !.phase = phase, !.block = block, !.todo = todo]
  BY <1>1 DEF Sent
<1> HIDE DEF todo, block
<1>5. /\ jobs'[j].phase = phase /\ jobs'[j].block = block /\ jobs'[j].todo = todo
      /\ jobs'[j].queue = old.queue /\ jobs'[j].batch = old.batch
  BY <1>1, <1>4 DEF Run
<1>6. Apart(jobs'[j])
  <2>1. todo = old.todo \ block
    BY DEF todo
  <2>2. old.queue \cap (old.batch \cup old.todo \cup old.block) = {} /\ old.batch \cap old.todo = {}
    BY <1>1 DEF Apart, Active
  <2> HIDE DEF old
  <2>3. /\ old.queue \cap (old.batch \cup todo \cup block) = {}
        /\ old.batch \cap todo = {}
        /\ (old.batch \cup todo) \cap block = {}
    BY <1>3, <2>1, <2>2
  <2>. QED BY <1>5, <2>3 DEF Apart, Active
<1>7. \A e : ~Owing(j, e)
  BY <1>2 DEF Owing
<1>8. RunApart(j)'
  BY <1>5, <1>6 DEF RunApart, block
<1>9. Held(jobs[j])' \subseteq Held(jobs[j])
  BY <1>5 DEF Held, todo
<1>10. ASSUME NEW e \in block PROVE e \in Held(jobs[j]) /\ e \notin Held(jobs[j])' /\ Owing(j, e)'
  <2>1. e \in Held(jobs[j])
    BY <1>3 DEF Held
  <2>2. e \notin Held(jobs[j])'
    BY <1>5, <1>6 DEF Held, Apart, Active
  <2>3. Owing(j, e)'
    BY <1>5 DEF Owing, block
  <2>. QED BY <2>1, <2>2, <2>3
<1>. QED BY <1>7, <1>8, <1>9, <1>10 DEF block

\* The numbers of an event that is executed once more when nothing is owed
\* for it, and is then owed.
LEMMA ExecutedOnce ==
  ASSUME NEW x \in Nat, NEW y \in Nat, NEW c \in Nat, NEW f \in Nat, NEW g \in Nat, NEW m \in Nat,
         y = x \/ y = x + 1, x <= c + f, x < m + f, f <= g
  PROVE  /\ y <= c + g + 1
         /\ y <= m + g
         /\ f + 1 <= g => y < m + g
         /\ \A k \in Nat : /\ x <= k + f => y <= k + 1 + g
                           /\ x <= k + 1 + f /\ f + 1 <= g => y <= k + 1 + g
  OBVIOUS

\* An event that is executed once more, or whose execution fails.
LEMMA SentBounded ==
  ASSUME SyncInv, NEW j \in Jobs, NEW e \in ForChain, EventBounded(j, e), ~Owing(j, e),
         e \in Held(jobs[j]), e \notin Held(jobs[j])', Owing(j, e)',
         Executions(e)' = Executions(e) \/ Executions(e)' = Executions(e) + 1,
         attempts' = attempts, failures' \in Nat, failures <= failures',
         \A l \in Lanes : Writes(l, e)' =>
           /\ Writes(l, e) /\ calls'[l].count = calls[l].count
           /\ l[3] = "error" \/ failures + 1 <= failures'
  PROVE  EventBounded(j, e)'
<1> DEFINE x == Executions(e)
           c == attempts[e.at].count
<1>1. /\ x \in Nat /\ failures \in Nat /\ MaxAttempts \in Nat
      /\ c \in Nat /\ \A l \in Lanes : calls[l].count \in Nat
  BY BoundNumbers
<1>2. Executions(e)' \in Nat
  BY <1>1
<1>3. x <= c + failures /\ x < MaxAttempts + failures
  <2>1. x <= c + failures + 0
    BY DEF EventBounded
  <2> HIDE DEF x, c
  <2>2. x <= c + failures
    BY <1>1, <2>1
  <2>. QED BY <2>2 DEF EventBounded, x
<1>4. /\ Executions(e)' <= c + failures' + 1
      /\ Executions(e)' <= MaxAttempts + failures'
      /\ \A k \in Nat :
           /\ x <= k + failures => Executions(e)' <= k + 1 + failures'
           /\ x <= k + 1 + failures /\ failures + 1 <= failures' => Executions(e)' <= k + 1 + failures'
  <2> HIDE DEF x, c
  <2>1. PICK y \in Nat : y = Executions(e)' /\ (y = x \/ y = x + 1)
    BY <1>2 DEF x
  <2>2. PICK g \in Nat : g = failures' /\ failures <= g
    OBVIOUS
  <2>3. /\ y <= c + g + 1
        /\ y <= MaxAttempts + g
        /\ \A k \in Nat : /\ x <= k + failures => y <= k + 1 + g
                          /\ x <= k + 1 + failures /\ failures + 1 <= g => y <= k + 1 + g
    BY <1>1, <1>3, <2>1, <2>2, ExecutedOnce
  <2>. QED BY <2>1, <2>2, <2>3
<1>5. ASSUME NEW l \in Lanes, Writes(l, e)'
      PROVE  Executions(e)' <= calls'[l].count + 1 + failures'
  <2>1. /\ Writes(l, e) /\ calls'[l].count = calls[l].count
        /\ l[3] = "error" \/ failures + 1 <= failures'
    BY <1>5
  <2>2. /\ x <= calls[l].count + 1 + failures
        /\ l[3] = "error" => x <= calls[l].count + failures
    BY <2>1 DEF EventBounded
  <2>. QED BY <1>1, <1>4, <2>1, <2>2
<1>6. attempts'[e.at].count = c
  OBVIOUS
<1> HIDE DEF x, c
<1>7. Executions(e)' <= attempts'[e.at].count + failures' + (IF Owing(j, e)' THEN 1 ELSE 0)
  BY <1>4, <1>6
<1>. QED BY <1>4, <1>5, <1>7 DEF EventBounded

\* The chain executes a block, or does not.
LEMMA SendingKeepsBounds ==
  ASSUME SyncInv, NEW j, Jobs = {j}, BoundInv(j), ChainAccepts(j) \/ ChainRejects(j)
  PROVE  BoundInv(j)'
<1> DEFINE block == FirstBlock(jobs[j].todo)
<1>1. PICK kind \in {"answer", "error"}, phase \in {"answers", "errors"} :
         /\ jobs[j].phase = "send" /\ BeginReports(j, block, kind) /\ jobs' = Sent(j, phase)
         /\ Execute(block) \/ chain' = chain
         /\ failures' \in 0..MaxFailures /\ failures <= failures'
         /\ kind = "error" => failures + 1 <= failures'
         /\ kind = IF phase = "answers" THEN "answer" ELSE "error"
  <2>1. failures \in 0..MaxFailures /\ MaxFailures \in Nat
    BY OffChainAssumption DEF SyncInv, ServiceInv, TypeOK
  <2>2. CASE ChainAccepts(j)
    BY <2>1, <2>2 DEF ChainAccepts
  <2>3. CASE ~ChainAccepts(j)
    BY <2>1, <2>3 DEF ChainRejects
  <2>. QED BY <2>2, <2>3
<1>2. /\ jobs[j] \in Run /\ RunOK(jobs[j]) /\ j \in Jobs
      /\ block \subseteq jobs[j].todo
  BY StoredTyped DEF FirstBlock
<1>3. block \subseteq ForChain /\ \A e, f \in block : e.cert = f.cert => e = f
  BY <1>2 DEF RunOK, Active
<1> HIDE DEF block
<1>4. /\ ForChain' = ForChain /\ attempts' = attempts /\ log' = log
      /\ \A l \in Lanes : LaneOK(l)'
      /\ \A e \in block : /\ calls'[<<j, e.cert, kind>>].phase = "read"
                          /\ About(<<j, e.cert, kind>>, e)'
      /\ \A e \in ForChain, l \in Lanes : Writes(l, e)' =>
           /\ Writes(l, e) /\ calls'[l].count = calls[l].count
           /\ e \in block => l[3] # kind
  <2>1. /\ block \in SUBSET ForChain /\ kind \in {"answer", "error"}
        /\ BeginReports(j, block, kind) /\ failures' \in 0..MaxFailures
        /\ \A e, f \in block : e.cert = f.cert => e = f
    BY <1>1, <1>3
  <2>2. ForChain' = ForChain /\ attempts' = attempts /\ log' = log
    BY <2>1, ReportsApart, Zenon
  <2>3. \A l \in Lanes : LaneOK(l)'
    BY <2>1, ReportsApart, Zenon
  <2>4. \A e \in block : calls'[<<j, e.cert, kind>>].phase = "read"
    BY <2>1, ReportsApart, Zenon
  <2>5. \A e \in block : About(<<j, e.cert, kind>>, e)'
    BY <2>1, ReportsApart, Zenon
  <2>6. \A e \in ForChain, l \in Lanes : Writes(l, e)' =>
           /\ Writes(l, e) /\ calls'[l].count = calls[l].count
           /\ e \in block => l[3] # kind
    BY <2>1, ReportsApart
  <2>. QED BY <2>2, <2>3, <2>4, <2>5, <2>6, Zenon
<1>5. /\ RunApart(j)'
      /\ \A e : ~Owing(j, e)
      /\ Held(jobs[j])' \subseteq Held(jobs[j])
      /\ \A e \in block :
           e \in Held(jobs[j]) /\ e \notin Held(jobs[j])' /\ Owing(j, e)'
  <2>1. /\ jobs[j].phase = "send" /\ phase \in {"answers", "errors"} /\ jobs' = Sent(j, phase)
        /\ LET kk == IF phase = "answers" THEN "answer" ELSE "error"
           IN  \A e \in block : /\ calls'[<<j, e.cert, kk>>].phase = "read"
                                 /\ About(<<j, e.cert, kk>>, e)'
    BY <1>1, <1>4
  <2>. QED BY <2>1, SentApart, Zenon DEF block
<1>6. ASSUME NEW e \in ForChain PROVE EventBounded(j, e)'
  <2>1. Executions(e)' = Executions(e) \/ (Executions(e)' = Executions(e) + 1 /\ e \in block)
    <3>1. Count(e.at)' = Count(e.at) \/ (Count(e.at)' = Count(e.at) + 1 /\ \E f \in block : f.at = e.at)
      BY <1>1, <1>3, Counts
    <3>2. \A f \in block : f.at = e.at => f = e
      BY <1>3 DEF SyncInv, TimesUnique, ForChain
    <3>. QED BY <3>1, <3>2 DEF Count, Executions
  <2>2. failures' \in Nat /\ EventBounded(j, e)
    BY <1>1 DEF BoundInv
  <2>3. CASE e \in block
    <3>1. \A l \in Lanes : Writes(l, e)' =>
            /\ Writes(l, e) /\ calls'[l].count = calls[l].count
            /\ l[3] = "error" \/ failures + 1 <= failures'
      <4>1. \A l \in Lanes : l[3] \in {"answer", "error"}
        BY DEF Lanes
      <4>. QED BY <1>1, <1>4, <2>3, <4>1
    <3>. QED BY <1>1, <1>2, <1>4, <1>5, <2>1, <2>2, <2>3, <3>1, SentBounded
  <2>4. CASE e \notin block
    <3>1. Executions(e)' = Executions(e) /\ attempts'[e.at] = attempts[e.at]
      BY <1>4, <2>1, <2>4
    <3>2. /\ ~Owing(j, e)
          /\ e \in Held(jobs[j])' => e \in Held(jobs[j])
          /\ \A l \in Lanes : Writes(l, e)' => Writes(l, e) /\ calls'[l].count = calls[l].count
      BY <1>4, <1>5
    <3>. QED BY <1>1, <1>2, <2>2, <3>1, <3>2, BoundsStay
  <2>. QED BY <2>3, <2>4
<1>. QED BY <1>4, <1>5, <1>6 DEF BoundInv

\* An answer threw: the errors that are reported now leave nothing uncounted
\* that was not.
LEMMA CatchKeepsBounds ==
  ASSUME SyncInv, NEW j, Jobs = {j}, BoundInv(j), Catch(j)
  PROVE  BoundInv(j)'
<1> DEFINE old == jobs[j]
           block == jobs[j].block
<1>1. /\ old \in Run /\ RunOK(old) /\ Apart(old) /\ j \in Jobs /\ jobs \in [Jobs -> Run]
  BY StoredTyped DEF BoundInv, RunApart, SyncInv, SyncTypeOK
<1>2. /\ BeginReports(j, block, "error") /\ jobs' = [jobs EXCEPT ![j].phase = "errors"]
      /\ failures' = failures /\ chain' = chain
  BY DEF Catch
<1>3. block \subseteq ForChain /\ \A e, f \in block : e.cert = f.cert => e = f
  BY <1>1 DEF RunOK, Active
<1>4. failures' \in 0..MaxFailures /\ failures' \in Nat /\ failures <= failures'
  BY <1>2, OffChainAssumption DEF SyncInv, ServiceInv, TypeOK
<1>5. /\ ForChain' = ForChain /\ attempts' = attempts /\ log' = log
      /\ \A l \in Lanes : LaneOK(l)'
      /\ \A e \in block : /\ calls'[<<j, e.cert, "error">>].phase = "read"
                          /\ About(<<j, e.cert, "error">>, e)'
      /\ \A e \in ForChain, l \in Lanes : Writes(l, e)' =>
           Writes(l, e) /\ calls'[l].count = calls[l].count
  <2> HIDE DEF block
  <2>. QED BY <1>2, <1>3, <1>4, ReportsApart, Zenon
<1>6. /\ jobs'[j].phase = "errors" /\ jobs'[j].block = block /\ jobs'[j].todo = old.todo
      /\ jobs'[j].queue = old.queue /\ jobs'[j].batch = old.batch
  <2>1. jobs'[j] = [old EXCEPT !.phase = "errors"]
    BY <1>1, <1>2
  <2>. QED BY <1>1, <2>1 DEF Run
<1>7. Apart(jobs'[j]) /\ Held(jobs[j])' = Held(jobs[j])
  BY <1>1, <1>6 DEF Apart, Active, Held
<1>8. RunApart(j)'
  BY <1>5, <1>6, <1>7 DEF RunApart
<1>9. \A e : Owing(j, e) => Owing(j, e)'
  BY <1>5, <1>6 DEF Owing
<1>10. ASSUME NEW e \in ForChain PROVE EventBounded(j, e)'
  <2>1. Executions(e)' = Executions(e) /\ attempts'[e.at] = attempts[e.at]
    BY <1>2, <1>5 DEF Executions
  <2>2. EventBounded(j, e)
    BY DEF BoundInv
  <2> HIDE DEF old, block
  <2>. QED BY <1>1, <1>4, <1>5, <1>7, <1>9, <2>1, <2>2, BoundsStay
<1>. QED BY <1>5, <1>8, <1>10 DEF BoundInv

-----------------------------------------------------------------------------
(* The steps of calls *)

\* What a user stores for the chain has not been executed, and nothing that
\* is stored loses its attempts.
LEMMA UserKeepsBounds ==
  ASSUME SyncInv, NEW j, Jobs = {j}, BoundInv(j), NEW p \in Users, UserStep(p)
  PROVE  BoundInv(j)'
<1>1. p \in Processes /\ j \in Jobs
  BY Roles
<1>2. CallStep(p)
  BY <1>1, CallStepsAre
<1>3. \A l \in Lanes : calls'[l] = calls[l]
  BY <1>2, Roles DEF CallStep, Others
<1>4. jobs' = jobs /\ chain' = chain
  BY DEF UserStep, syncVars
<1>5. failures' = failures
  BY DEF UserStep, Issue, Move, MoveBatch, Proceed, Load, Recreate, Project, Store, FindAttempt,
     SaveAttempt, Reject
<1>6. /\ log \subseteq log'
      /\ \A g \in log' : g \in log \/ (Store(p) /\ g \in calls[p].events)
      /\ Store(p) => Pending(p)
  BY <1>1, <1>2, CallStepResult, Zenon
<1>7. ForChain \subseteq ForChain'
  BY <1>6 DEF ForChain
<1>8. \A l \in Lanes : LaneOK(l)'
  BY <1>3, <1>7 DEF BoundInv, LaneOK
<1>9. RunApart(j)'
  <2>1. \A e \in jobs[j].block : <<j, e.cert, "answer">> \in Lanes /\ <<j, e.cert, "error">> \in Lanes
    BY <1>1, StoredTyped DEF RunOK, Active, Lanes
  <2>. QED BY <1>3, <1>4, <2>1 DEF BoundInv, RunApart, About
<1>10. \A e : Owing(j, e) => Owing(j, e)'
  <2>1. \A e \in jobs[j].block : <<j, e.cert, "answer">> \in Lanes /\ <<j, e.cert, "error">> \in Lanes
    BY <1>1, StoredTyped DEF RunOK, Active, Lanes
  <2>. QED BY <1>3, <1>4, <2>1 DEF Owing
<1>11. ~SaveAttempt(p)
  BY DEF SaveAttempt, SyncInv, RolesOK
<1>12. Store(p) => \A e \in ForChain, g \in calls[p].events : e.at # g.at
  BY <1>1, <1>6 DEF ForChain, SyncInv, ServiceInv, CountInv, TimesOK
<1>13. \A e \in ForChain : attempts'[e.at] = attempts[e.at]
  <2>1. CASE Store(p)
    <3>1. \A e \in ForChain : e.at \in DOMAIN attempts
      BY BoundNumbers
    <3>. QED BY <1>12, <2>1, <3>1 DEF Store
  <2>2. CASE ~Store(p)
    BY <1>2, <1>11, <2>2 DEF CallStep, Begins, GoesOn, Throws
  <2>. QED BY <2>1, <2>2
<1>14. failures' \in Nat /\ failures <= failures' /\ MaxAttempts \in Nat
  BY <1>5, OffChainAssumption DEF SyncInv, ServiceInv, TypeOK
<1>15. ASSUME NEW e \in ForChain PROVE EventBounded(j, e)'
  <2>1. Executions(e)' = Executions(e)
    BY <1>4 DEF Executions
  <2>2. e \in Held(jobs[j])' => e \in Held(jobs[j])
    BY <1>4
  <2>3. \A l \in Lanes : Writes(l, e)' => Writes(l, e) /\ calls'[l].count = calls[l].count
    BY <1>3 DEF Writes, About
  <2>4. EventBounded(j, e)
    BY DEF BoundInv
  <2>. QED BY <1>1, <1>10, <1>13, <1>14, <2>1, <2>2, <2>3, <2>4, BoundsStay
<1>16. ASSUME NEW e \in ForChain', e \notin ForChain PROVE EventBounded(j, e)'
  <2>1. Store(p) /\ e \in calls[p].events /\ e.type \in Synchronizable
    BY <1>6, <1>16 DEF ForChain
  <2>2. e.at \notin DOMAIN chain
    BY <1>12, <2>1 DEF SyncInv, AnswersOK
  <2>3. Executions(e)' = 0
    BY <1>4, <2>2 DEF Executions
  <2>4. attempts'[e.at].count = 0
    BY <2>1 DEF Store, ShouldBeSynchronized
  <2>5. e \notin Held(jobs[j])'
    BY <1>1, <1>4, <1>16, StoredTyped DEF Held, RunOK, Active
  <2>6. \A l \in Lanes : calls'[l].count \in Nat
    BY <1>3, Roles DEF SyncInv, ServiceInv, TypeOK, Call
  <2>7. \A f, m, k \in Nat : 0 <= 0 + f + 1 /\ 0 <= 0 + f + 0 /\ 0 <= m + f
                             /\ 0 <= k + 1 + f /\ 0 <= k + f
    OBVIOUS
  <2>8. Executions(e)' <= attempts'[e.at].count + failures' + (IF Owing(j, e)' THEN 1 ELSE 0)
    BY <1>14, <2>3, <2>4, <2>7
  <2>9. Executions(e)' <= MaxAttempts + failures'
    BY <1>14, <2>3, <2>7
  <2>10. \A l \in Lanes : /\ Executions(e)' <= calls'[l].count + 1 + failures'
                          /\ Executions(e)' <= calls'[l].count + failures'
    BY <1>14, <2>3, <2>6, <2>7
  <2>. QED BY <2>5, <2>8, <2>9, <2>10 DEF EventBounded
<1>. QED BY <1>8, <1>9, <1>15, <1>16 DEF BoundInv

\* A lane that goes on with its report, and neither writes its count nor
\* ends.
LEMMA QuietLane ==
  ASSUME SyncInv, NEW j, Jobs = {j}, BoundInv(j), NEW l \in Lanes, Others(l),
         ForChain' = ForChain, \A e \in ForChain : attempts'[e.at] = attempts[e.at],
         chain' = chain, jobs' = jobs, failures' \in Nat, failures <= failures',
         calls[l].phase # "idle", calls'[l].phase \notin {"idle", "saveAttempt"},
         calls'[l].events = calls[l].events
  PROVE  BoundInv(j)'
<1>1. l \in Processes /\ j \in Jobs
  BY Roles
<1>2. \A k \in Lanes : /\ calls'[k].events = calls[k].events
                       /\ calls'[k].phase = "idle" <=> calls[k].phase = "idle"
                       /\ calls'[k].phase = "saveAttempt" => calls'[k] = calls[k]
  BY <1>1, Roles DEF Others
<1>3. \A k \in Lanes : LaneOK(k)'
  BY <1>2 DEF BoundInv, LaneOK
<1>4. \A e \in jobs[j].block : <<j, e.cert, "answer">> \in Lanes /\ <<j, e.cert, "error">> \in Lanes
  BY <1>1, StoredTyped DEF RunOK, Active, Lanes
<1>5. RunApart(j)'
  BY <1>2, <1>4 DEF BoundInv, RunApart, About
<1>6. \A e : Owing(j, e) => Owing(j, e)'
  BY <1>2, <1>4 DEF Owing
<1>7. ASSUME NEW e \in ForChain PROVE EventBounded(j, e)'
  <2>1. Executions(e)' = Executions(e)
    BY DEF Executions
  <2>2. \A k \in Lanes : Writes(k, e)' => Writes(k, e) /\ calls'[k].count = calls[k].count
    BY <1>2 DEF Writes, About
  <2>3. EventBounded(j, e)
    BY DEF BoundInv
  <2>. QED BY <1>1, <1>6, <2>1, <2>2, <2>3, BoundsStay
<1>. QED BY <1>3, <1>5, <1>7 DEF BoundInv

\* A report on an error that fails is one more failure.
LEMMA ErrorLaneFails ==
  ASSUME SyncInv, NEW j, Jobs = {j}, BoundInv(j), NEW l \in Lanes, Others(l),
         log' = log, attempts' = attempts, chain' = chain,
         jobs' = jobs \/ jobs' = [jobs EXCEPT ![j] = Off],
         failures' \in Nat, failures + 1 <= failures', calls'[l] = Idle
  PROVE  BoundInv(j)'
<1>1. l \in Processes /\ j \in Jobs /\ ForChain' = ForChain /\ jobs \in [Jobs -> Run]
  BY Roles DEF ForChain, SyncInv, SyncTypeOK
<1>2. \A k \in Lanes : calls'[k] = Idle \/ calls'[k] = calls[k]
  BY <1>1, Roles DEF Others
<1>3. \A k \in Lanes : LaneOK(k)'
  BY <1>1, <1>2 DEF BoundInv, LaneOK, Idle
<1>4. jobs'[j] = jobs[j] \/ jobs'[j] = Off
  BY <1>1
<1>5. \A e \in jobs[j].block : <<j, e.cert, "answer">> \in Lanes /\ <<j, e.cert, "error">> \in Lanes
  BY <1>1, StoredTyped DEF RunOK, Active, Lanes
<1>6. RunApart(j)'
  <2>1. CASE jobs'[j] = jobs[j]
    <3>1. Apart(jobs'[j])
      BY <2>1 DEF BoundInv, RunApart
    <3>2. \A e, k : calls'[k] = Idle \/ calls'[k] = calls[k] =>
            ((calls[k].phase # "idle" => About(k, e)) => (calls'[k].phase # "idle" => About(k, e)'))
      BY DEF About, Idle
    <3>3. ASSUME NEW e \in jobs[j].block
          PROVE  /\ jobs[j].phase = "answers" =>
                      LET k == <<j, e.cert, "answer">> IN calls'[k].phase # "idle" => About(k, e)'
                 /\ jobs[j].phase = "errors" =>
                      LET k == <<j, e.cert, "error">> IN calls'[k].phase # "idle" => About(k, e)'
      BY <1>2, <1>5, <3>2 DEF BoundInv, RunApart
    <3>. QED BY <2>1, <3>1, <3>3 DEF RunApart
  <2>2. CASE jobs'[j] = Off
    BY <2>2, OffApart DEF RunApart
  <2>. QED BY <1>4, <2>1, <2>2
<1>7. \A e : e \in Held(jobs[j])' => e \in Held(jobs[j])
  BY <1>4, OffApart
<1>8. ASSUME NEW e \in ForChain PROVE EventBounded(j, e)'
  <2>1. Executions(e)' = Executions(e)
    BY DEF Executions
  <2>2. \A k \in Lanes : Writes(k, e)' => Writes(k, e) /\ calls'[k].count = calls[k].count
    BY <1>2 DEF Writes, About, Idle
  <2>3. EventBounded(j, e)
    BY DEF BoundInv
  <2>4. failures <= failures'
    BY BoundNumbers
  <2>. QED BY <1>1, <1>7, <2>1, <2>2, <2>3, <2>4, BoundsStay
<1>. QED BY <1>1, <1>3, <1>6, <1>8 DEF BoundInv

\* What a lane reports on.
LEMMA LaneReport ==
  ASSUME SyncInv, NEW j, Jobs = {j}, BoundInv(j), NEW l \in Lanes, NEW g \in calls[l].events
  PROVE  /\ calls[l].events = {g} /\ g.type \notin Synchronizable
         /\ g.type = "PersistError" <=> l[3] = "error"
         /\ \A e \in ForChain : g.payload.persistedEventId = e.at <=> About(l, e)
         /\ \A e \in ForChain : About(l, e) => l[2] = e.cert /\ l = <<j, e.cert, l[3]>>
<1>1. calls[l].events = {g} /\ g.type \notin Synchronizable
  BY Roles DEF SyncInv, RolesOK, ServiceInv, CallsOK
<1>2. g.cert = l[2] /\ (g.type = "PersistError" <=> l[3] = "error")
  BY DEF BoundInv, LaneOK
<1>3. \A e \in ForChain : g.payload.persistedEventId = e.at <=> About(l, e)
  BY <1>1 DEF About
<1>4. ASSUME NEW e \in ForChain, About(l, e) PROVE l[2] = e.cert /\ l = <<j, e.cert, l[3]>>
  <2>1. PICK f \in ForChain : f.cert = g.cert /\ f.at = g.payload.persistedEventId
    BY DEF BoundInv, LaneOK
  <2>2. f = e
    BY <1>3, <1>4, <2>1 DEF SyncInv, TimesUnique, ForChain
  <2>. QED BY <1>2, <2>1, <2>2 DEF Lanes
<1>. QED BY <1>1, <1>2, <1>3, <1>4

\* The count that is read is the count that was written.
LEMMA FindKeepsBounds ==
  ASSUME SyncInv, NEW j, Jobs = {j}, BoundInv(j), NEW l \in Lanes, FindAttempt(l), UNCHANGED syncVars
  PROVE  BoundInv(j)'
<1>1. l \in Processes /\ j \in Jobs
  BY Roles
<1>2. PICK g \in calls[l].events :
        calls' = [calls EXCEPT ![l] =
                    [@ EXCEPT !.phase = "saveAttempt",
                              !.count = attempts[g.payload.persistedEventId].count]]
  BY DEF FindAttempt
<1>3. calls[l] \in Call /\ calls \in [Processes -> Call]
  BY <1>1 DEF SyncInv, ServiceInv, TypeOK
<1>4. /\ calls'[l].events = calls[l].events /\ calls'[l].phase = "saveAttempt"
      /\ calls'[l].count = attempts[g.payload.persistedEventId].count
      /\ \A k \in Lanes : k # l => calls'[k] = calls[k]
  BY <1>1, <1>2, <1>3, Roles DEF Call
<1>5. /\ calls[l].phase = "findAttempt"
      /\ log' = log /\ attempts' = attempts /\ chain' = chain /\ jobs' = jobs
      /\ failures' = failures /\ ForChain' = ForChain
  BY DEF FindAttempt, tables, syncVars, ForChain
<1>6. \A k \in Lanes : LaneOK(k)'
  BY <1>4, <1>5 DEF BoundInv, LaneOK
<1>7. \A e \in jobs[j].block : <<j, e.cert, "answer">> \in Lanes /\ <<j, e.cert, "error">> \in Lanes
  BY <1>1, StoredTyped DEF RunOK, Active, Lanes
<1>8. \A k \in Lanes : (calls'[k].phase # "idle" <=> calls[k].phase # "idle") /\ calls'[k].events = calls[k].events
  BY <1>4, <1>5
<1>9. RunApart(j)'
  BY <1>5, <1>7, <1>8 DEF BoundInv, RunApart, About
<1>10. \A e : Owing(j, e)' <=> Owing(j, e)
  BY <1>5, <1>7, <1>8 DEF Owing
<1>11. ASSUME NEW e \in ForChain PROVE EventBounded(j, e)'
  <2>1. Executions(e)' = Executions(e) /\ (Unanswered(e)' <=> Unanswered(e))
    BY <1>5 DEF Executions, Unanswered
  <2>2. EventBounded(j, e)
    BY DEF BoundInv
  <2>3. /\ Executions(e)' <= attempts'[e.at].count + failures' + (IF Owing(j, e)' THEN 1 ELSE 0)
        /\ Executions(e)' <= MaxAttempts + failures'
        /\ e \in Held(jobs[j])' => Executions(e)' < MaxAttempts + failures'
    BY <1>5, <1>10, <2>1, <2>2 DEF EventBounded
  <2>4. ASSUME NEW k \in Lanes, Writes(k, e)'
        PROVE  /\ Executions(e)' <= calls'[k].count + 1 + failures'
               /\ k[3] = "error" /\ ~Owing(j, e)' /\ (e \in Held(jobs[j])' \/ Unanswered(e)')
                    => Executions(e)' <= calls'[k].count + failures'
    <3>1. CASE k # l
      <4>1. Writes(k, e) /\ calls'[k] = calls[k]
        BY <1>4, <2>4, <3>1 DEF Writes, About
      <4>. QED BY <1>5, <1>10, <2>1, <2>2, <4>1 DEF EventBounded
    <3>2. CASE k = l
      <4>1. About(l, e)
        BY <1>4, <2>4, <3>2 DEF Writes, About
      <4>2. calls'[k].count = attempts[e.at].count
        BY <1>4, <3>2, <4>1, LaneReport
      <4>3. /\ Executions(e) <= attempts[e.at].count + failures + (IF Owing(j, e) THEN 1 ELSE 0)
            /\ Executions(e) \in Nat /\ attempts[e.at].count \in Nat /\ failures \in Nat
        BY <2>2, BoundNumbers DEF EventBounded
      <4>4. \A x, c, f \in Nat : /\ x <= c + f + 1 => x <= c + 1 + f
                                 /\ x <= c + f + 0 => x <= c + 1 + f /\ x <= c + f
        OBVIOUS
      <4>5. CASE Owing(j, e)
        <5>1. Executions(e) <= attempts[e.at].count + failures + 1
          BY <4>3, <4>5
        <5>2. Executions(e) <= attempts[e.at].count + 1 + failures
          BY <4>3, <4>4, <5>1
        <5>. QED BY <1>5, <1>10, <2>1, <4>2, <4>5, <5>2
      <4>6. CASE ~Owing(j, e)
        <5>1. Executions(e) <= attempts[e.at].count + failures + 0
          BY <4>3, <4>6
        <5>2. /\ Executions(e) <= attempts[e.at].count + 1 + failures
              /\ Executions(e) <= attempts[e.at].count + failures
          BY <4>3, <4>4, <5>1
        <5>. QED BY <1>5, <2>1, <4>2, <5>2
      <4>. QED BY <4>5, <4>6
    <3>. QED BY <3>1, <3>2
  <2>. QED BY <2>3, <2>4 DEF EventBounded
<1>. QED BY <1>5, <1>6, <1>9, <1>11 DEF BoundInv

\* The count that is written covers what the lane was to count; another lane
\* that reports on the same event has lost no more than it may.
LEMMA SaveKeepsBounds ==
  ASSUME SyncInv, NEW j, Jobs = {j}, BoundInv(j), NEW l \in Lanes, SaveAttempt(l), UNCHANGED syncVars
  PROVE  BoundInv(j)'
<1>1. l \in Processes /\ j \in Jobs
  BY Roles
<1>2. PICK g \in calls[l].events :
        attempts' = [attempts EXCEPT ![g.payload.persistedEventId] =
                       [count |-> calls[l].count + 1, failed |-> g.type = "PersistError"]]
  BY DEF SaveAttempt
<1> DEFINE t == g.payload.persistedEventId
<1>3. /\ calls[l].phase = "saveAttempt" /\ calls' = [calls EXCEPT ![l] = Idle]
      /\ log' = log /\ chain' = chain /\ jobs' = jobs
      /\ failures' = failures /\ ForChain' = ForChain
  BY DEF SaveAttempt, syncVars, ForChain
<1>4. calls'[l] = Idle /\ \A k \in Lanes : k # l => calls'[k] = calls[k]
  BY <1>1, <1>3, Roles DEF SyncInv, ServiceInv, TypeOK
<1>5. \A k \in Lanes : LaneOK(k)'
  BY <1>3, <1>4 DEF BoundInv, LaneOK, Idle
<1>6. \A e \in jobs[j].block : <<j, e.cert, "answer">> \in Lanes /\ <<j, e.cert, "error">> \in Lanes
  BY <1>1, StoredTyped DEF RunOK, Active, Lanes
<1>7. RunApart(j)'
  <2>1. \A e, k : calls'[k] = Idle \/ calls'[k] = calls[k] =>
          ((calls[k].phase # "idle" => About(k, e)) => (calls'[k].phase # "idle" => About(k, e)'))
    BY DEF About, Idle
  <2>2. ASSUME NEW e \in jobs[j].block
        PROVE  /\ jobs[j].phase = "answers" =>
                    LET k == <<j, e.cert, "answer">> IN calls'[k].phase # "idle" => About(k, e)'
               /\ jobs[j].phase = "errors" =>
                    LET k == <<j, e.cert, "error">> IN calls'[k].phase # "idle" => About(k, e)'
    BY <1>4, <1>6, <2>1 DEF BoundInv, RunApart
  <2>. QED BY <1>3, <2>2 DEF BoundInv, RunApart
<1>8. ASSUME NEW e \in ForChain, e.at # t PROVE EventBounded(j, e)'
  <2>1. Executions(e)' = Executions(e) /\ attempts'[e.at] = attempts[e.at]
    BY <1>2, <1>3, <1>8, BoundNumbers DEF Executions
  <2>2. ~About(l, e)
    BY <1>8, LaneReport
  <2>3. ASSUME Owing(j, e) PROVE Owing(j, e)'
    <3>1. \A k \in Lanes : About(k, e) => calls'[k] = calls[k]
      BY <1>4, <2>2
    <3>. QED BY <1>3, <1>6, <2>3, <3>1 DEF Owing, BoundInv, RunApart
  <2>4. \A k \in Lanes : Writes(k, e)' => Writes(k, e) /\ calls'[k].count = calls[k].count
    BY <1>4 DEF Writes, About, Idle
  <2>5. EventBounded(j, e)
    BY DEF BoundInv
  <2>6. failures' \in Nat /\ failures <= failures' /\ (e \in Held(jobs[j])' => e \in Held(jobs[j]))
    BY <1>3, BoundNumbers
  <2>. QED BY <1>1, <2>1, <2>3, <2>4, <2>5, <2>6, BoundsStay
<1>9. ASSUME NEW e \in ForChain, e.at = t PROVE EventBounded(j, e)'
  <2> DEFINE n == calls[l].count + 1
  <2>1. /\ Executions(e)' = Executions(e) /\ Executions(e) \in Nat /\ failures \in Nat
        /\ n \in Nat /\ n > 0
    BY <1>1, <1>3, BoundNumbers DEF Executions
  <2>2. attempts'[e.at] = [count |-> n, failed |-> g.type = "PersistError"]
    BY <1>2, <1>9, BoundNumbers
  <2>3. About(l, e)
    BY <1>9, LaneReport
  <2>4. EventBounded(j, e)
    BY DEF BoundInv
  <2>5. Executions(e) <= n + failures
    BY <1>3, <2>3, <2>4 DEF EventBounded, Writes
  <2> HIDE DEF n
  <2>6. Executions(e)' <= attempts'[e.at].count + failures' + (IF Owing(j, e)' THEN 1 ELSE 0)
    <3>1. \A x, f, m \in Nat : x <= m + f => x <= m + f + 0 /\ x <= m + f + 1
      OBVIOUS
    <3>2. Executions(e) <= n + failures + 0 /\ Executions(e) <= n + failures + 1
      BY <2>1, <2>5, <3>1
    <3>3. attempts'[e.at].count = n
      BY <2>2
    <3>. QED BY <1>3, <2>1, <3>2, <3>3
  <2>7. /\ Executions(e)' <= MaxAttempts + failures'
        /\ e \in Held(jobs[j])' => Executions(e)' < MaxAttempts + failures'
    BY <1>3, <2>1, <2>4 DEF EventBounded
  <2>8. ASSUME NEW k \in Lanes, Writes(k, e)'
        PROVE  /\ Executions(e)' <= calls'[k].count + 1 + failures'
               /\ k[3] = "error" /\ ~Owing(j, e)' /\ (e \in Held(jobs[j])' \/ Unanswered(e)')
                    => Executions(e)' <= calls'[k].count + failures'
    <3>1. k # l /\ calls'[k] = calls[k] /\ Writes(k, e)
      BY <1>4, <2>8 DEF Writes, About, Idle
    <3>2. Executions(e) <= calls[k].count + 1 + failures
      BY <2>4, <3>1 DEF EventBounded
    <3>3. ASSUME k[3] = "error", e \in Held(jobs[j])' \/ Unanswered(e)'
          PROVE  Executions(e) <= calls[k].count + failures
      <4>1. k = <<j, e.cert, "error">> /\ l = <<j, e.cert, l[3]>>
        <5>1. PICK h \in calls[k].events : TRUE
          BY <3>1 DEF Writes, About
        <5>. QED BY <2>3, <3>1, <3>3, <5>1, LaneReport DEF Writes
      <4>2. g.type # "PersistError"
        BY <3>1, <4>1, LaneReport
      <4>3. ~Unanswered(e)'
        <5>1. ~attempts'[e.at].failed
          <6>1. (g.type = "PersistError") = FALSE
            BY <4>2
          <6>2. attempts'[e.at] = [count |-> n, failed |-> FALSE]
            BY <2>2, <6>1, Zenon
          <6>. QED BY <6>2
        <5>2. attempts'[e.at].count = n /\ n # 0
          BY <2>1, <2>2
        <5>. QED BY <5>1, <5>2 DEF Unanswered
      <4>4. e \in Held(jobs[j])
        BY <1>3, <3>3, <4>3
      <4>5. ~Owing(j, e)
        BY <4>4 DEF BoundInv, RunApart, Apart, Held, Active, Owing
      <4>. QED BY <2>4, <3>1, <3>3, <4>4, <4>5 DEF EventBounded
    <3>. QED BY <1>3, <2>1, <3>1, <3>2, <3>3
  <2>. QED BY <2>6, <2>7, <2>8 DEF EventBounded
<1>. QED BY <1>3, <1>5, <1>7, <1>8, <1>9 DEF BoundInv

\* A lane that throws leaves its answer to the run, which waits for it, or is
\* one more failure: a report on an error is never refused.
LEMMA ThrowKeepsBounds ==
  ASSUME SyncInv, FailuresAccepted, NEW j, Jobs = {j}, BoundInv(j), NEW l \in Lanes, LaneThrows(l)
  PROVE  BoundInv(j)'
<1>1. l \in Processes /\ j \in Jobs /\ l[1] = j /\ l[3] \in {"answer", "error"}
  BY Roles DEF Lanes
<1>2. /\ log' = log /\ attempts' = attempts /\ chain' = chain
      /\ \/ \E c \in Touched(l) : Reject(l, c)
         \/ Fail(l) /\ Throw(l)
  BY DEF LaneThrows, Reject, Fail, tables
<1>3. calls[l].phase # "idle"
  BY <1>2 DEF Reject, Fail
<1>4. PICK g \in calls[l].events : TRUE
  BY <1>3 DEF BoundInv, LaneOK
<1>5. /\ calls[l].events = {g} /\ g.type \notin Synchronizable
      /\ g.type = "PersistError" <=> l[3] = "error"
  BY LaneReport
<1>6. Throws(l) /\ Others(l)
  BY <1>1, <1>2, ThrowThrows DEF Reject
<1>7. /\ failures \in Nat /\ failures' \in Nat /\ failures <= failures'
      /\ Fail(l) => failures + 1 <= failures'
  <2>1. failures \in Nat
    BY OffChainAssumption DEF SyncInv, ServiceInv, TypeOK
  <2>. QED BY <1>2, <2>1 DEF Reject, Fail
<1>8. ForChain' = ForChain
  BY <1>2 DEF ForChain
<1>9. CASE l[3] = "answer"
  <2>1. g.type \in Acknowledgements
    <3>1. g \in Event
      BY <1>1 DEF SyncInv, ServiceInv, TypeOK, Call
    <3>. QED BY <1>5, <1>9, <3>1 DEF Event, EventTypes
  <2>2. calls'[l].events = calls[l].events /\ calls'[l].phase = "threw"
    BY <1>6, <2>1 DEF Throws
  <2>3. jobs' = jobs
    <3>1. \A e : l # <<l[1], e.cert, "error">>
      BY <1>9
    <3>. QED BY <3>1 DEF LaneThrows, LanesOf
  <2>. QED BY <1>2, <1>3, <1>6, <1>7, <1>8, <2>2, <2>3, QuietLane
<1>10. CASE l[3] = "error"
  <2>1. g.type \notin Acknowledgements
    BY <1>5, <1>10 DEF Acknowledgements, PersistedType, Synchronizable
  <2>2. calls'[l] = Idle
    BY <1>5, <1>6, <2>1 DEF Throws
  <2>3. ASSUME NEW c \in Touched(l), Reject(l, c) PROVE FALSE
    <3>1. calls[l].phase = "read"
      BY <2>3 DEF Reject, SyncInv, RolesOK
    <3>. QED BY <1>10, <2>3, <3>1 DEF FailuresAccepted, Reject
  <2>4. failures + 1 <= failures'
    BY <1>2, <1>7, <2>3
  <2>5. jobs' = jobs \/ jobs' = [jobs EXCEPT ![j] = Off]
    BY <1>1 DEF LaneThrows
  <2>. QED BY <1>2, <1>6, <1>7, <2>2, <2>4, <2>5, ErrorLaneFails
<1>. QED BY <1>1, <1>9, <1>10

\* A step of a lane.
LEMMA LaneKeepsBounds ==
  ASSUME SyncInv, FailuresAccepted, NEW j, Jobs = {j}, BoundInv(j), NEW l \in Lanes, LaneStep(l)
  PROVE  BoundInv(j)'
<1>1. CASE LaneThrows(l)
  BY <1>1, ThrowKeepsBounds
<1>2. CASE LaneProceeds(l)
  <2>1. UNCHANGED syncVars /\ jobs' = jobs /\ chain' = chain /\ l \in Processes
    BY <1>2, Roles DEF LaneProceeds, syncVars
  <2>2. calls \in [Processes -> Call] /\ calls[l] \in Call
    BY <2>1 DEF SyncInv, ServiceInv, TypeOK
  <2>3. failures \in Nat
    BY OffChainAssumption DEF SyncInv, ServiceInv, TypeOK
  <2>4. CASE \E c \in Touched(l) : Load(l, c)
    <3>1. PICK c \in Touched(l) : Load(l, c)
      BY <2>4
    <3>2. /\ log' = log /\ attempts' = attempts /\ failures' = failures
          /\ calls[l].phase \in {"validate", "read"}
          /\ calls' = [calls EXCEPT ![l].views[c] = View(l, c)]
      BY <3>1 DEF Load, tables
    <3>3. /\ Others(l) /\ calls'[l].events = calls[l].events
          /\ calls'[l].phase = calls[l].phase
      BY <2>1, <2>2, <3>2 DEF Others, Call
    <3>4. ForChain' = ForChain
      BY <3>2 DEF ForChain
    <3>. QED BY <2>1, <2>3, <3>2, <3>3, <3>4, QuietLane
  <2>5. CASE Recreate(l)
    BY <2>5 DEF Recreate, SyncInv, RolesOK
  <2>6. CASE Project(l)
    <3>1. /\ log' = log /\ attempts' = attempts /\ failures' = failures
          /\ calls[l].phase = "read"
          /\ calls' = [calls EXCEPT ![l] = [@ EXCEPT !.phase = "store"]]
      BY <2>6 DEF Project
    <3>2. /\ Others(l) /\ calls'[l].events = calls[l].events
          /\ calls'[l].phase = "store"
      BY <2>1, <2>2, <3>1 DEF Others, Call
    <3>3. ForChain' = ForChain
      BY <3>1 DEF ForChain
    <3>. QED BY <2>1, <2>3, <3>1, <3>2, <3>3, QuietLane
  <2>7. CASE Store(l)
    <3>1. \A g \in calls[l].events : g.type \notin Synchronizable
      BY DEF SyncInv, RolesOK
    <3>2. calls[l].phase = "store" /\ failures' = failures /\ log' = log \cup calls[l].events
      BY <2>7 DEF Store
    <3>3. IsReport(l)
      BY <3>1, <3>2 DEF IsReport, BoundInv, LaneOK
    <3>4. calls' = [calls EXCEPT ![l] = [@ EXCEPT !.phase = "findAttempt"]]
      BY <2>7, <3>3 DEF Store
    <3>5. /\ Others(l) /\ calls'[l].events = calls[l].events
          /\ calls'[l].phase = "findAttempt"
      BY <2>1, <2>2, <3>4 DEF Others, Call
    <3>6. ForChain' = ForChain
      BY <3>1, <3>2 DEF ForChain
    <3>7. \A e \in ForChain : attempts'[e.at] = attempts[e.at]
      <4>1. \A e \in ForChain : e.at \in DOMAIN attempts
        BY BoundNumbers
      <4>2. \A t \in DOMAIN attempts : attempts'[t] = attempts[t]
        BY <2>7, <3>1 DEF Store, ShouldBeSynchronized
      <4>. QED BY <4>1, <4>2
    <3>. QED BY <2>1, <2>3, <3>2, <3>5, <3>6, <3>7, QuietLane
  <2>8. CASE FindAttempt(l)
    BY <2>1, <2>8, FindKeepsBounds
  <2>9. CASE SaveAttempt(l)
    BY <2>1, <2>9, SaveKeepsBounds
  <2>. QED BY <1>2, <2>4, <2>5, <2>6, <2>7, <2>8, <2>9 DEF LaneProceeds, Proceed
<1>. QED BY <1>1, <1>2 DEF LaneStep

\* Nothing is executed, held or counted at the start.
LEMMA BoundsStart ==
  ASSUME NEW j, Jobs = {j}, SyncInit
  PROVE  BoundInv(j)
<1>1. log = {} /\ ForChain = {} /\ jobs[j] = Off /\ \A l \in Lanes : calls[l] = Idle
  BY Roles DEF SyncInit, Init, ForChain
<1>2. RunApart(j)
  BY <1>1, OffApart DEF RunApart
<1>. QED BY <1>1, <1>2 DEF BoundInv, LaneOK, Idle

\* Every step of the only job, of its calls and of the users.
LEMMA BoundsKept ==
  ASSUME NEW j, Jobs = {j}
  PROVE  SyncInv /\ FailuresAccepted /\ BoundInv(j) /\ [SyncNext]_allVars => BoundInv(j)'
<1> SUFFICES ASSUME SyncInv, FailuresAccepted, BoundInv(j), [SyncNext]_allVars
             PROVE  BoundInv(j)'
  OBVIOUS
<1>1. CASE UNCHANGED allVars
  <2>1. /\ log' = log /\ attempts' = attempts /\ calls' = calls /\ failures' = failures
        /\ jobs' = jobs /\ chain' = chain /\ ForChain' = ForChain
    BY <1>1 DEF allVars, syncVars, vars, tables, ForChain
  <2>2. \A l \in Lanes : LaneOK(l)'
    BY <2>1 DEF BoundInv, LaneOK
  <2>3. RunApart(j)'
    BY <2>1 DEF BoundInv, RunApart, About
  <2>4. ASSUME NEW e \in ForChain PROVE EventBounded(j, e)'
    BY <2>1, <2>4 DEF BoundInv, EventBounded, Executions, Owing, Writes, About, Unanswered
  <2>. QED BY <2>1, <2>2, <2>3, <2>4 DEF BoundInv
<1>2. CASE \E i \in Jobs : Start(i) \/ RunStep(i) \/ Crash(i)
  <2>1. (Start(j) \/ Finish(j) \/ Find(j) \/ Select(j) \/ BlockAnswered(j) \/ BlockFailed(j))
          \/ (ChainAccepts(j) \/ ChainRejects(j)) \/ Catch(j) \/ Crash(j)
    BY <1>2 DEF RunStep
  <2>2. CASE Start(j) \/ Finish(j) \/ Find(j) \/ Select(j) \/ BlockAnswered(j) \/ BlockFailed(j)
    <3>1. j \in Jobs /\ RunApart(j)
      BY DEF BoundInv
    <3>. QED BY <2>2, <3>1, RunTurns, TurnsKeepBounds
  <2>3. CASE ChainAccepts(j) \/ ChainRejects(j)
    BY <2>3, SendingKeepsBounds
  <2>4. CASE Catch(j)
    BY <2>4, CatchKeepsBounds
  <2>5. CASE Crash(j)
    BY <2>5, CrashKeepsBounds
  <2>. QED BY <2>1, <2>2, <2>3, <2>4, <2>5
<1>3. CASE \E l \in Lanes : LaneStep(l)
  BY <1>3, LaneKeepsBounds
<1>4. CASE \E p \in Users : UserStep(p)
  BY <1>4, UserKeepsBounds
<1>. QED BY <1>1, <1>2, <1>3, <1>4 DEF SyncNext

\* With one instance of the application, and as long as the aggregate refuses
\* no report of an error: an event is executed once for each of its attempts,
\* and once more for each failure at most, whatever fails or crashes in
\* between and however many users there are
\* (CertificateEventPostgres.repository.ts:111-169).
THEOREM RetriesEnd ==
  ASSUME NEW j, Jobs = {j}
  PROVE  SyncSpec /\ []FailuresAccepted => []ExecutionsBounded
<1>1. SyncInit => SyncInv /\ BoundInv(j)
  BY SyncStarts, BoundsStart
<1>2. SyncInv /\ BoundInv(j) => ExecutionsBounded
  <2> SUFFICES ASSUME SyncInv, BoundInv(j), NEW e \in log, e.type \in Synchronizable
               PROVE  Executions(e) <= Cardinality(Jobs) * MaxAttempts + failures
    BY DEF ExecutionsBounded
  <2>1. Executions(e) <= MaxAttempts + failures
    BY DEF BoundInv, EventBounded, ForChain
  <2>2. Cardinality(Jobs) = 1
    BY FS_Singleton
  <2>. QED BY <2>1, <2>2, OffChainAssumption
<1>3. SyncInv /\ [SyncNext]_allVars => SyncInv'
  BY SyncKeeps
<1>4. SyncInv /\ FailuresAccepted /\ BoundInv(j) /\ [SyncNext]_allVars => BoundInv(j)'
  BY BoundsKept
<1>. QED BY <1>1, <1>2, <1>3, <1>4, PTL DEF SyncSpec

-----------------------------------------------------------------------------
(***************************************************************************)
(* The ledger, when there is one job and calls of users that overlap touch *)
(* different certificates.                                                 *)
(***************************************************************************)

\* What is proved of a replay (any events do: the bounds are not used).
Log == INSTANCE AggregateLogProofs WITH events <- log, MaxEvents <- 0, MaxRefused <- 0

\* Events that can be put in order.
InTime(S) ==
  /\ IsFiniteSet(S)
  /\ \A e \in S : e.at \in Nat
  /\ \A e, f \in S : e.at = f.at => e = f

\* The replay there is the replay here.
LEMMA SameReplay ==
  ASSUME NEW S
  PROVE  /\ Log!Replays(S) <=> Replays(S)
         /\ Log!ToPersist(S) = ToPersist(S)
         /\ Log!Ordered(S) <=> InTime(S)
         /\ Log!Synchronizable = Synchronizable
<1>1. Log!Replays(S) = Replays(S)
  BY DEF Replays, Log!Replays, FromEvents, Log!FromEvents, ToPersist, Log!ToPersist,
       Reduce, Log!Reduce, MapThenFoldSet, Log!MapThenFoldSet, First, Log!First,
       Latest, Log!Latest, CreateCertificate, Log!CreateCertificate, Apply, Log!Apply,
       TransferIsValid, Log!TransferIsValid, ClaimIsValid, Log!ClaimIsValid,
       Transfer, Log!Transfer, Claim, Log!Claim, HasEnoughBalance, Log!HasEnoughBalance,
       BalanceOf, Log!BalanceOf, WithBalance, Log!WithBalance, Thrown, Log!Thrown,
       Cardinality, Log!Cardinality, IsFiniteSet, Log!IsFiniteSet,
       Synchronizable, Acknowledgements, PersistedType,
       Log!Synchronizable, Log!Acknowledgements, Log!PersistedType
<1>2. Log!Synchronizable = Synchronizable /\ Log!Acknowledgements = Acknowledgements
  BY DEF Synchronizable, Log!Synchronizable, Acknowledgements, Log!Acknowledgements,
       PersistedType, Log!PersistedType
<1>3. \A T : Log!Cardinality(T) = Cardinality(T)
  BY DEF Cardinality, Log!Cardinality
<1>4. Log!ToPersist(S) = ToPersist(S)
  BY <1>2, <1>3 DEF ToPersist, Log!ToPersist
<1>5. Log!IsFiniteSet(S) <=> IsFiniteSet(S)
  BY DEF IsFiniteSet, Log!IsFiniteSet
<1>6. Log!Ordered(S) <=> InTime(S)
  BY <1>5 DEF InTime, Log!Ordered
<1>. QED BY <1>1, <1>2, <1>4, <1>6

\* A log that is replayed has not too many answers.
LEMMA FewAnswers ==
  ASSUME NEW S, InTime(S), Replays(S)
  PROVE  ~(ToPersist(S) < 0)
<1>1. S # {}
  BY DEF Replays
<1>2. Log!Ordered(S) /\ Log!Replays(S)
  BY SameReplay
<1>3. ~(Log!ToPersist(S) < 0)
  BY <1>1, <1>2, Log!ReplaysWhen, CertificatesAssumption, OffChainAssumption
     DEF Log!CertificatesAssumption, Log!AggregateLogAssumption
<1>. QED BY <1>3, SameReplay

\* Answers that are not too many do not stop a replay.
LEMMA MoreAnswers ==
  ASSUME NEW W, InTime(W), NEW V \in SUBSET W, Replays(V),
         \A e \in W \ V : e.type \notin Synchronizable,
         \E e \in V : \A f \in W : e.at <= f.at,
         ~(ToPersist(W) < 0)
  PROVE  Replays(W)
<1>1. /\ Log!Ordered(W) /\ Log!Replays(V) /\ ~(Log!ToPersist(W) < 0)
      /\ \A e \in W \ V : e.type \notin Log!Synchronizable
  BY SameReplay
<1>2. Log!Replays(W)
  BY <1>1, Log!AnswersKeepReplay, CertificatesAssumption, OffChainAssumption
     DEF Log!CertificatesAssumption, Log!AggregateLogAssumption
<1>. QED BY <1>2, SameReplay

\* Movements, and reports of errors, leave no fewer to persist.
LEMMA LessAnswered ==
  ASSUME NEW W, IsFiniteSet(W), NEW V \in SUBSET W,
         \A e \in W \ V : e.type \notin Acknowledgements
  PROVE  ~(ToPersist(V) < 0) => ~(ToPersist(W) < 0)
<1> DEFINE s(X) == {e \in X : e.type \in Synchronizable}
           a(X) == {e \in X : e.type \in Acknowledgements}
<1>1. s(V) \subseteq s(W) /\ s(W) \subseteq W /\ a(W) = a(V) /\ a(W) \subseteq W
  OBVIOUS
<1>2. ToPersist(V) = Cardinality(s(V)) - Cardinality(a(V))
      /\ ToPersist(W) = Cardinality(s(W)) - Cardinality(a(W))
  BY DEF ToPersist
<1> HIDE DEF s, a
<1>3. IsFiniteSet(s(W)) /\ IsFiniteSet(a(W))
  BY <1>1, FS_Subset
<1>4. Cardinality(s(V)) <= Cardinality(s(W)) /\ IsFiniteSet(s(V))
  BY <1>1, <1>3, FS_Subset
<1>5. Cardinality(s(V)) \in Nat /\ Cardinality(s(W)) \in Nat /\ Cardinality(a(W)) \in Nat
  BY <1>3, <1>4, FS_CardinalityType
<1>. QED BY <1>1, <1>2, <1>4, <1>5

\* What the calls have read leaves the logs replayable: a user's call has
\* read all movements of its certificate that are stored, and the answer of
\* a lane is not one too many.  A lane reports on an event that came before.
UsersCurrent ==
  \A u \in Users : \A c \in CertificateIds : calls[u].views[c] # {} =>
    /\ c \in Touched(u)
    /\ \A e \in LogOf(c) \ calls[u].views[c] : e.type \notin Synchronizable
AnswersFit ==
  \A l \in Lanes :
    /\ \A c \in CertificateIds : calls[l].views[c] # {} =>
         /\ c \in Touched(l)
         /\ l[3] = "answer" => ~(ToPersist(View(l, c)) < 0)
    /\ \A g \in calls[l].events : g.payload.persistedEventId < g.at

LedgerInv == LogsReplay /\ UsersCurrent /\ AnswersFit

\* Logs, and what a call adds to them, can be put in order.
LEMMA LogsInTime ==
  ASSUME SyncInv, NEW c
  PROVE  /\ InTime(LogOf(c))
         /\ \A p \in Processes : Pending(p) => InTime(View(p, c))
<1>1. /\ IsFiniteSet(log) /\ \A e \in log : e.at \in Nat
      /\ \A e, f \in log : e.at = f.at => e = f
  BY DEF SyncInv, ServiceInv, TypeOK, Event, CountInv, TimesOK, TimesUnique
<1>2. IsFiniteSet(LogOf(c)) /\ LogOf(c) \subseteq log
  BY <1>1, FS_Subset DEF LogOf
<1>3. ASSUME NEW p \in Processes, Pending(p)
      PROVE  InTime(View(p, c))
  <2>1. /\ IsFiniteSet(calls[p].events) /\ \A e \in calls[p].events : e.at \in Nat
        /\ \A e, f \in calls[p].events : e.at = f.at => e = f
        /\ \A e \in calls[p].events, f \in log : e.at # f.at
    BY <1>3 DEF SyncInv, ServiceInv, TypeOK, Call, Event, CountInv, TimesOK, TimesUnique
  <2>2. IsFiniteSet(NewEventsOf(p, c)) /\ NewEventsOf(p, c) \subseteq calls[p].events
    BY <2>1, FS_Subset DEF NewEventsOf
  <2>3. IsFiniteSet(View(p, c)) /\ View(p, c) \subseteq log \cup calls[p].events
    BY <1>2, <2>2, FS_Union DEF View
  <2>. QED BY <1>1, <2>1, <2>3 DEF InTime
<1>. QED BY <1>1, <1>2, <1>3 DEF InTime

\* Answers are not more than movements in the log of any certificate.
LEMMA LogsHaveFewAnswers ==
  ASSUME SyncInv, LogsReplay, NEW c \in CertificateIds
  PROVE  ~(ToPersist(LogOf(c)) < 0)
<1>1. CASE LogOf(c) = {}
  <2>1. ToPersist({}) = 0
    <3>1. {e \in {} : e.type \in Synchronizable} = {} /\ {e \in {} : e.type \in Acknowledgements} = {}
      OBVIOUS
    <3>. QED BY <3>1, FS_EmptySet DEF ToPersist
  <2>. QED BY <1>1, <2>1
<1>2. CASE LogOf(c) # {}
  BY <1>2, LogsInTime, FewAnswers DEF LogsReplay
<1>. QED BY <1>1, <1>2

\* The answer of a lane fits its log when it is not one too many.
LEMMA ReportFits ==
  ASSUME SyncInv, LogsReplay, NEW l \in Lanes, LaneOK(l), Pending(l),
         NEW g \in calls[l].events, g.payload.persistedEventId < g.at,
         ~(ToPersist(View(l, g.cert)) < 0)
  PROVE  Replays(View(l, g.cert))
<1> DEFINE c == g.cert
<1>1. l \in Processes /\ g \in Event /\ g.at \in Nat /\ c \in CertificateIds
      /\ calls[l].events = {g} /\ g.type \notin Synchronizable
  BY Roles DEF SyncInv, ServiceInv, TypeOK, Call, Event, RolesOK, CallsOK
<1>2. PICK e \in ForChain : e.cert = c /\ e.at = g.payload.persistedEventId
  BY DEF LaneOK
<1>3. e \in LogOf(c) /\ e.at \in Nat /\ e.at < g.at
  BY <1>2, StoredTyped DEF ForChain, LogOf
<1>4. Replays(LogOf(c))
  BY <1>1, <1>3 DEF LogsReplay
<1>5. PICK i \in LogOf(c) : i.type = "Issued" /\ \A f \in LogOf(c) : i.at <= f.at
  BY <1>4 DEF Replays
<1>6. \A f \in View(l, c) : i.at <= f.at
  <2>1. i.at \in Nat /\ i.at <= g.at
    BY <1>1, <1>3, <1>5 DEF LogOf, SyncInv, ServiceInv, TypeOK, Event
  <2>. QED BY <1>1, <1>5, <2>1 DEF View, NewEventsOf
<1>7. LogOf(c) \in SUBSET View(l, c) /\ \A f \in View(l, c) \ LogOf(c) : f.type \notin Synchronizable
  BY <1>1 DEF View, NewEventsOf
<1>8. InTime(View(l, c))
  BY <1>1, LogsInTime
<1>. HIDE DEF c
<1>9. Replays(View(l, c))
  BY <1>4, <1>5, <1>6, <1>7, <1>8, MoreAnswers DEF c
<1>. QED BY <1>9 DEF c

\* The report of an error always fits.
LEMMA ErrorFits ==
  ASSUME SyncInv, LogsReplay, NEW l \in Lanes, LaneOK(l), Pending(l), l[3] = "error",
         NEW g \in calls[l].events, g.payload.persistedEventId < g.at
  PROVE  Replays(View(l, g.cert)) /\ ~(ToPersist(View(l, g.cert)) < 0)
<1>1. l \in Processes /\ g.cert \in CertificateIds
      /\ calls[l].events = {g} /\ g.type = "PersistError"
  BY Roles DEF SyncInv, ServiceInv, TypeOK, Call, Event, CallsOK, RolesOK, LaneOK
<1>2. "PersistError" \notin Acknowledgements
  BY DEF Acknowledgements, PersistedType, Synchronizable
<1>3. LogOf(g.cert) \in SUBSET View(l, g.cert)
      /\ \A f \in View(l, g.cert) \ LogOf(g.cert) : f.type \notin Acknowledgements
  BY <1>1, <1>2 DEF View, NewEventsOf
<1>4. IsFiniteSet(View(l, g.cert))
  BY <1>1, LogsInTime DEF InTime
<1>5. ~(ToPersist(View(l, g.cert)) < 0)
  BY <1>1, <1>3, <1>4, LessAnswered, LogsHaveFewAnswers
<1>. QED BY <1>5, ReportFits

LEMMA ErrorsAccepted ==
  ASSUME SyncInv, LedgerInv, \A l \in Lanes : LaneOK(l)
  PROVE  FailuresAccepted
<1> SUFFICES ASSUME NEW l \in Lanes, l[3] = "error", calls[l].phase = "read",
                    NEW g \in calls[l].events
             PROVE  Replays(View(l, g.cert))
  BY DEF FailuresAccepted, Touched
<1>. QED BY ErrorFits DEF Pending, LedgerInv, AnswersFit

\* A step that stores nothing, where calls keep or discard what they have
\* read, or begin to report.
LEMMA QuietLedger ==
  ASSUME SyncInv, LedgerInv, log' = log,
         \A p \in Processes :
           \/ calls'[p].views = NoViews
           \/ calls'[p].views = calls[p].views /\ calls'[p].events = calls[p].events,
         \A l \in Lanes : calls'[l].events \in {{}, calls[l].events} \/ NewReport(l)
  PROVE  LedgerInv'
<1>1. \A c : LogOf(c)' = LogOf(c)
  BY DEF LogOf
<1>2. LogsReplay'
  BY <1>1 DEF LedgerInv, LogsReplay
<1>3. UsersCurrent'
  BY <1>1, Roles DEF LedgerInv, UsersCurrent, NoViews, Touched
<1>4. ASSUME NEW l \in Lanes, NEW c \in CertificateIds, calls'[l].views[c] # {}
      PROVE  c \in Touched(l)' /\ (l[3] = "answer" => ~(ToPersist(View(l, c)') < 0))
  <2>1. calls'[l].views = calls[l].views /\ calls'[l].events = calls[l].events
    BY <1>4, Roles DEF NoViews
  <2>2. View(l, c)' = View(l, c) /\ Touched(l)' = Touched(l)
    BY <1>1, <2>1 DEF View, NewEventsOf, Touched
  <2>. QED BY <1>4, <2>1, <2>2 DEF LedgerInv, AnswersFit
<1>5. ASSUME NEW l \in Lanes, NEW g \in calls'[l].events
      PROVE  g.payload.persistedEventId < g.at
  <2>1. CASE calls'[l].events \in {{}, calls[l].events}
    BY <1>5, <2>1 DEF LedgerInv, AnswersFit
  <2>2. CASE NewReport(l)
    <3>1. g.payload.persistedEventId \in DOMAIN attempts /\ clock < g.at /\ g \in Event
      BY <1>5, <2>2 DEF NewReport
    <3>2. PICK e \in log : e.at = g.payload.persistedEventId
      BY <3>1 DEF SyncInv, ServiceInv, CountInv, AttemptRows
    <3>3. e.at <= clock /\ e.at \in Nat /\ clock \in Nat /\ g.at \in Nat
      BY <3>1 DEF SyncInv, ServiceInv, CountInv, TimesOK, TypeOK, Event
    <3>. QED BY <3>1, <3>2, <3>3
  <2>. QED BY <2>1, <2>2
<1>. QED BY <1>2, <1>3, <1>4, <1>5 DEF LedgerInv, AnswersFit

\* A call reads the log of a certificate.
LEMMA LoadLedger ==
  ASSUME SyncInv, LedgerInv, NEW p \in Processes, NEW c \in Touched(p), Load(p, c)
  PROVE  LedgerInv'
<1>1. /\ log' = log /\ Pending(p) /\ Replays(View(p, c)) /\ calls \in [Processes -> Call]
      /\ calls' = [calls EXCEPT ![p].views[c] = View(p, c)]
  BY DEF Load, tables, Pending, SyncInv, ServiceInv, TypeOK
<1>2. /\ \A q \in Processes : calls'[q].events = calls[q].events
      /\ \A q \in Processes, d \in CertificateIds :
           calls'[q].views[d] = calls[q].views[d] \/ (q = p /\ d = c)
      /\ c \in CertificateIds => calls'[p].views[c] = View(p, c)
  BY <1>1 DEF Call
<1>3. \A d : LogOf(d)' = LogOf(d)
  BY <1>1 DEF LogOf
<1>4. \A q \in Processes : Touched(q)' = Touched(q) /\ \A d : View(q, d)' = View(q, d)
  BY <1>2, <1>3 DEF Touched, View, NewEventsOf
<1>5. ~(ToPersist(View(p, c)) < 0)
  BY <1>1, LogsInTime, FewAnswers
<1>6. LogsReplay'
  BY <1>3 DEF LedgerInv, LogsReplay
<1>7. UsersCurrent'
  <2> SUFFICES ASSUME NEW u \in Users, NEW d \in CertificateIds, calls'[u].views[d] # {}
               PROVE  d \in Touched(u) /\ \A e \in LogOf(d) \ calls'[u].views[d] : e.type \notin Synchronizable
    BY <1>3, <1>4, Roles DEF UsersCurrent
  <2>1. CASE calls'[u].views[d] = calls[u].views[d]
    BY <2>1 DEF LedgerInv, UsersCurrent
  <2>2. CASE u = p /\ d = c
    BY <1>2, <2>2 DEF View
  <2>. QED BY <1>2, <2>1, <2>2, Roles
<1>8. ASSUME NEW l \in Lanes, NEW d \in CertificateIds, calls'[l].views[d] # {}
      PROVE  d \in Touched(l) /\ (l[3] = "answer" => ~(ToPersist(View(l, d)) < 0))
  <2>1. CASE calls'[l].views[d] = calls[l].views[d]
    BY <1>8, <2>1 DEF LedgerInv, AnswersFit
  <2>2. CASE l = p /\ d = c
    BY <1>5, <2>2
  <2>. QED BY <1>2, <2>1, <2>2, Roles
<1>9. AnswersFit'
  <2>1. \A l \in Lanes : l \in Processes
    BY Roles
  <2>2. \A l \in Lanes : \A g \in calls'[l].events : g.payload.persistedEventId < g.at
    BY <1>2, <2>1 DEF LedgerInv, AnswersFit
  <2>3. \A l \in Lanes, d \in CertificateIds : View(l, d)' = View(l, d) /\ Touched(l)' = Touched(l)
    BY <1>4, <2>1
  <2>. QED BY <1>8, <2>2, <2>3 DEF AnswersFit
<1>. QED BY <1>6, <1>7, <1>9 DEF LedgerInv

\* A user stores its events: it has read all movements of their certificates
\* that are stored, because nobody else moves them meanwhile.
LEMMA UserStoresLedger ==
  ASSUME SyncInv, SyncInv', LedgerInv, NoOverlap, NEW u \in Users, Store(u), Others(u)
  PROVE  LedgerInv'
<1>1. /\ u \in Processes /\ calls[u].phase = "store" /\ Pending(u) /\ AllLoaded(u)
      /\ log' = log \cup calls[u].events
      /\ \A g \in calls[u].events : g.type \in Synchronizable /\ g.type \notin Acknowledgements
  BY Roles DEF Store, Pending, SyncInv, ServiceInv, ViewsOK, RolesOK, Acknowledgements,
     PersistedType, Synchronizable
<1>2. calls'[u] = Idle
  BY <1>1 DEF Store, IsReport, SyncInv, ServiceInv, TypeOK
<1>3. \A q \in Processes : q # u => calls'[q] = calls[q]
  BY DEF Others
<1>4. \A c : LogOf(c)' = View(u, c)
  BY <1>1 DEF LogOf, View, NewEventsOf
<1>5. \A c : c \notin Touched(u) => LogOf(c)' = LogOf(c)
  BY <1>4 DEF View, NewEventsOf, Touched
<1>6. ASSUME NEW c \in CertificateIds
      PROVE  ~(ToPersist(View(u, c)) < 0)
  <2>1. LogOf(c) \in SUBSET View(u, c)
        /\ \A e \in View(u, c) \ LogOf(c) : e.type \notin Acknowledgements
    BY <1>1 DEF View, NewEventsOf
  <2>2. IsFiniteSet(View(u, c))
    BY <1>1, LogsInTime DEF InTime
  <2>. QED BY <2>1, <2>2, LessAnswered, LogsHaveFewAnswers DEF LedgerInv
<1>7. ASSUME NEW c \in Touched(u) PROVE Replays(View(u, c))
  <2> DEFINE V == calls[u].views[c]
             W == View(u, c)
  <2>1. c \in CertificateIds
    BY <1>1 DEF Touched, SyncInv, ServiceInv, TypeOK, Call, Event
  <2>2. V # {}
    BY <1>1 DEF AllLoaded
  <2>3. Replays(V) /\ V \subseteq W /\ NewEventsOf(u, c) \subseteq V
    BY <1>1, <2>1, <2>2 DEF SyncInv, ServiceInv, ViewsOK, View, LogOf, NewEventsOf
  <2>4. \A e \in W \ V : e.type \notin Synchronizable
    BY <2>1, <2>2, <2>3 DEF LedgerInv, UsersCurrent, View
  <2>5. PICK i \in V : i.type = "Issued"
    BY <2>3 DEF Replays
  <2>6. \A f \in W : i.at <= f.at
    <3>1. i \in log' /\ i.cert = c /\ i \in LogOf(c)'
      BY <1>4, <2>3, <2>5 DEF LogOf
    <3>2. ASSUME NEW f \in W PROVE i.at <= f.at
      <4>1. f \in log' /\ f.cert = c
        BY <1>4, <3>2 DEF LogOf
      <4>2. \E k \in LogOf(c)' : /\ k.at <= f.at
                                 /\ \A m \in LogOf(c)' : m.type = "Issued" => m = k
        BY <4>1 DEF SyncInv, ServiceInv, IssuanceFirst
      <4>. QED BY <2>5, <3>1, <4>2
    <3>. QED BY <3>2
  <2>7. InTime(W) /\ ~(ToPersist(W) < 0)
    BY <1>1, <1>6, <2>1, LogsInTime
  <2>. HIDE DEF V, W
  <2>8. Replays(W)
    BY <2>3, <2>4, <2>5, <2>6, <2>7, MoreAnswers
  <2>. QED BY <2>8 DEF W
<1>8. LogsReplay'
  BY <1>4, <1>5, <1>7 DEF LedgerInv, LogsReplay
<1>9. UsersCurrent'
  <2> SUFFICES ASSUME NEW v \in Users, NEW c \in CertificateIds, calls'[v].views[c] # {}
               PROVE  /\ c \in Touched(v)'
                      /\ \A e \in LogOf(c)' \ calls'[v].views[c] : e.type \notin Synchronizable
    BY DEF UsersCurrent
  <2>1. v # u /\ calls'[v] = calls[v]
    BY <1>2, <1>3, Roles DEF Idle, NoViews
  <2>2. c \in Touched(v) /\ c \notin Touched(u)
    BY <2>1 DEF LedgerInv, UsersCurrent, NoOverlap
  <2>. QED BY <1>5, <2>1, <2>2 DEF LedgerInv, UsersCurrent, Touched
<1>10. AnswersFit'
  <2>1. \A l \in Lanes : l \in Processes /\ calls'[l] = calls[l]
    BY <1>3, Roles
  <2>2. ASSUME NEW l \in Lanes, NEW c \in CertificateIds, calls'[l].views[c] # {}
        PROVE  c \in Touched(l)' /\ (l[3] = "answer" => ~(ToPersist(View(l, c)') < 0))
    <3>1. calls'[l] = calls[l] /\ c \in Touched(l) /\ l \in Processes
          /\ (l[3] = "answer" => ~(ToPersist(View(l, c)) < 0))
      BY <2>1, <2>2 DEF LedgerInv, AnswersFit
    <3>2. View(l, c)' = View(l, c) \cup NewEventsOf(u, c)
      BY <1>4, <3>1 DEF View, NewEventsOf
    <3>3. IsFiniteSet(View(l, c)')
      <4>1. IsFiniteSet(log') /\ IsFiniteSet(calls'[l].events)
        BY <3>1 DEF SyncInv, ServiceInv, CountInv, TimesOK
      <4>2. View(l, c)' \subseteq log' \cup calls'[l].events
        BY <3>1 DEF View, LogOf, NewEventsOf
      <4>. QED BY <4>1, <4>2, FS_Union, FS_Subset
    <3>4. View(l, c) \in SUBSET View(l, c)'
          /\ \A e \in View(l, c)' \ View(l, c) : e.type \notin Acknowledgements
      BY <1>1, <3>2 DEF NewEventsOf
    <3>5. \A W, V : /\ W = View(l, c)' /\ V = View(l, c) /\ ~(ToPersist(V) < 0)
                    => ~(ToPersist(W) < 0)
      BY <3>3, <3>4, LessAnswered
    <3>6. Touched(l)' = Touched(l)
      BY <3>1 DEF Touched
    <3>. QED BY <3>1, <3>5, <3>6 DEF ToPersist
  <2>. QED BY <2>1, <2>2 DEF LedgerInv, AnswersFit
<1>. QED BY <1>8, <1>9, <1>10 DEF LedgerInv

\* A lane stores its answer.  The other lane of the certificate may hold the
\* report of an error, but not an answer of its own.
LEMMA LaneStoresLedger ==
  ASSUME SyncInv, LedgerInv, NEW j, Jobs = {j}, \A l \in Lanes : LaneOK(l),
         NEW k \in Lanes, Store(k), Others(k)
  PROVE  LedgerInv'
<1>1. /\ k \in Processes /\ calls[k].phase = "store" /\ Pending(k) /\ AllLoaded(k)
      /\ log' = log \cup calls[k].events /\ calls \in [Processes -> Call]
  BY Roles DEF Store, Pending, SyncInv, ServiceInv, ViewsOK, TypeOK
<1>2. PICK g \in calls[k].events : TRUE
  BY <1>1 DEF LaneOK
<1>3. /\ calls[k].events = {g} /\ g \in Event /\ g.type \notin Synchronizable
      /\ g.cert = k[2] /\ g.payload.persistedEventId < g.at
      /\ g.type = "PersistError" <=> k[3] = "error"
  BY <1>1 DEF SyncInv, ServiceInv, CallsOK, RolesOK, TypeOK, Call, LaneOK, LedgerInv, AnswersFit
<1>4. calls'[k].events = calls[k].events /\ calls'[k].views = calls[k].views
  <2>1. IsReport(k)
    BY <1>2, <1>3 DEF IsReport
  <2>2. calls' = [calls EXCEPT ![k] = [@ EXCEPT !.phase = "findAttempt"]]
    BY <2>1 DEF Store
  <2>. QED BY <1>1, <2>2 DEF Call
<1>5. \A l \in Lanes : /\ l \in Processes
                       /\ calls'[l].events = calls[l].events
                       /\ calls'[l].views = calls[l].views
  BY <1>4, Roles DEF Others
<1>6. \A c : LogOf(c)' = IF c = g.cert THEN LogOf(c) \cup {g} ELSE LogOf(c)
  BY <1>1, <1>3 DEF LogOf
<1>7. View(k, g.cert) = LogOf(g.cert) \cup {g} /\ g.cert \in CertificateIds
  BY <1>3 DEF View, NewEventsOf, Event
<1>8. ~(ToPersist(View(k, g.cert)) < 0)
  <2>1. CASE k[3] = "error"
    BY <1>1, <1>2, <1>3, <2>1, ErrorFits DEF LedgerInv
  <2>2. CASE k[3] = "answer"
    <3>1. calls[k].views[g.cert] # {}
      BY <1>1, <1>2 DEF AllLoaded, Touched
    <3>. QED BY <1>7, <2>2, <3>1 DEF LedgerInv, AnswersFit
  <2>. QED BY <2>1, <2>2 DEF Lanes
<1>9. LogsReplay'
  <2>1. Replays(View(k, g.cert))
    BY <1>1, <1>2, <1>3, <1>8, ReportFits DEF LedgerInv
  <2>. QED BY <1>6, <1>7, <2>1 DEF LedgerInv, LogsReplay
<1>10. UsersCurrent'
  <2> SUFFICES ASSUME NEW u \in Users, NEW c \in CertificateIds, calls'[u].views[c] # {}
               PROVE  /\ c \in Touched(u)'
                      /\ \A e \in LogOf(c)' \ calls'[u].views[c] : e.type \notin Synchronizable
    BY DEF UsersCurrent
  <2>1. calls'[u] = calls[u]
    BY Roles DEF Others
  <2>. QED BY <1>3, <1>6, <2>1 DEF LedgerInv, UsersCurrent, Touched
<1>11. ASSUME NEW l \in Lanes, NEW c \in CertificateIds, calls'[l].views[c] # {}
       PROVE  c \in Touched(l)' /\ (l[3] = "answer" => ~(ToPersist(View(l, c)') < 0))
  <2>1. /\ calls'[l].events = calls[l].events /\ calls'[l].views = calls[l].views
        /\ c \in Touched(l) /\ Touched(l)' = Touched(l)
        /\ l[3] = "answer" => ~(ToPersist(View(l, c)) < 0)
    BY <1>5, <1>11 DEF LedgerInv, AnswersFit, Touched
  <2>2. c = l[2]
    BY <2>1 DEF Touched, LaneOK
  <2>3. CASE c # g.cert
    <3>1. View(l, c)' = View(l, c)
      BY <1>6, <2>1, <2>3 DEF View, NewEventsOf
    <3>. QED BY <2>1, <3>1
  <2>4. CASE l = k
    <3>1. View(l, c)' = View(l, c)
      BY <1>3, <1>6, <2>1, <2>4 DEF View, NewEventsOf
    <3>. QED BY <2>1, <3>1
  <2>5. CASE c = g.cert /\ l # k
    <3> SUFFICES ASSUME l[3] = "answer" PROVE ~(ToPersist(View(l, c)') < 0)
      BY <2>1
    <3>1. k[3] = "error"
      <4>1. l = <<j, c, "answer">>
        BY <2>2 DEF Lanes
      <4>2. k = <<j, c, k[3]>> /\ k[3] \in {"answer", "error"}
        BY <1>3, <2>5 DEF Lanes
      <4>. QED BY <2>5, <4>1, <4>2
    <3>2. g.type \notin Acknowledgements
      BY <1>3, <3>1 DEF Acknowledgements, PersistedType, Synchronizable
    <3>3. View(l, c)' = View(l, c) \cup {g}
      BY <1>6, <2>1, <2>5 DEF View, NewEventsOf
    <3>4. IsFiniteSet(View(l, c)')
      <4>1. IsFiniteSet(log) /\ IsFiniteSet(calls[l].events)
        BY <1>5 DEF SyncInv, ServiceInv, CountInv, TimesOK
      <4>2. View(l, c) \subseteq log \cup calls[l].events
        BY DEF View, LogOf, NewEventsOf
      <4>3. IsFiniteSet(View(l, c))
        BY <4>1, <4>2, FS_Union, FS_Subset
      <4>. QED BY <3>3, <4>3, FS_AddElement
    <3>5. View(l, c) \in SUBSET View(l, c)'
          /\ \A e \in View(l, c)' \ View(l, c) : e.type \notin Acknowledgements
      BY <3>2, <3>3
    <3>6. \A W, V : /\ W = View(l, c)' /\ V = View(l, c) /\ ~(ToPersist(V) < 0)
                    => ~(ToPersist(W) < 0)
      BY <3>4, <3>5, LessAnswered
    <3>. QED BY <2>1, <3>6 DEF ToPersist
  <2>. QED BY <2>3, <2>4, <2>5
<1>12. AnswersFit'
  <2>1. \A l \in Lanes : \A h \in calls'[l].events : h.payload.persistedEventId < h.at
    BY <1>5 DEF LedgerInv, AnswersFit
  <2>. QED BY <1>11, <2>1 DEF AnswersFit
<1>. QED BY <1>9, <1>10, <1>12 DEF LedgerInv

\* Nothing has been read or stored at the start.
LEMMA LedgerStarts ==
  ASSUME SyncInit
  PROVE  LedgerInv
<1>1. log = {} /\ calls = [p \in Processes |-> Idle]
  BY DEF SyncInit, Init
<1>. QED BY <1>1, Roles DEF LedgerInv, LogsReplay, UsersCurrent, AnswersFit, LogOf, Idle, NoViews

\* Every step keeps the logs replayable when the calls of users that are in
\* progress touch different certificates.
LEMMA LedgerKept ==
  ASSUME NEW j, Jobs = {j}
  PROVE  /\ SyncInv /\ LedgerInv /\ NoOverlap /\ (\A l \in Lanes : LaneOK(l))
         /\ [SyncNext]_allVars
         => LedgerInv'
<1> SUFFICES ASSUME SyncInv, LedgerInv, NoOverlap, \A l \in Lanes : LaneOK(l),
                    [SyncNext]_allVars
             PROVE  LedgerInv'
  OBVIOUS
<1>0. SyncInv' /\ calls \in [Processes -> Call]
  BY SyncKeeps DEF SyncInv, ServiceInv, TypeOK
<1>1. ASSUME log' = log, calls' = calls
      PROVE  LedgerInv'
  BY <1>1, QuietLedger
<1>2. CASE UNCHANGED allVars
  BY <1>1, <1>2 DEF allVars, vars
<1>3. ASSUME NEW i \in Jobs, RunMoves(i)
      PROVE  LedgerInv'
  BY <1>1, <1>3 DEF RunMoves, vars
<1>4. ASSUME Replaced
      PROVE  LedgerInv'
  <2>1. log' = log
    BY <1>4 DEF Replaced
  <2>2. \A p \in Processes :
          \/ calls'[p].views = NoViews
          \/ calls'[p].views = calls[p].views /\ calls'[p].events = calls[p].events
    BY <1>4 DEF Replaced, Idle, NewReport
  <2>3. \A l \in Lanes : calls'[l].events \in {{}, calls[l].events} \/ NewReport(l)
    BY <1>4, Roles DEF Replaced, Idle
  <2>. QED BY <2>1, <2>2, <2>3, QuietLedger
<1>5. ASSUME NEW i \in Jobs, Crash(i)
      PROVE  LedgerInv'
  BY <1>4, <1>5, CrashReplaces DEF SyncInv
<1>6. ASSUME NEW i \in Jobs, NEW block \in SUBSET ForChain, NEW kind \in {"answer", "error"},
             Reporting(i, block, kind)
      PROVE  LedgerInv'
  BY <1>4, <1>6, ReportsBegin DEF Reporting, SyncInv
<1>7. ASSUME NEW i \in Jobs, Start(i) \/ RunStep(i) \/ Crash(i)
      PROVE  LedgerInv'
  BY <1>3, <1>5, <1>6, <1>7, OffMoves, FindMoves, SelectMoves, BlockMoves, ReportingSteps
     DEF RunStep
<1>8. ASSUME NEW p \in Processes, CallStep(p), log' = log,
             \/ calls'[p].views = NoViews
             \/ calls'[p].views = calls[p].views /\ calls'[p].events = calls[p].events
      PROVE  LedgerInv'
  <2>1. \A q \in Processes :
          \/ calls'[q].views = NoViews
          \/ calls'[q].views = calls[q].views /\ calls'[q].events = calls[q].events
    BY <1>8 DEF CallStep, Others
  <2>2. \A l \in Lanes : calls'[l].events \in {{}, calls[l].events}
    <3>1. \A l \in Lanes : l \in Processes /\ l \notin Users
      BY Roles
    <3>2. CASE Begins(p)
      BY <1>8, <3>1, <3>2 DEF Begins, CallStep, Others
    <3>3. CASE GoesOn(p)
      BY <1>8, <3>1, <3>3 DEF GoesOn, CallStep, Others
    <3>4. CASE Store(p)
      <4>1. calls'[p].events \in {{}, calls[p].events}
        BY <1>0, <3>4 DEF Store, Call, Idle
      <4>. QED BY <1>8, <3>1, <4>1 DEF CallStep, Others
    <3>5. CASE SaveAttempt(p)
      <4>1. calls'[p].events = {}
        BY <1>0, <3>5 DEF SaveAttempt, Idle
      <4>. QED BY <1>8, <3>1, <4>1 DEF CallStep, Others
    <3>6. CASE Throws(p)
      <4>1. calls'[p].events \in {{}, calls[p].events}
        BY <3>6 DEF Throws, Idle
      <4>. QED BY <1>8, <3>1, <4>1 DEF CallStep, Others
    <3>. QED BY <1>8, <3>2, <3>3, <3>4, <3>5, <3>6 DEF CallStep
  <2>. QED BY <1>8, <2>1, <2>2, QuietLedger
<1>9. ASSUME NEW p \in Processes, CallStep(p), Proceed(p)
      PROVE  LedgerInv'
  <2>1. CASE \E c \in Touched(p) : Load(p, c)
    BY <2>1, LoadLedger
  <2>2. CASE Recreate(p)
    <3>1. calls'[p].views = NoViews /\ log' = log
      BY <1>0, <2>2 DEF Recreate, Call, tables
    <3>. QED BY <1>8, <1>9, <3>1
  <2>3. CASE Project(p)
    <3>1. calls'[p].views = calls[p].views /\ calls'[p].events = calls[p].events /\ log' = log
      BY <1>0, <2>3 DEF Project, Call
    <3>. QED BY <1>8, <1>9, <3>1
  <2>4. CASE Store(p)
    BY <1>0, <1>9, <2>4, Roles, UserStoresLedger, LaneStoresLedger DEF CallStep
  <2>5. CASE FindAttempt(p)
    <3>1. calls'[p].views = calls[p].views /\ calls'[p].events = calls[p].events /\ log' = log
      BY <1>0, <2>5 DEF FindAttempt, Call, tables
    <3>. QED BY <1>8, <1>9, <3>1
  <2>6. CASE SaveAttempt(p)
    <3>1. calls'[p].views = NoViews /\ log' = log
      BY <1>0, <2>6 DEF SaveAttempt, Idle
    <3>. QED BY <1>8, <1>9, <3>1
  <2>. QED BY <1>9, <2>1, <2>2, <2>3, <2>4, <2>5, <2>6 DEF Proceed
<1>10. ASSUME NEW p \in Processes, CallStep(p), log' = log, Throw(p)
       PROVE  LedgerInv'
  <2>1. calls'[p].views = NoViews
    BY <1>10, ThrowResult DEF SyncInv, ServiceInv
  <2>. QED BY <1>8, <1>10, <2>1
<1>11. ASSUME NEW l \in Lanes, LaneStep(l)
       PROVE  LedgerInv'
  <2>1. l \in Processes /\ CallStep(l)
    BY <1>11, Roles, CallStepsAre
  <2>2. Proceed(l) \/ (log' = log /\ Throw(l))
    BY <1>11 DEF LaneStep, LaneProceeds, LaneThrows, Reject, Fail, tables
  <2>. QED BY <1>9, <1>10, <2>1, <2>2
<1>12. ASSUME NEW p \in Users, UserStep(p)
       PROVE  LedgerInv'
  <2>1. p \in Processes /\ CallStep(p)
    BY <1>12, Roles, CallStepsAre
  <2>2. CASE Issue(p) \/ Move(p) \/ MoveBatch(p)
    <3>1. log' = log /\ \E cs, phase : Begin(p, cs, phase)
      BY <2>2 DEF Issue, Move, MoveBatch
    <3>2. calls'[p].views = NoViews
      BY <1>0, <2>1, <3>1 DEF Begin, Idle
    <3>. QED BY <1>8, <2>1, <3>1, <3>2
  <2>3. CASE Proceed(p)
    BY <1>9, <2>1, <2>3
  <2>4. CASE \E c \in Touched(p) : Reject(p, c)
    BY <1>10, <2>1, <2>4 DEF Reject, tables
  <2>. QED BY <1>12, <2>2, <2>3, <2>4 DEF UserStep
<1>. QED BY <1>2, <1>7, <1>11, <1>12 DEF SyncNext

\* What the ledger and the number of executions need of each other.
LEMMA OneJobKeeps ==
  ASSUME NEW j, Jobs = {j}
  PROVE  /\ SyncInit => SyncInv /\ LedgerInv /\ BoundInv(j)
         /\ SyncInv /\ LedgerInv /\ BoundInv(j) => LogsReplay /\ FailuresAccepted
         /\ SyncInv /\ LedgerInv /\ BoundInv(j) /\ NoOverlap /\ [SyncNext]_allVars
              => SyncInv' /\ LedgerInv' /\ BoundInv(j)'
<1>1. SyncInv /\ LedgerInv /\ BoundInv(j) => LogsReplay /\ FailuresAccepted
  BY ErrorsAccepted DEF LedgerInv, BoundInv
<1>. QED BY <1>1, SyncStarts, LedgerStarts, BoundsStart, SyncKeeps, LedgerKept, BoundsKept
         DEF BoundInv

\* With one instance of the application, and as long as calls of users that
\* overlap touch different certificates, every log of the event table can be
\* replayed, however late and however often the synchronization reports: an
\* answer is not one too many for the aggregate
\* (offchain-certificate.service.ts:281-311, certificate.aggregate.ts).
THEOREM LedgerReplays ==
  ASSUME NEW j, Jobs = {j}
  PROVE  SyncSpec /\ []NoOverlap => []LogsReplay
BY OneJobKeeps, PTL DEF SyncSpec

\* Then a failure can always be recorded: the aggregate refuses no report of
\* an error.
THEOREM ErrorsAreRecorded ==
  ASSUME NEW j, Jobs = {j}
  PROVE  SyncSpec /\ []NoOverlap => []FailuresAccepted
BY OneJobKeeps, PTL DEF SyncSpec

\* And retries end: an event is executed once for each of its attempts, and
\* once more for each failure at most.
COROLLARY RetriesEndApart ==
  ASSUME NEW j, Jobs = {j}
  PROVE  SyncSpec /\ []NoOverlap => []ExecutionsBounded
BY ErrorsAreRecorded, RetriesEnd, PTL

\* For one user and one instance, without a condition.
COROLLARY OneUserOneJob ==
  ASSUME \A u, v \in Users : u = v, NEW j, Jobs = {j}
  PROVE  SyncSpec => []LogsReplay /\ []FailuresAccepted /\ []ExecutionsBounded
<1>1. NoOverlap
  BY DEF NoOverlap
<1>. QED BY <1>1, LedgerReplays, ErrorsAreRecorded, RetriesEndApart, PTL
===============================================================================
