---------------------------- MODULE BlockchainSync ----------------------------
(***************************************************************************)
(* The synchronization of the off-chain certificates with the chain        *)
(* (offchain-certificate/synchronize): the task, its batch strategy and    *)
(* the three handlers, composed with the service they report to.           *)
(*                                                                         *)
(* A job is the task in one instance of the application.  In each of its   *)
(* rounds it takes the events to process, pops the first event of each     *)
(* certificate, and sends the issuances, the transfers and the claims      *)
(* among them to the chain in blocks.  What the chain says of a block is   *)
(* reported by one call of the service per event, all at the same time:    *)
(* each such call is a process of OffChainCertificate, a lane <<job,       *)
(* certificate, kind>> where the kind is "answer" or "error".              *)
(***************************************************************************)
EXTENDS OffChainCertificate

CONSTANTS
  Jobs,         \* instances of the application
  BlockSize,    \* issueBatchSize, transferBatchSize, claimBatchSize
  Limit,        \* events that a round takes: 500 in the code
  MaxRounds,    \* rounds of a run: 50 in the code
  MaxSubmitted  \* bound: users begin calls only up to this many commands

Lanes == Jobs \X CertificateIds \X {"answer", "error"}

ASSUME SyncAssumption ==
  /\ Synchronizers = Lanes
  /\ Users \cap Lanes = {}
  /\ BlockSize \in Nat \ {0}
  /\ Limit \in Nat \ {0}
  /\ MaxRounds \in Nat
  /\ MaxSubmitted \in Nat

VARIABLES
  jobs,   \* the run of each job
  chain   \* how often the chain has executed an event, by event

syncVars == <<jobs, chain>>
allVars  == <<vars, syncVars>>

\* A run: its round, the events it still has to pop, those it popped and has
\* not looked at, those of one type that are not sent, and the block that is.
Off == [phase |-> "off", round |-> 0, queue |-> {}, batch |-> {}, todo |-> {}, block |-> {}]

SyncInit ==
  /\ Init
  /\ jobs = [j \in Jobs |-> Off]
  /\ chain = <<>>

-----------------------------------------------------------------------------
(* The queue of a run *)

\* The limit of findAllToProcess, whose result is ordered by createdAt.
Taken == {e \in ToProcess : Cardinality({f \in ToProcess : f.at < e.at}) < Limit}

\* popBatch
FirstOfEach(queue) == {e \in queue : \A f \in queue : f.cert = e.cert => e.at <= f.at}

\* What a run does between two awaits: it takes the next block of the type
\* it is at, the next type, the next batch or the next round.
Continue(run) ==
  CASE run.todo # {} -> [run EXCEPT !.phase = "send"]
    [] run.todo = {} /\ run.batch # {} -> [run EXCEPT !.phase = "select"]
    [] run.todo = {} /\ run.batch = {} /\ run.queue # {} ->
         [run EXCEPT !.phase = "select", !.batch = FirstOfEach(run.queue),
                     !.queue = @ \ FirstOfEach(run.queue)]
    [] OTHER -> [run EXCEPT !.phase = "find", !.round = @ + 1]

\* chunk: blocks are cut in the order of the certificates' ids.
FirstBlock(todo) == {e \in todo : Cardinality({f \in todo : f.cert < e.cert}) < BlockSize}

HasBlockchainId(c) == \E e \in LogOf(c) : e.type = "IssuancePersisted"

NextType(batch) ==
  LET types == {e.type : e \in batch}
  IN  CASE "Issued" \in types -> "Issued"
        [] "Issued" \notin types /\ "Transferred" \in types -> "Transferred"
        [] OTHER -> "Claimed"

-----------------------------------------------------------------------------
(* The calls that report on a block *)

LanesOf(j, block, kind) == {<<j, e.cert, kind>> : e \in block}

\* Promise.all begins one call for each event of the block.  A lane may hold
\* a call that threw when nobody was waiting for it any more.
BeginReports(j, block, kind) ==
  LET Lane(e)   == <<j, e.cert, kind>>
      Rank(e)   == Cardinality({f \in block : f.cert <= e.cert})
      Answer(e) == [type |-> IF kind = "answer" THEN PersistedType[e.type] ELSE "PersistError",
                    cert |-> e.cert, payload |-> [persistedEventId |-> e.at],
                    at |-> clock + Rank(e), cmd |-> commands + Rank(e)]
      Begun(e)  == [Idle EXCEPT !.phase = "read", !.start = clock + Rank(e) - 1, !.size = 1,
                                !.events = {Answer(e)}]
  IN  /\ \A e \in block : calls[Lane(e)].phase \in {"idle", "threw"}
      /\ commands + Cardinality(block) <= MaxCommands
      /\ commands' = commands + Cardinality(block)
      /\ clock' = clock + Cardinality(block)
      /\ calls' = [p \in Processes |->
                     IF \E e \in block : p = Lane(e)
                     THEN Begun(CHOOSE e \in block : p = Lane(e)) ELSE calls[p]]
      /\ UNCHANGED <<lastId, tables>>

Executions(e) == IF e.at \in DOMAIN chain THEN chain[e.at] ELSE 0

Execute(block) ==
  LET ids == {e.at : e \in block}
  IN  chain' = [t \in DOMAIN chain \cup ids |->
                  (IF t \in DOMAIN chain THEN chain[t] ELSE 0) + (IF t \in ids THEN 1 ELSE 0)]

-----------------------------------------------------------------------------
(* The task *)

\* The application asks for a synchronization, or the queue reruns a job.
Start(j) ==
  /\ jobs[j].phase = "off"
  /\ jobs' = [jobs EXCEPT ![j].phase = "find"]
  /\ UNCHANGED <<vars, chain>>

Find(j) ==
  /\ jobs[j].phase = "find"
  /\ jobs[j].round < MaxRounds
  /\ ToProcess # {}
  /\ jobs' = [jobs EXCEPT ![j] = Continue([@ EXCEPT !.queue = Taken])]
  /\ UNCHANGED <<vars, chain>>

FinishWhenEmpty(j) ==  \* mutant: the last round does not end the run
  /\ jobs[j].phase = "find"
  /\ ToProcess = {}
  /\ jobs' = [jobs EXCEPT ![j] = Off]
  /\ UNCHANGED <<vars, chain>>

Finish(j) ==
  /\ jobs[j].phase = "find"
  /\ jobs[j].round = MaxRounds \/ ToProcess = {}
  /\ jobs' = [jobs EXCEPT ![j] = Off]
  /\ UNCHANGED <<vars, chain>>

\* The events of the next type go to their handler; transfers and claims of
\* certificates without a blockchain id are dropped.
Select(j) ==
  /\ jobs[j].phase = "select"
  /\ LET type == NextType(jobs[j].batch)
         same == {e \in jobs[j].batch : e.type = type}
     IN  jobs' = [jobs EXCEPT ![j] =
           Continue([@ EXCEPT
             !.batch = jobs[j].batch \ same,
             !.todo = {e \in same : type = "Issued" \/ HasBlockchainId(e.cert)}])]
  /\ UNCHANGED <<vars, chain>>

Sent(j, phase) ==
  LET block == FirstBlock(jobs[j].todo)
  IN  [jobs EXCEPT ![j] = [@ EXCEPT !.phase = phase, !.block = block,
                                    !.todo = jobs[j].todo \ block]]

\* The chain executes the block and the service returns.
ChainAccepts(j) ==
  /\ jobs[j].phase = "send"
  /\ BeginReports(j, FirstBlock(jobs[j].todo), "answer")
  /\ Execute(FirstBlock(jobs[j].todo))
  /\ jobs' = Sent(j, "answers")
  /\ UNCHANGED failures

ChainRejectsAnswered(j) ==  \* mutant: what the chain refused is reported as persisted
  /\ jobs[j].phase = "send"
  /\ failures < MaxFailures
  /\ failures' = failures + 1
  /\ BeginReports(j, FirstBlock(jobs[j].todo), "answer")
  /\ Execute(FirstBlock(jobs[j].todo)) \/ UNCHANGED chain
  /\ jobs' = Sent(j, "answers")

\* The service throws: the chain refused the block, or executed it and the
\* answer was lost.
ChainRejects(j) ==
  /\ jobs[j].phase = "send"
  /\ failures < MaxFailures
  /\ failures' = failures + 1
  /\ BeginReports(j, FirstBlock(jobs[j].todo), "error")
  /\ Execute(FirstBlock(jobs[j].todo)) \/ UNCHANGED chain
  /\ jobs' = Sent(j, "errors")

\* All calls for the answers have returned.
BlockAnswered(j) ==
  /\ jobs[j].phase = "answers"
  /\ \A l \in LanesOf(j, jobs[j].block, "answer") : calls[l].phase = "idle"
  /\ jobs' = [jobs EXCEPT ![j] = Continue([@ EXCEPT !.block = {}])]
  /\ UNCHANGED <<vars, chain>>

\* One of them has thrown: every event of the block is reported as failed,
\* while the other calls go on.
Catch(j) ==
  /\ jobs[j].phase = "answers"
  /\ \E l \in LanesOf(j, jobs[j].block, "answer") : calls[l].phase = "threw"
  /\ BeginReports(j, jobs[j].block, "error")
  /\ jobs' = [jobs EXCEPT ![j].phase = "errors"]
  /\ UNCHANGED <<failures, chain>>

BlockFailedKeepsQueue(j) ==  \* mutant: the run goes on with certificates that failed
  /\ jobs[j].phase = "errors"
  /\ \A l \in LanesOf(j, jobs[j].block, "error") : calls[l].phase = "idle"
  /\ jobs' = [jobs EXCEPT ![j] = Continue([@ EXCEPT !.block = {}])]
  /\ UNCHANGED <<vars, chain>>

\* All errors are reported; the run leaves the certificates of the block.
BlockFailed(j) ==
  /\ jobs[j].phase = "errors"
  /\ \A l \in LanesOf(j, jobs[j].block, "error") : calls[l].phase = "idle"
  /\ LET certs == {e.cert : e \in jobs[j].block}
     IN  jobs' = [jobs EXCEPT ![j] =
           Continue([@ EXCEPT !.block = {},
                             !.queue = {e \in jobs[j].queue : e.cert \notin certs}])]
  /\ UNCHANGED <<vars, chain>>

\* The process dies, and the calls of the job with it.
Crash(j) ==
  /\ jobs[j].phase # "off"
  /\ failures < MaxFailures
  /\ failures' = failures + 1
  /\ calls' = [p \in Processes |-> IF p \in Lanes /\ p[1] = j THEN Idle ELSE calls[p]]
  /\ jobs' = [jobs EXCEPT ![j] = Off]
  /\ UNCHANGED <<commands, lastId, clock, tables, chain>>

-----------------------------------------------------------------------------
(* The calls of the service *)

LaneProceeds(l) == Proceed(l) /\ UNCHANGED syncVars

\* An error that cannot be reported ends the run it belongs to.
LaneThrows(l) ==
  /\ calls[l].phase # "threw"
  /\ (\E c \in Touched(l) : Reject(l, c)) \/ (Fail(l) /\ Throw(l))
  /\ jobs' = IF jobs[l[1]].phase = "errors" /\ l \in LanesOf(l[1], jobs[l[1]].block, "error")
             THEN [jobs EXCEPT ![l[1]] = Off] ELSE jobs
  /\ UNCHANGED chain

\* The calls of users; that they fail half-way is part of the runs of
\* OffChainCertificate.
UserStep(p) ==
  /\ \/ (Issue(p) \/ Move(p) \/ MoveBatch(p)) /\ commands' <= MaxSubmitted
     \/ Proceed(p)
     \/ \E c \in Touched(p) : Reject(p, c)
  /\ UNCHANGED syncVars

RunStep(j) ==
  \/ Find(j) \/ Finish(j) \/ Select(j) \/ ChainAccepts(j) \/ ChainRejects(j)
  \/ BlockAnswered(j) \/ Catch(j) \/ BlockFailed(j)

LaneStep(l) == LaneProceeds(l) \/ LaneThrows(l)

SyncNext ==
  \/ \E j \in Jobs : Start(j) \/ RunStep(j) \/ Crash(j)
  \/ \E l \in Lanes : LaneStep(l)
  \/ \E p \in Users : UserStep(p)

SyncSpec == SyncInit /\ [][SyncNext]_allVars

\* A process that is not killed does its next step, in the run or in one of
\* the calls it began; the application asks for a synchronization again and
\* again.
Progress(j)   == RunStep(j) \/ \E l \in Lanes : l[1] = j /\ LaneStep(l)
FairSync      == SyncSpec /\ \A j \in Jobs : WF_allVars(Progress(j))
TriggeredSync == FairSync /\ \A j \in Jobs : WF_allVars(Start(j))

-----------------------------------------------------------------------------
(* Properties *)

Successes(e) == {f \in Reports(e) : f.type # "PersistError"}

\* Nothing is reported as persisted more often than the chain executed it.
AnsweredMeansExecuted ==
  \A e \in log : e.type \in Synchronizable => Cardinality(Successes(e)) <= Executions(e)

\* The chain executes the events of a certificate in the order of the log:
\* whatever fails, whatever is retried and however many instances run, none
\* is executed before those that precede it.
ChainOrder ==
  \A e, f \in log :
    /\ {e.type, f.type} \subseteq Synchronizable
    /\ e.cert = f.cert
    /\ e.at < f.at
    /\ Executions(f) > 0
    => Executions(e) > 0

\* A transfer or claim that a run has popped has a blockchain id: the branch
\* that drops events without one, and counts no attempt, is never taken.
IdWhenSelected ==
  \A j \in Jobs :
    jobs[j].phase = "select" =>
      \A e \in jobs[j].batch :
        e.type = NextType(jobs[j].batch) /\ e.type # "Issued" => HasBlockchainId(e.cert)

\* Retries end: an instance executes an event once for each of its attempts,
\* and once more for each call or process that failed before it was counted.
\* (Of two instances with failures this is not true: one may write back a
\* count that it read before the other's, and lower it.)
ExecutionsBounded ==
  \A e \in log : e.type \in Synchronizable =>
    Executions(e) <= Cardinality(Jobs) * MaxAttempts + failures

\* A failure can always be recorded: the report of an error is never refused
\* by the aggregate.  If it were, the attempt would not be counted, and the
\* event would be sent to the chain again and again.
FailuresAccepted ==
  \A l \in Lanes :
    l[3] = "error" /\ calls[l].phase = "read" => \A c \in Touched(l) : Replays(View(l, c))

\* Every run ends.
RunsEnd == \A j \in Jobs : jobs[j].phase # "off" ~> jobs[j].phase = "off"

\* If synchronizations are asked for again and again, every event that was
\* stored is persisted at last, unless its certificate is blocked.
Persisted(e) == \E f \in Reports(e) : f.type # "PersistError"
EveryEventSettles ==
  []<>(\A e \in log : e.type \in Synchronizable => Persisted(e) \/ IsBlocked(e.cert))
=============================================================================
