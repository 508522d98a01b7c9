----------------------------- MODULE OnChainQueue -----------------------------
(***************************************************************************)
(* OnChainCertificateService and what answers its calls                    *)
(* (origin-247-certificate/src/onchain-certificate): the Bull queue, the   *)
(* processor with its one job at a time, the handlers that send the        *)
(* transactions, the poll that waits for them, the listener that feeds the *)
(* poll, and the contracts everyone needs before anything can happen.      *)
(*                                                                         *)
(* An instance is a process of the application.  Redis, the database and   *)
(* the chain are shared; what the listener saw is not, and is gone when    *)
(* the process is.  A transaction is its rank in txs, which stands for its *)
(* hash.                                                                   *)
(***************************************************************************)
EXTENDS Naturals, Sequences, FiniteSets

CONSTANTS
  Instances,    \* processes of the application
  Deployers,    \* instances that call OnChainCertificateFacade.deploy
  DeployHook,   \* when they do: "beforeInit" or "bootstrap"
  Calls,        \* calls of the service
  Requests,     \* what a call may ask for
  MaxWaits,     \* maxTries of waitForState: 24 in the code
  MaxPolls,     \* maxRetries of the poll: 100 in the code
  MaxStalled,   \* reruns of a stalled job: 1 in Bull
  MaxRegistries,\* bound: deployments of the contracts
  MaxFaults,    \* bound: crashes, lost locks, lost events, rejected awaits
  None          \* no instance, no call

ActionTypes == {"Issuance", "Transfer", "Claim",
                "BatchIssuance", "BatchTransfer", "BatchClaim"}
Issuances   == {"Issuance", "BatchIssuance"}
Batches     == {"BatchIssuance", "BatchTransfer", "BatchClaim"}

\* A request: its type, how many certificates it names, and whether it is
\* the variant that returns the transaction hash.
Request == [type: ActionTypes, size: Nat, withTxHash: BOOLEAN]

ASSUME OnChainAssumption ==
  /\ Deployers \subseteq Instances
  /\ DeployHook \in {"beforeInit", "bootstrap"}
  /\ Requests \subseteq Request
  /\ \A r \in Requests : r.type \notin Batches => r.size = 1
  /\ {MaxWaits, MaxPolls, MaxStalled, MaxRegistries, MaxFaults} \subseteq Nat
  /\ None \notin Instances \cup Calls

VARIABLES
  contracts,  \* rows of certificate_deployment_properties
  registries, \* registries deployed so far
  apps,       \* how far each instance is with its start
  answer,     \* what the caller of each call knows
  callers,    \* the instance each call was made in, and its request
  queue,      \* the calls whose jobs wait in Redis
  stalled,    \* how often each call's job has stalled
  holder,     \* the instance that has the lock of a call's job
  workers,    \* the job each processor is at
  txs,        \* all transactions sent
  arriving,   \* events on their way to each listener
  seen,       \* what each listener has told the poll
  faults

queueVars  == <<answer, callers, queue, stalled, holder>>
deployVars == <<contracts, registries>>
vars == <<contracts, registries, apps, answer, callers, queue, stalled, holder,
          workers, txs, arriving, seen, faults>>

\* The phases of an instance that is not running, be it that it was never
\* started, was killed, or that its start failed.  That a start failed because
\* the contracts did not come in time is told apart.
Ended == {"off", "timedOut"}

\* The phases of one that is: "check", "deploy", "recheck" and "insert" of
\* deploy(), "wait" of the listener's onModuleInit, "ready".
Off  == [phase |-> "off", tries |-> 0, registry |-> 0, watches |-> 0]
Rest == [phase |-> "idle", tries |-> 0, call |-> None, tx |-> 0]
Blind == [processed |-> {}, certificates |-> {}]
NoCall == [at |-> None, request |-> [type |-> "Claim", size |-> 1, withTxHash |-> FALSE]]

Init ==
  /\ contracts = {}
  /\ registries = 0
  /\ apps = [i \in Instances |-> Off]
  /\ answer = [c \in Calls |-> "none"]
  /\ callers = [c \in Calls |-> NoCall]
  /\ queue = <<>>
  /\ stalled = [c \in Calls |-> 0]
  /\ holder = [c \in Calls |-> None]
  /\ workers = [i \in Instances |-> Rest]
  /\ txs = <<>>
  /\ arriving = [i \in Instances |-> {}]
  /\ seen = [i \in Instances |-> Blind]
  /\ faults = 0

Fault == faults < MaxFaults /\ faults' = faults + 1

\* A process ends, and with it the calls made in it, its job and its memory.
End(i, phase) ==
  /\ apps' = [apps EXCEPT ![i] = [Off EXCEPT !.phase = phase]]
  /\ answer' = [c \in Calls |->
       IF answer[c] = "waiting" /\ callers[c].at = i THEN "gone" ELSE answer[c]]
  /\ workers' = [workers EXCEPT ![i] = Rest]
  /\ arriving' = [arriving EXCEPT ![i] = {}]
  /\ seen' = [seen EXCEPT ![i] = Blind]

-----------------------------------------------------------------------------
(* Starting an instance: deploy and the listener's onModuleInit *)

PropertiesExist == contracts # {}

\* After the listener is set up, an instance that deploys in its
\* onApplicationBootstrap does so; the others are ready.
AfterInit(i) ==
  IF DeployHook = "bootstrap" /\ i \in Deployers THEN "check" ELSE "ready"

AfterDeploy == IF DeployHook = "beforeInit" THEN "wait" ELSE "ready"

Boot(i) ==
  /\ apps[i].phase \in Ended
  /\ apps' = [apps EXCEPT ![i] =
       [Off EXCEPT !.phase = IF DeployHook = "beforeInit" /\ i \in Deployers
                             THEN "check" ELSE "wait"]]
  /\ UNCHANGED <<deployVars, queueVars, workers, txs, arriving, seen, faults>>

CheckDeployed(i) ==
  /\ apps[i].phase = "check"
  /\ apps' = [apps EXCEPT ![i].phase = IF PropertiesExist THEN AfterDeploy ELSE "deploy"]
  /\ UNCHANGED <<deployVars, queueVars, workers, txs, arriving, seen, faults>>

\* The registry and its issuer are on the chain, and nowhere recorded yet.
DeployContracts(i) ==
  /\ apps[i].phase = "deploy"
  /\ registries < MaxRegistries
  /\ registries' = registries + 1
  /\ apps' = [apps EXCEPT ![i].phase = "recheck", ![i].registry = registries + 1]
  /\ UNCHANGED <<contracts, queueVars, workers, txs, arriving, seen, faults>>

\* migrateRegistry or migrateIssuer rejects, and with it the start: nothing is
\* recorded, whether or not a registry got onto the chain.
DeployRejects(i) ==
  /\ apps[i].phase = "deploy"
  /\ registries' \in {registries, registries + 1}
  /\ registries' <= MaxRegistries
  /\ Fault
  /\ End(i, "off")
  /\ UNCHANGED <<contracts, callers, queue, stalled, holder, txs>>

\* save of the repository looks once more, and throws: the start fails ...
RecheckFails(i) ==
  /\ apps[i].phase = "recheck"
  /\ PropertiesExist
  /\ End(i, "off")
  /\ UNCHANGED <<deployVars, callers, queue, stalled, holder, txs, faults>>

RecheckPasses(i) ==
  /\ apps[i].phase = "recheck"
  /\ ~PropertiesExist
  /\ apps' = [apps EXCEPT ![i].phase = "insert"]
  /\ UNCHANGED <<deployVars, queueVars, workers, txs, arriving, seen, faults>>

InsertNothing(i) ==  \* mutant: what was deployed is not recorded
  /\ apps[i].phase = "insert"
  /\ apps' = [apps EXCEPT ![i] = [@ EXCEPT !.phase = AfterDeploy, !.registry = 0]]
  /\ UNCHANGED <<deployVars, queueVars, workers, txs, arriving, seen, faults>>

\* ... or inserts.
InsertDeployed(i) ==
  /\ apps[i].phase = "insert"
  /\ contracts' = contracts \cup {apps[i].registry}
  /\ apps' = [apps EXCEPT ![i] = [@ EXCEPT !.phase = AfterDeploy, !.registry = 0]]
  /\ UNCHANGED <<registries, queueVars, workers, txs, arriving, seen, faults>>

\* The insertion rejects: there is no row, or there is and the answer got lost.
InsertRejects(i) ==
  /\ apps[i].phase = "insert"
  /\ contracts' \in {contracts, contracts \cup {apps[i].registry}}
  /\ Fault
  /\ End(i, "off")
  /\ UNCHANGED <<registries, callers, queue, stalled, holder, txs>>

\* Somebody else deploys contracts with a script, and a migration inserts
\* what it printed; it does not look whether an instance is deploying.
Migrate ==
  /\ ~PropertiesExist
  /\ registries < MaxRegistries
  /\ registries' = registries + 1
  /\ contracts' = {registries + 1}
  /\ UNCHANGED <<apps, queueVars, workers, txs, arriving, seen, faults>>

TriesLeftOnceMore(tries) == tries <= MaxWaits + 1  \* mutant

\* A tick of waitForState: too many tries are looked at first.
TriesLeft(tries) == tries <= MaxWaits

\* onModuleInit of the listener: it will see the events of one registry, the
\* first row of a query without an order.
Watch(i) ==
  /\ apps[i].phase = "wait"
  /\ TriesLeft(apps[i].tries)
  /\ \E r \in contracts :
       apps' = [apps EXCEPT ![i] =
         [@ EXCEPT !.phase = AfterInit(i), !.tries = 0, !.watches = r]]
  /\ UNCHANGED <<deployVars, queueVars, workers, txs, arriving, seen, faults>>

WaitAgain(i) ==
  /\ apps[i].phase = "wait"
  /\ TriesLeft(apps[i].tries)
  /\ ~PropertiesExist
  /\ apps' = [apps EXCEPT ![i].tries = @ + 1]
  /\ UNCHANGED <<deployVars, queueVars, workers, txs, arriving, seen, faults>>

\* The start of the application fails.
WaitEnds(i) ==
  /\ apps[i].phase = "wait"
  /\ ~TriesLeft(apps[i].tries)
  /\ End(i, "timedOut")
  /\ UNCHANGED <<deployVars, callers, queue, stalled, holder, txs, faults>>

\* The query of propertiesExist in deploy or save rejects, or that of get once
\* the listener has waited long enough.
QueryRejects(i) ==
  /\ \/ apps[i].phase \in {"check", "recheck"}
     \/ apps[i].phase = "wait" /\ TriesLeft(apps[i].tries) /\ PropertiesExist
  /\ Fault
  /\ End(i, "off")
  /\ UNCHANGED <<deployVars, callers, queue, stalled, holder, txs>>

-----------------------------------------------------------------------------
(* A call of the service *)

\* BullModule registers the processor when modules are initialised, before
\* the listener has found its contracts.
Processes(i) ==
  CASE DeployHook = "beforeInit" -> apps[i].phase \in {"wait", "ready"}
    [] OTHER -> apps[i].phase \notin Ended

\* batchIssue, batchClaim and batchTransfer return at once for no items;
\* their WithTxHash variants do not.
ReturnsAtOnce(request) ==
  request.type \in Batches /\ request.size = 0 /\ ~request.withTxHash

\* The application may call as soon as its modules are initialised: the job
\* that synchronizes certificates does not wait for the listener.
Ask(i, c) ==
  /\ Processes(i)
  /\ answer[c] = "none"
  /\ \E r \in Requests :
       /\ callers' = [callers EXCEPT ![c] = [at |-> i, request |-> r]]
       /\ IF ReturnsAtOnce(r)
          THEN /\ answer' = [answer EXCEPT ![c] = "nothing"]
               /\ UNCHANGED queue
          ELSE /\ answer' = [answer EXCEPT ![c] = "waiting"]
               /\ queue' = Append(queue, c)
  /\ UNCHANGED <<deployVars, apps, stalled, holder, workers, txs, arriving, seen, faults>>

\* What job.finished() gives the caller, if there still is one.
Tell(c, result) ==
  answer' = [answer EXCEPT ![c] = IF @ = "waiting" THEN result ELSE @]

-----------------------------------------------------------------------------
(* The processor: one job at a time in each instance *)

Take(i) ==
  /\ Processes(i)
  /\ workers[i].phase = "idle"
  /\ queue # <<>>
  /\ queue' = Tail(queue)
  /\ holder' = [holder EXCEPT ![Head(queue)] = i]
  /\ workers' = [workers EXCEPT ![i] = [Rest EXCEPT !.phase = "wrap", !.call = Head(queue)]]
  /\ UNCHANGED <<deployVars, apps, answer, callers, stalled, txs, arriving, seen, faults>>

RequestOf(i) == callers[workers[i].call].request

\* handle rethrows, and Bull fails the job: the caller's job.finished()
\* rejects.  Bull accepts a result only from the holder of the job's lock.
Throw(i) ==
  LET c == workers[i].call
  IN  /\ IF holder[c] = i
         THEN /\ Tell(c, "rejected")
              /\ holder' = [holder EXCEPT ![c] = None]
         ELSE UNCHANGED <<answer, holder>>
      /\ workers' = [workers EXCEPT ![i] = Rest]

\* getWrapped in each handler waits for the contracts as the listener does.
WrapAgain(i) ==
  /\ workers[i].phase = "wrap"
  /\ TriesLeft(workers[i].tries)
  /\ ~PropertiesExist
  /\ workers' = [workers EXCEPT ![i].tries = @ + 1]
  /\ UNCHANGED <<deployVars, apps, queueVars, txs, arriving, seen, faults>>

WrapEnds(i) ==
  /\ workers[i].phase = "wrap"
  /\ ~TriesLeft(workers[i].tries)
  /\ Throw(i)
  /\ UNCHANGED <<deployVars, apps, callers, queue, stalled, txs, arriving, seen, faults>>

\* Only the handler of claims refuses an empty batch.
RefusesEmpty(request) == request.type = "BatchClaim" /\ request.size = 0

HandlerRefuses(i) ==
  /\ workers[i].phase = "wrap"
  /\ TriesLeft(workers[i].tries) /\ PropertiesExist
  /\ RefusesEmpty(RequestOf(i))
  /\ Throw(i)
  /\ UNCHANGED <<deployVars, apps, callers, queue, stalled, txs, arriving, seen, faults>>

\* A transaction to the registry that this reading of the table gave.
Sent(i, r) == Append(txs, [call |-> workers[i].call, registry |-> r, state |-> "pending"])

Send(i) ==
  /\ workers[i].phase = "wrap"
  /\ TriesLeft(workers[i].tries)
  /\ ~RefusesEmpty(RequestOf(i))
  /\ \E r \in contracts : txs' = Sent(i, r)
  /\ workers' = [workers EXCEPT ![i] =
                   [@ EXCEPT !.phase = "poll", !.tries = 0, !.tx = Len(txs) + 1]]
  /\ UNCHANGED <<deployVars, apps, queueVars, arriving, seen, faults>>

\* The handler throws: nothing was sent, or it was and the answer got lost.
SendThrows(i) ==
  /\ workers[i].phase = "wrap"
  /\ TriesLeft(workers[i].tries)
  /\ ~RefusesEmpty(RequestOf(i))
  /\ \E r \in contracts : txs' \in {txs, Sent(i, r)}
  /\ Throw(i)
  /\ Fault
  /\ UNCHANGED <<deployVars, apps, callers, queue, stalled, arriving, seen>>

-----------------------------------------------------------------------------
(* The poll *)

FoundSent(i) == TRUE  \* mutant: a transaction that was sent counts as found

\* waitForNewCertificates needs the ids of certificates, at least one of
\* them; the others wait for any event of the transaction.
Found(i) ==
  IF RequestOf(i).type \in Issuances
  THEN workers[i].tx \in seen[i].certificates /\ RequestOf(i).size > 0
  ELSE workers[i].tx \in seen[i].processed

\* What was waited for is deleted, except for issuances.
PollFinds(i) ==
  /\ workers[i].phase = "poll"
  /\ Found(i)
  /\ workers' = [workers EXCEPT ![i].phase = "delay"]
  /\ seen' = IF RequestOf(i).type \in Issuances THEN seen
             ELSE [seen EXCEPT ![i].processed = @ \ {workers[i].tx}]
  /\ UNCHANGED <<deployVars, apps, queueVars, txs, arriving, faults>>

PollAgain(i) ==
  /\ workers[i].phase = "poll"
  /\ ~Found(i)
  /\ workers[i].tries < MaxPolls
  /\ workers' = [workers EXCEPT ![i].tries = @ + 1]
  /\ UNCHANGED <<deployVars, apps, queueVars, txs, arriving, seen, faults>>

PollForever(i) ==  \* mutant: the poll has no last try
  /\ workers[i].phase = "poll"
  /\ FALSE
  /\ UNCHANGED vars

\* The transaction may still be mined.
PollEnds(i) ==
  /\ workers[i].phase = "poll"
  /\ ~Found(i)
  /\ workers[i].tries = MaxPolls
  /\ Throw(i)
  /\ UNCHANGED <<deployVars, apps, callers, queue, stalled, txs, arriving, seen, faults>>

\* After the delay the job is completed.
Complete(i) ==
  LET c == workers[i].call
  IN  /\ workers[i].phase = "delay"
      /\ IF holder[c] = i
         THEN /\ Tell(c, "resolved")
              /\ holder' = [holder EXCEPT ![c] = None]
         ELSE UNCHANGED <<answer, holder>>
      /\ workers' = [workers EXCEPT ![i] = Rest]
      /\ UNCHANGED <<deployVars, apps, callers, queue, stalled, txs, arriving, seen, faults>>

-----------------------------------------------------------------------------
(* Jobs that stall *)

RerunStalledAlways(c) ==  \* mutant: reruns are not counted
  /\ queue' = <<c>> \o queue
  /\ UNCHANGED <<answer, stalled>>

\* A stalled job is rerun before those that wait, or failed for good.
RerunStalled(c) ==
  IF stalled[c] < MaxStalled
  THEN /\ queue' = <<c>> \o queue
       /\ stalled' = [stalled EXCEPT ![c] = @ + 1]
       /\ UNCHANGED answer
  ELSE /\ Tell(c, "rejected")
       /\ UNCHANGED <<queue, stalled>>

\* The lock of a job whose process has died expires, and a processor that is
\* alive notices.
CheckStalled(c) ==
  /\ holder[c] # None
  /\ workers[holder[c]].call # c
  /\ \E i \in Instances : Processes(i)
  /\ RerunStalled(c)
  /\ holder' = [holder EXCEPT ![c] = None]
  /\ UNCHANGED <<deployVars, apps, callers, workers, txs, arriving, seen, faults>>

\* A process that is too busy to renew the lock loses it, and goes on.
LoseLock(c) ==
  /\ holder[c] # None
  /\ workers[holder[c]].call = c
  /\ Fault
  /\ RerunStalled(c)
  /\ holder' = [holder EXCEPT ![c] = None]
  /\ UNCHANGED <<deployVars, apps, callers, workers, txs, arriving, seen>>

-----------------------------------------------------------------------------
(* The chain and the listener *)

\* The events of the registry's contract for a transaction.  An issuance also
\* emits a transfer, which is left out: nobody waits for an issuance in
\* processedTransactions.
EventsOf(type) ==
  CASE type \in Issuances -> {"Issuance"}
    [] type \in {"Transfer", "BatchTransfer"} -> {"Transfer"}
    [] OTHER -> {"Transfer", "Claim"}

Mine(t) ==
  /\ txs[t].state = "pending"
  /\ txs' = [txs EXCEPT ![t].state = "mined"]
  /\ arriving' = [i \in Instances |->
       IF apps[i].watches = txs[t].registry
       THEN arriving[i] \cup
              {[tx |-> t, event |-> e] : e \in EventsOf(callers[txs[t].call].request.type)}
       ELSE arriving[i]]
  /\ UNCHANGED <<deployVars, apps, queueVars, workers, seen, faults>>

\* A transaction that the contract reverts has no events.
Revert(t) ==
  /\ txs[t].state = "pending"
  /\ txs' = [txs EXCEPT ![t].state = "reverted"]
  /\ UNCHANGED <<deployVars, apps, queueVars, workers, arriving, seen, faults>>

\* processEvent: the events of one transaction arrive in any order.
ProcessEvent(i) ==
  \E a \in arriving[i] :
    /\ arriving' = [arriving EXCEPT ![i] = @ \ {a}]
    /\ seen' = [seen EXCEPT ![i] =
         [processed    |-> @.processed \cup {a.tx},
          certificates |-> @.certificates \cup {t \in {a.tx} : a.event = "Issuance"}]]
    /\ UNCHANGED <<deployVars, apps, queueVars, workers, txs, faults>>

\* An event that cannot be decoded, or that the node did not deliver.
LoseEvent(i) ==
  /\ \E a \in arriving[i] : arriving' = [arriving EXCEPT ![i] = @ \ {a}]
  /\ Fault
  /\ UNCHANGED <<deployVars, apps, queueVars, workers, txs, seen>>

Crash(i) ==
  /\ apps[i].phase \notin Ended
  /\ Fault
  /\ End(i, "off")
  /\ UNCHANGED <<deployVars, callers, queue, stalled, holder, txs>>

-----------------------------------------------------------------------------
(* The specification *)

Starts(i) ==
  \/ CheckDeployed(i) \/ DeployContracts(i) \/ RecheckFails(i) \/ RecheckPasses(i)
  \/ InsertDeployed(i) \/ Watch(i) \/ WaitAgain(i) \/ WaitEnds(i)

StartRejects(i) == DeployRejects(i) \/ InsertRejects(i) \/ QueryRejects(i)

Works(i) ==
  \/ Take(i) \/ WrapAgain(i) \/ WrapEnds(i) \/ HandlerRefuses(i) \/ Send(i)
  \/ PollFinds(i) \/ PollAgain(i) \/ PollEnds(i) \/ Complete(i)

Next ==
  \/ \E i \in Instances : \/ Boot(i) \/ Starts(i) \/ StartRejects(i) \/ Works(i)
                          \/ SendThrows(i) \/ ProcessEvent(i) \/ LoseEvent(i) \/ Crash(i)
  \/ \E i \in Instances, c \in Calls : Ask(i, c)
  \/ \E c \in Calls : CheckStalled(c) \/ LoseLock(c)
  \/ \E t \in 1..Len(txs) : Mine(t) \/ Revert(t)
  \/ Migrate

Spec == Init /\ [][Next]_vars

\* A process that is not killed goes on with its start and with its job, and
\* Bull looks for stalled jobs as long as somebody runs.  Nobody is obliged
\* to start an instance, the chain to mine, or a node to deliver events.
FairSpec ==
  /\ Spec
  /\ \A i \in Instances : WF_vars(Starts(i)) /\ WF_vars(Works(i))
  /\ \A c \in Calls : WF_vars(CheckStalled(c))

-----------------------------------------------------------------------------
(* Properties *)

App == [phase: Ended \cup {"check", "deploy", "recheck", "insert", "wait", "ready"},
        tries: 0..MaxWaits + 1, registry: 0..registries, watches: {0} \cup contracts]
Worker == [phase: {"idle", "wrap", "poll", "delay"}, tries: Nat,
           call: Calls \cup {None}, tx: 0..Len(txs)]
Hashes == 1..Len(txs)

TypeOK ==
  /\ contracts \subseteq 1..registries
  /\ registries \in Nat
  /\ apps \in [Instances -> App]
  /\ answer \in [Calls -> {"none", "waiting", "resolved", "nothing", "rejected", "gone"}]
  /\ callers \in [Calls -> [at: Instances \cup {None}, request: Request]]
  /\ queue \in Seq(Calls)
  /\ stalled \in [Calls -> Nat]
  /\ holder \in [Calls -> Instances \cup {None}]
  /\ workers \in [Instances -> Worker]
  /\ txs \in Seq([call: Calls, registry: contracts,
                  state: {"pending", "mined", "reverted"}])
  /\ arriving \in [Instances -> SUBSET [tx: Hashes, event: {"Issuance", "Transfer", "Claim"}]]
  /\ seen \in [Instances -> [processed: SUBSET Hashes, certificates: SUBSET Hashes]]
  /\ faults \in 0..MaxFaults

\* A call reaches the chain once for its job and once for each time the job
\* stalled; a caller that asked for nothing, or for no claims, never does
\* (onchain-certificate.service.ts:122-154, README.md:167).
RunsBounded ==
  \A c \in Calls :
    /\ Cardinality({t \in Hashes : txs[t].call = c}) <= 1 + stalled[c]
    /\ stalled[c] <= MaxStalled
    /\ answer[c] = "nothing" => \A t \in Hashes : txs[t].call # c

\* The start of an instance that deploys the contracts never ends for want of
\* contracts.  It may end because a call of the deployment rejects, or because
\* somebody recorded theirs meanwhile; but whatever earlier starts left behind
\* half-way, it does not go on to the listener and wait there for contracts
\* that nobody has (blockchain-properties.service.ts:63-81, 104-110).
DeployersDoNotTimeOut == \A i \in Deployers : apps[i].phase # "timedOut"

\* Every caller gets an answer, or its process ends.
CallsAnswered == \A c \in Calls : answer[c] = "waiting" ~> answer[c] # "waiting"

\* What the service promises to its callers.
executed == {txs[t].call : t \in {u \in Hashes : txs[u].state = "mined"}}
Promise ==
  INSTANCE OnChainPromise WITH Calls <- Calls, answer <- answer, executed <- executed
KeepsPromise == Promise!Spec
=============================================================================
