--------------------------- MODULE OnChainQueueProofs ---------------------------
(***************************************************************************)
(* Type correctness of the on-chain service, and that it implements what   *)
(* it promises its callers: for any number of instances, deployers and     *)
(* calls, any number of waits, polls and reruns, and any faults.           *)
(***************************************************************************)
EXTENDS OnChainQueue, TLAPS, SequenceTheorems, FiniteSetTheorems

-----------------------------------------------------------------------------
(* Types *)

Transaction == [call: Calls, registry: contracts, state: {"pending", "mined", "reverted"}]

\* A start that records contracts has deployed them.
Recorded ==
  \A i \in Instances :
    apps[i].phase \in {"recheck", "insert"} => apps[i].registry \in 1..registries

\* A processor that works, works for a call.
HasCall ==
  \A i \in Instances : workers[i].phase # "idle" => workers[i].call \in Calls

TypeInv == TypeOK /\ Recorded /\ HasCall

\* A job that ends, in whatever way, leaves well-typed answers, locks and
\* processors behind.
LEMMA TellTyped ==
  ASSUME TypeInv, NEW c, NEW result \in {"resolved", "rejected"}, Tell(c, result)
  PROVE  answer' \in [Calls -> {"none", "waiting", "resolved", "nothing", "rejected", "gone"}]
BY DEF TypeInv, TypeOK, Tell

\* A job that rejects leaves its call answered and its processor at rest.
LEMMA ThrowTyped ==
  ASSUME TypeInv, NEW i \in Instances, Throw(i)
  PROVE  /\ answer' \in [Calls -> {"none", "waiting", "resolved", "nothing", "rejected", "gone"}]
         /\ holder' \in [Calls -> Instances \cup {None}]
         /\ workers' = [workers EXCEPT ![i] = Rest]
BY TellTyped DEF Throw, TypeInv, TypeOK

\* A processor at rest is well typed, and the others stay so.
LEMMA RestTyped ==
  ASSUME TypeInv, NEW i \in Instances, workers' = [workers EXCEPT ![i] = Rest],
         Len(txs) \in Nat, Len(txs') \in Nat, Len(txs) <= Len(txs')
  PROVE  workers' \in [Instances -> Worker'] /\ HasCall'
<1>1. Rest \in Worker'
  BY DEF Rest, Worker
<1>2. \A j \in Instances : workers[j] \in Worker'
  BY DEF TypeInv, TypeOK, Worker
<1>3. workers' \in [Instances -> Worker']
  BY <1>1, <1>2 DEF TypeInv, TypeOK
<1>4. HasCall'
  BY DEF TypeInv, TypeOK, HasCall, Rest
<1>. QED BY <1>3, <1>4

\* The end of a process; what it deployed may have been recorded before.
LEMMA EndTyped ==
  ASSUME TypeInv, NEW i \in Instances, NEW phase \in Ended, End(i, phase),
         contracts \subseteq contracts', contracts' \subseteq 1..registries',
         registries' \in Nat, registries <= registries',
         UNCHANGED <<callers, queue, stalled, holder, txs>>,
         faults' \in 0..MaxFaults
  PROVE  TypeInv'
<1>0. registries \in Nat /\ 0..registries \subseteq 0..registries'
      /\ 1..registries \subseteq 1..registries' /\ apps \in [Instances -> App]
  BY DEF TypeInv, TypeOK
<1>1. apps' \in [Instances -> App'] /\ Recorded'
  <2>1. [Off EXCEPT !.phase = phase] \in App' /\ [Off EXCEPT !.phase = phase].phase = phase
    BY <1>0, OnChainAssumption DEF OnChainAssumption, Off, App
  <2>2. \A app \in App : app \in App'
    BY <1>0 DEF App
  <2>3. apps' = [apps EXCEPT ![i] = [Off EXCEPT !.phase = phase]]
    BY DEF End
  <2>4. apps' \in [Instances -> App']
    BY <1>0, <2>1, <2>2, <2>3
  <2>5. Recorded'
    BY <1>0, <2>1, <2>3 DEF TypeInv, Recorded, Ended
  <2>. QED BY <2>4, <2>5
<1>6. txs' \in Seq([call: Calls, registry: contracts', state: {"pending", "mined", "reverted"}])
  <2>1. txs \in Seq(Transaction) /\ Transaction \subseteq Transaction'
    BY DEF TypeInv, TypeOK, Transaction
  <2>. QED BY <2>1, SeqMonotonic DEF Transaction
<1>2. Len(txs) \in Nat /\ Len(txs') \in Nat /\ Len(txs) <= Len(txs')
  BY LenProperties DEF TypeInv, TypeOK
<1>3. workers' \in [Instances -> Worker'] /\ HasCall'
  BY <1>2, RestTyped DEF End
<1>4. /\ arriving' \in [Instances -> SUBSET [tx: Hashes, event: {"Issuance", "Transfer", "Claim"}]]
      /\ seen' \in [Instances -> [processed: SUBSET Hashes, certificates: SUBSET Hashes]]
  BY DEF End, Blind, TypeInv, TypeOK
<1>5. answer' \in [Calls -> {"none", "waiting", "resolved", "nothing", "rejected", "gone"}]
  BY DEF End, TypeInv, TypeOK
<1>. QED
  BY <1>1, <1>3, <1>4, <1>5, <1>6 DEF TypeInv, TypeOK, Hashes

\* The end of one that has deployed nothing.
LEMMA QuietEndTyped ==
  ASSUME TypeInv, NEW i \in Instances, NEW phase \in Ended, End(i, phase),
         UNCHANGED <<deployVars, callers, queue, stalled, holder, txs>>,
         faults' \in 0..MaxFaults
  PROVE  TypeInv'
<1>1. registries \in Nat /\ contracts \subseteq 1..registries
  BY DEF TypeInv, TypeOK
<1>2. contracts' = contracts /\ registries' = registries
  BY DEF deployVars
<1>3. registries <= registries'
  BY <1>1, <1>2
<1>. QED BY <1>1, <1>2, <1>3, EndTyped

-----------------------------------------------------------------------------
(* Starting *)

\* A start that only changes how far it is.
LEMMA StartTyped ==
  ASSUME TypeInv, NEW i \in Instances, NEW app \in App,
         app.phase \in {"recheck", "insert"} => app.registry \in 1..registries,
         apps' = [apps EXCEPT ![i] = app],
         UNCHANGED <<deployVars, queueVars, workers, txs, arriving, seen, faults>>
  PROVE  TypeInv'
<1>1. apps' \in [Instances -> App]
  BY DEF TypeInv, TypeOK
<1>2. Recorded'
  BY DEF TypeInv, TypeOK, Recorded, deployVars
<1>3. App' = App /\ Worker' = Worker /\ Hashes' = Hashes
  BY DEF App, Worker, Hashes, deployVars
<1>4. HasCall'
  BY DEF TypeInv, HasCall
<1>. QED
  BY <1>1, <1>2, <1>3, <1>4 DEF TypeInv, TypeOK, deployVars, queueVars

\* New contracts change the types of what refers to them.
LEMMA GrowTyped ==
  ASSUME TypeInv, contracts \subseteq contracts', contracts' \subseteq 1..registries',
         registries' \in Nat, registries <= registries',
         apps' \in [Instances -> App'], Recorded',
         UNCHANGED <<queueVars, workers, txs, arriving, seen, faults>>
  PROVE  TypeInv'
<1>1. Transaction \subseteq Transaction'
  BY DEF Transaction
<1>2. txs' \in Seq(Transaction')
  BY <1>1, SeqMonotonic DEF TypeInv, TypeOK, Transaction
<1>3. Worker' = Worker /\ Hashes' = Hashes
  BY DEF Worker, Hashes
<1>4. HasCall'
  BY DEF TypeInv, HasCall
<1>. QED
  BY <1>2, <1>3, <1>4 DEF TypeInv, TypeOK, queueVars, Transaction

Phases == Ended \cup {"check", "deploy", "recheck", "insert", "wait", "ready"}

\* A start stays well typed when contracts are added, and when its phase and
\* what it refers to change.
LEMMA DeployingTyped ==
  ASSUME NEW app \in App, NEW p \in Phases, NEW r \in 0..registries',
         0..registries \subseteq 0..registries', contracts \subseteq contracts'
  PROVE  app \in App' /\ [app EXCEPT !.phase = p, !.registry = r] \in App'
<1>1. App' = [phase: Phases, tries: 0..MaxWaits + 1, registry: 0..registries',
              watches: {0} \cup contracts']
  BY DEF App, Phases
<1>2. app \in App'
  BY <1>1 DEF App, Phases
<1>. QED BY <1>1, <1>2 DEF Phases

\* The steps of a start.
LEMMA StartsTyped ==
  ASSUME TypeInv, NEW i \in Instances, Boot(i) \/ Starts(i)
  PROVE  TypeInv'
<1>1. registries \in Nat /\ apps[i] \in App /\ faults \in 0..MaxFaults
      /\ contracts \subseteq 1..registries /\ apps \in [Instances -> App]
  BY DEF TypeInv, TypeOK
<1>2. CASE Boot(i)
  <2>. DEFINE app == [Off EXCEPT !.phase = IF DeployHook = "beforeInit" /\ i \in Deployers
                                          THEN "check" ELSE "wait"]
  <2>1. app \in App /\ app.phase \in {"check", "wait"}
    BY <1>1, OnChainAssumption DEF OnChainAssumption, Off, App
  <2>2. apps' = [apps EXCEPT ![i] = app]
    BY <1>2 DEF Boot
  <2>. QED BY <1>2, <2>1, <2>2, StartTyped DEF Boot
<1>3. CASE CheckDeployed(i)
  <2>. DEFINE app == [apps[i] EXCEPT !.phase = IF PropertiesExist THEN AfterDeploy ELSE "deploy"]
  <2>1. app \in App /\ app.phase \in {"deploy", "wait", "ready"}
    BY <1>1 DEF App, AfterDeploy
  <2>2. apps' = [apps EXCEPT ![i] = app]
    BY <1>3 DEF CheckDeployed
  <2>. QED BY <1>3, <2>1, <2>2, StartTyped DEF CheckDeployed
<1>4. CASE DeployContracts(i)
  <2>1. apps' = [apps EXCEPT ![i] = [@ EXCEPT !.phase = "recheck", !.registry = registries + 1]]
    BY <1>1, <1>4 DEF DeployContracts
  <2>2. registries' = registries + 1 /\ contracts' = contracts
    BY <1>4 DEF DeployContracts
  <2>3. registries + 1 \in 0..registries' /\ 0..registries \subseteq 0..registries'
    BY <1>1, <2>2
  <2>4. \A app \in App :
          app \in App' /\ [app EXCEPT !.phase = "recheck", !.registry = registries + 1] \in App'
    BY <2>2, <2>3, DeployingTyped DEF Phases
  <2>5. apps' \in [Instances -> App']
    BY <1>1, <2>1, <2>4
  <2>6. Recorded'
    BY <1>1, <2>1, <2>2 DEF App, Recorded, TypeInv
  <2>. QED BY <1>1, <1>4, <2>2, <2>5, <2>6, GrowTyped DEF DeployContracts
<1>5. CASE RecheckFails(i)
  BY <1>1, <1>5, QuietEndTyped DEF RecheckFails, Ended
<1>6. CASE RecheckPasses(i)
  <2>. DEFINE app == [apps[i] EXCEPT !.phase = "insert"]
  <2>1. app \in App /\ app.registry \in 1..registries
    BY <1>1, <1>6 DEF App, RecheckPasses, TypeInv, Recorded
  <2>2. apps' = [apps EXCEPT ![i] = app]
    BY <1>6 DEF RecheckPasses
  <2>. QED BY <1>6, <2>1, <2>2, StartTyped DEF RecheckPasses
<1>7. CASE InsertDeployed(i)
  <2>1. apps[i].registry \in 1..registries
    BY <1>7 DEF InsertDeployed, TypeInv, Recorded
  <2>2. apps' = [apps EXCEPT ![i] = [@ EXCEPT !.phase = AfterDeploy, !.registry = 0]]
    BY <1>7 DEF InsertDeployed
  <2>3. registries' = registries /\ contracts' = contracts \cup {apps[i].registry}
    BY <1>7 DEF InsertDeployed
  <2>4. AfterDeploy \in {"wait", "ready"}
    BY DEF AfterDeploy
  <2>5. 0 \in 0..registries' /\ 0..registries \subseteq 0..registries'
    BY <1>1, <2>3
  <2>6. \A app \in App :
          app \in App' /\ [app EXCEPT !.phase = AfterDeploy, !.registry = 0] \in App'
    BY <2>3, <2>4, <2>5, DeployingTyped DEF Phases
  <2>7. apps' \in [Instances -> App']
    BY <1>1, <2>2, <2>6
  <2>8. Recorded'
    BY <1>1, <2>2, <2>3, <2>4 DEF App, Recorded, TypeInv
  <2>. QED BY <1>1, <1>7, <2>1, <2>3, <2>7, <2>8, GrowTyped DEF InsertDeployed
<1>8. ASSUME NEW r \in contracts,
             apps' = [apps EXCEPT ![i] =
               [@ EXCEPT !.phase = AfterInit(i), !.tries = 0, !.watches = r]],
             UNCHANGED <<deployVars, queueVars, workers, txs, arriving, seen, faults>>
      PROVE  TypeInv'
  <2>. DEFINE app == [apps[i] EXCEPT !.phase = AfterInit(i), !.tries = 0, !.watches = r]
  <2>0. AfterInit(i) \in {"check", "ready"} /\ 0 \in 0..MaxWaits + 1
    BY OnChainAssumption DEF OnChainAssumption, AfterInit
  <2>1. app \in App
    BY <1>1, <2>0 DEF App
  <2>3. app.phase \in {"check", "ready"}
    BY <1>1, <2>0 DEF App
  <2>2. apps' = [apps EXCEPT ![i] = app]
    BY <1>8
  <2>. QED BY <1>8, <2>1, <2>2, <2>3, StartTyped
<1>9. CASE WaitAgain(i)
  <2>. DEFINE app == [apps[i] EXCEPT !.tries = @ + 1]
  <2>1. app \in App /\ app.phase = "wait"
    BY <1>1, <1>9, OnChainAssumption DEF OnChainAssumption, App, WaitAgain, TriesLeft
  <2>2. apps' = [apps EXCEPT ![i] = app]
    BY <1>9 DEF WaitAgain
  <2>. QED BY <1>9, <2>1, <2>2, StartTyped DEF WaitAgain
<1>10. CASE WaitEnds(i)
  BY <1>1, <1>10, QuietEndTyped DEF WaitEnds, Ended
<1>. QED
  BY <1>2, <1>3, <1>4, <1>5, <1>6, <1>7, <1>8, <1>9, <1>10 DEF Starts, Watch

\* A start that ends because an awaited call rejects.
LEMMA RejectsTyped ==
  ASSUME TypeInv, NEW i \in Instances, StartRejects(i)
  PROVE  TypeInv'
<1>1. registries \in Nat /\ contracts \subseteq 1..registries
  BY DEF TypeInv, TypeOK
<1>2. faults' \in 0..MaxFaults
  BY OnChainAssumption
     DEF OnChainAssumption, StartRejects, DeployRejects, InsertRejects, QueryRejects, Fault,
         TypeInv, TypeOK
<1>3. End(i, "off") /\ "off" \in Ended /\ UNCHANGED <<callers, queue, stalled, holder, txs>>
  BY DEF StartRejects, DeployRejects, InsertRejects, QueryRejects, Ended
<1>4. CASE DeployRejects(i)
  <2>1. /\ contracts' = contracts /\ registries' \in Nat /\ registries <= registries'
        /\ 1..registries \subseteq 1..registries'
    BY <1>1, <1>4 DEF DeployRejects
  <2>. QED BY <1>1, <1>2, <1>3, <2>1, EndTyped
<1>5. CASE InsertRejects(i)
  <2>1. apps[i].registry \in 1..registries
    BY <1>5 DEF InsertRejects, TypeInv, Recorded
  <2>2. contracts \subseteq contracts' /\ contracts' \subseteq 1..registries' /\ registries' = registries
    BY <1>1, <1>5, <2>1 DEF InsertRejects
  <2>. QED BY <1>1, <1>2, <1>3, <2>2, EndTyped
<1>6. CASE QueryRejects(i)
  BY <1>2, <1>3, <1>6, QuietEndTyped DEF QueryRejects
<1>. QED BY <1>4, <1>5, <1>6 DEF StartRejects

\* A migration: nothing refers to contracts yet, and starts under way go on.
LEMMA MigrateTyped ==
  ASSUME TypeInv, Migrate
  PROVE  TypeInv'
<1>1. registries \in Nat /\ contracts = {} /\ apps \in [Instances -> App]
  BY DEF TypeInv, TypeOK, Migrate, PropertiesExist
<1>2. contracts' = {registries + 1} /\ registries' = registries + 1 /\ apps' = apps
  BY DEF Migrate
<1>3. apps' \in [Instances -> App']
  BY <1>1, <1>2 DEF App
<1>4. Recorded'
  BY <1>1, <1>2 DEF TypeInv, Recorded
<1>. QED BY <1>1, <1>2, <1>3, <1>4, GrowTyped DEF Migrate

-----------------------------------------------------------------------------
(* Calls, the processor, and the chain *)

Events == {"Issuance", "Transfer", "Claim"}
Answers == {"none", "waiting", "resolved", "nothing", "rejected", "gone"}

\* Steps that deploy nothing change no types of transactions.
LEMMA SameTypes ==
  ASSUME UNCHANGED <<deployVars, apps>>
  PROVE  /\ App' = App /\ Transaction' = Transaction
         /\ Recorded' = Recorded
BY DEF deployVars, App, Transaction, Recorded

\* A step of a processor that sends nothing: what it may change is well typed.
LEMMA JobTyped ==
  ASSUME TypeInv, UNCHANGED <<deployVars, apps, callers, stalled, txs, arriving>>,
         answer' \in [Calls -> Answers], queue' \in Seq(Calls),
         holder' \in [Calls -> Instances \cup {None}],
         workers' \in [Instances -> Worker'], HasCall',
         seen' \in [Instances -> [processed: SUBSET Hashes, certificates: SUBSET Hashes]],
         faults' \in 0..MaxFaults
  PROVE  TypeInv'
<1>1. Hashes' = Hashes
  BY DEF Hashes
<1>. QED BY <1>1, SameTypes DEF TypeInv, TypeOK, deployVars, Answers, Transaction

\* One processor that goes on.
LEMMA WorkerTyped ==
  ASSUME TypeInv, NEW i \in Instances, NEW worker \in Worker,
         worker.phase # "idle" => worker.call \in Calls,
         workers' = [workers EXCEPT ![i] = worker], UNCHANGED txs
  PROVE  workers' \in [Instances -> Worker'] /\ HasCall'
BY DEF TypeInv, TypeOK, HasCall, Worker

\* One that rests again after a job that failed.
LEMMA FailedTyped ==
  ASSUME TypeInv, NEW i \in Instances, Throw(i),
         UNCHANGED <<deployVars, apps, callers, queue, stalled, txs, arriving, seen, faults>>
  PROVE  TypeInv'
<1>1. Len(txs) \in Nat /\ Len(txs') \in Nat /\ Len(txs) <= Len(txs')
  BY LenProperties DEF TypeInv, TypeOK
<1>2. workers' \in [Instances -> Worker'] /\ HasCall'
  BY <1>1, ThrowTyped, RestTyped
<1>. QED BY <1>2, ThrowTyped, JobTyped DEF TypeInv, TypeOK, Answers

\* A caller asks.
LEMMA AskTyped ==
  ASSUME TypeInv, NEW i \in Instances, NEW c \in Calls, Ask(i, c)
  PROVE  TypeInv'
<1>1. PICK r \in Requests :
        /\ callers' = [callers EXCEPT ![c] = [at |-> i, request |-> r]]
        /\ \/ answer' = [answer EXCEPT ![c] = "nothing"] /\ UNCHANGED queue
           \/ answer' = [answer EXCEPT ![c] = "waiting"] /\ queue' = Append(queue, c)
  BY DEF Ask
<1>2. r \in Request
  BY OnChainAssumption DEF OnChainAssumption
<1>3. callers' \in [Calls -> [at: Instances \cup {None}, request: Request]]
  BY <1>1, <1>2 DEF TypeInv, TypeOK
<1>4. answer' \in [Calls -> Answers]
  BY <1>1 DEF TypeInv, TypeOK, Answers
<1>5. queue' \in Seq(Calls)
  <2>1. queue \in Seq(Calls)
    BY DEF TypeInv, TypeOK
  <2>. QED BY <1>1, <2>1, AppendProperties
<1>6. Hashes' = Hashes /\ Worker' = Worker /\ HasCall' = HasCall
  BY DEF Ask, Hashes, Worker, HasCall
<1>. QED BY <1>3, <1>4, <1>5, <1>6, SameTypes
         DEF Ask, TypeInv, TypeOK, deployVars, Answers, Transaction

\* A transaction more.
LEMMA SentTyped ==
  ASSUME TypeInv, NEW i \in Instances, NEW r \in contracts, workers[i].phase = "wrap"
  PROVE  /\ Sent(i, r) \in Seq(Transaction)
         /\ Len(txs) \in Nat /\ Len(Sent(i, r)) = Len(txs) + 1
<1>. DEFINE tx == [call |-> workers[i].call, registry |-> r, state |-> "pending"]
<1>1. tx \in Transaction
  BY DEF TypeInv, HasCall, Transaction
<1>2. txs \in Seq(Transaction)
  BY DEF TypeInv, TypeOK, Transaction
<1>. QED BY <1>1, <1>2, AppendProperties, LenProperties DEF Sent

\* What refers to transactions stays well typed when there are more of them.
LEMMA MoreTyped ==
  ASSUME TypeInv, Len(txs') \in Nat, Len(txs) <= Len(txs'), txs' \in Seq(Transaction'),
         UNCHANGED <<deployVars, apps, callers, stalled, queue, arriving, seen>>,
         answer' \in [Calls -> Answers], holder' \in [Calls -> Instances \cup {None}],
         workers' \in [Instances -> Worker'], HasCall', faults' \in 0..MaxFaults
  PROVE  TypeInv'
<1>1. Len(txs) \in Nat
  BY LenProperties DEF TypeInv, TypeOK
<1>2. Hashes \subseteq Hashes'
  BY <1>1 DEF Hashes
<1>3. arriving' \in [Instances -> SUBSET [tx: Hashes', event: Events]]
  BY <1>2 DEF TypeInv, TypeOK, Events
<1>4. seen' \in [Instances -> [processed: SUBSET Hashes', certificates: SUBSET Hashes']]
  BY <1>2 DEF TypeInv, TypeOK
<1>. QED BY <1>3, <1>4, SameTypes DEF TypeInv, TypeOK, deployVars, Answers, Transaction, Events

\* The handler sends, or throws.
LEMMA SendTyped ==
  ASSUME TypeInv, NEW i \in Instances, Send(i) \/ SendThrows(i)
  PROVE  TypeInv'
<1>1. txs \in Seq(Transaction) /\ Transaction' = Transaction /\ Len(txs) \in Nat
  BY SameTypes, LenProperties DEF TypeInv, TypeOK, Transaction, Send, SendThrows
<1>2. CASE Send(i)
  <2>1. PICK r \in contracts : txs' = Sent(i, r)
    BY <1>2 DEF Send
  <2>2. txs' \in Seq(Transaction) /\ Len(txs') = Len(txs) + 1
    BY <1>2, <2>1, SentTyped DEF Send
  <2>. DEFINE worker == [workers[i] EXCEPT !.phase = "poll", !.tries = 0, !.tx = Len(txs) + 1]
  <2>3. workers[i] \in Worker /\ workers[i].call \in Calls
    BY <1>2 DEF TypeInv, TypeOK, HasCall, Send
  <2>4. worker \in Worker' /\ worker.call = workers[i].call
    <3>. DEFINE W == [phase: {"idle", "wrap", "poll", "delay"}, tries: Nat,
                      call: Calls \cup {None}, tx: 0..Len(txs')]
    <3>1. Worker' = W /\ workers[i] \in W /\ Len(txs) + 1 \in 0..Len(txs')
      BY <1>1, <2>2, <2>3 DEF Worker
    <3>2. worker \in W /\ worker.call = workers[i].call
      BY <3>1
    <3>. QED BY <3>1, <3>2
  <2>5. \A j \in Instances : workers[j] \in Worker'
    BY <1>1, <2>2 DEF TypeInv, TypeOK, Worker
  <2>6. workers' = [workers EXCEPT ![i] = worker]
    BY <1>2 DEF Send
  <2>. HIDE DEF worker
  <2>7. workers' \in [Instances -> Worker'] /\ HasCall'
    BY <2>3, <2>4, <2>5, <2>6 DEF TypeInv, TypeOK, HasCall
  <2>8. UNCHANGED <<deployVars, apps, callers, stalled, queue, arriving, seen, answer, holder, faults>>
    BY <1>2 DEF Send, queueVars
  <2>. QED BY <1>1, <2>2, <2>7, <2>8, MoreTyped DEF TypeInv, TypeOK, Answers
<1>3. CASE SendThrows(i)
  <2>1. txs' = txs \/ \E r \in contracts : txs' = Sent(i, r)
    BY <1>3 DEF SendThrows
  <2>2. txs' \in Seq(Transaction) /\ Len(txs') \in Nat /\ Len(txs) <= Len(txs')
    BY <1>1, <1>3, <2>1, SentTyped DEF SendThrows
  <2>3. workers' \in [Instances -> Worker'] /\ HasCall'
    BY <1>1, <1>3, <2>2, ThrowTyped, RestTyped DEF SendThrows
  <2>4. faults' \in 0..MaxFaults
    BY <1>3, OnChainAssumption DEF OnChainAssumption, SendThrows, Fault, TypeInv, TypeOK
  <2>. QED BY <1>1, <1>3, <2>2, <2>3, <2>4, ThrowTyped, MoreTyped DEF SendThrows, Answers
<1>. QED BY <1>2, <1>3

\* A processor's work.
LEMMA WorksTyped ==
  ASSUME TypeInv, NEW i \in Instances, Works(i)
  PROVE  TypeInv'
<1>1. /\ workers[i] \in Worker /\ answer \in [Calls -> Answers] /\ queue \in Seq(Calls)
      /\ holder \in [Calls -> Instances \cup {None}] /\ faults \in 0..MaxFaults
      /\ seen \in [Instances -> [processed: SUBSET Hashes, certificates: SUBSET Hashes]]
      /\ workers[i].phase # "idle" => workers[i].call \in Calls
  BY DEF TypeInv, TypeOK, Answers, HasCall
<1>2. CASE Take(i)
  <2>. DEFINE worker == [Rest EXCEPT !.phase = "wrap", !.call = Head(queue)]
  <2>1. Head(queue) \in Calls /\ Tail(queue) \in Seq(Calls)
    BY <1>1, <1>2, HeadTailProperties DEF Take
  <2>2. worker \in Worker /\ worker.call = Head(queue)
    <3>1. 0 \in 0..Len(txs)
      BY LenProperties DEF TypeInv, TypeOK
    <3>2. Rest \in Worker
      BY <3>1 DEF Rest, Worker
    <3>. HIDE DEF Rest
    <3>3. \A w \in Worker : [w EXCEPT !.phase = "wrap", !.call = Head(queue)] \in Worker
      BY <2>1 DEF Worker
    <3>4. \A w \in Worker : [w EXCEPT !.phase = "wrap", !.call = Head(queue)].call = Head(queue)
      BY <2>1 DEF Worker
    <3>. QED BY <3>2, <3>3, <3>4
  <2>3. workers' \in [Instances -> Worker'] /\ HasCall'
    BY <1>2, <2>1, <2>2, WorkerTyped DEF Take
  <2>4. holder' \in [Calls -> Instances \cup {None}]
    BY <1>1, <1>2 DEF Take
  <2>. QED BY <1>1, <1>2, <2>1, <2>3, <2>4, JobTyped DEF Take
<1>3. CASE WrapAgain(i) \/ PollAgain(i)
  <2>. DEFINE worker == [workers[i] EXCEPT !.tries = @ + 1]
  <2>0. \A w \in Worker : LET v == [w EXCEPT !.tries = @ + 1]
                          IN  v \in Worker /\ v.call = w.call /\ v.phase = w.phase
    BY DEF Worker
  <2>1. worker \in Worker /\ worker.call = workers[i].call /\ worker.phase = workers[i].phase
    BY <1>1, <2>0
  <2>2. workers' = [workers EXCEPT ![i] = worker] /\ UNCHANGED txs
    BY <1>3 DEF WrapAgain, PollAgain
  <2>3. workers' \in [Instances -> Worker'] /\ HasCall'
    BY <1>1, <2>1, <2>2, WorkerTyped
  <2>. QED BY <1>1, <1>3, <2>3, JobTyped DEF WrapAgain, PollAgain, queueVars
<1>4. CASE PollFinds(i)
  <2>. DEFINE worker == [workers[i] EXCEPT !.phase = "delay"]
  <2>1. worker \in Worker /\ worker.call = workers[i].call /\ workers[i].phase = "poll"
    BY <1>1, <1>4 DEF Worker, PollFinds
  <2>2. workers' = [workers EXCEPT ![i] = worker] /\ UNCHANGED txs
    BY <1>4 DEF PollFinds
  <2>3. workers' \in [Instances -> Worker'] /\ HasCall'
    BY <1>1, <2>1, <2>2, WorkerTyped
  <2>4. seen' \in [Instances -> [processed: SUBSET Hashes, certificates: SUBSET Hashes]]
    BY <1>1, <1>4 DEF PollFinds
  <2>. QED BY <1>1, <1>4, <2>3, <2>4, JobTyped DEF PollFinds, queueVars
<1>5. CASE Complete(i)
  <2>1. Len(txs) \in Nat /\ Len(txs') \in Nat /\ Len(txs) <= Len(txs')
    BY <1>5, LenProperties DEF TypeInv, TypeOK, Complete
  <2>2. workers' \in [Instances -> Worker'] /\ HasCall'
    BY <1>5, <2>1, RestTyped DEF Complete
  <2>3. answer' \in [Calls -> Answers]
    BY <1>1, <1>5, TellTyped DEF Complete, Answers
  <2>4. holder' \in [Calls -> Instances \cup {None}]
    BY <1>1, <1>5 DEF Complete
  <2>. QED BY <1>1, <1>5, <2>2, <2>3, <2>4, JobTyped DEF Complete
<1>. QED
  BY <1>2, <1>3, <1>4, <1>5, SendTyped, FailedTyped
     DEF Works, WrapEnds, HandlerRefuses, PollEnds

\* A job that stalls.
LEMMA StalledTyped ==
  ASSUME TypeInv, NEW c \in Calls, CheckStalled(c) \/ LoseLock(c)
  PROVE  TypeInv'
<1>1. /\ answer \in [Calls -> Answers] /\ queue \in Seq(Calls) /\ stalled \in [Calls -> Nat]
      /\ holder \in [Calls -> Instances \cup {None}] /\ faults \in 0..MaxFaults
  BY DEF TypeInv, TypeOK, Answers
<1>2. RerunStalled(c) /\ holder' = [holder EXCEPT ![c] = None]
  BY DEF CheckStalled, LoseLock
<1>3. holder' \in [Calls -> Instances \cup {None}]
  BY <1>1, <1>2
<1>4. <<c>> \in Seq(Calls)
  OBVIOUS
<1>5. <<c>> \o queue \in Seq(Calls)
  BY <1>1, <1>4, ConcatProperties
<1>6. /\ queue' \in {queue, <<c>> \o queue}
      /\ stalled' \in {stalled, [stalled EXCEPT ![c] = @ + 1]}
  BY <1>2 DEF RerunStalled
<1>7. answer' \in [Calls -> Answers]
  BY <1>1, <1>2, TellTyped DEF RerunStalled, Answers
<1>8. faults' \in 0..MaxFaults
  BY <1>1, OnChainAssumption DEF OnChainAssumption, CheckStalled, LoseLock, Fault
<1>9. UNCHANGED <<contracts, registries, apps, callers, workers, txs, arriving, seen>>
  BY DEF CheckStalled, LoseLock, deployVars
<1>10. Hashes' = Hashes /\ Worker' = Worker /\ HasCall' = HasCall
       /\ App' = App /\ Recorded' = Recorded
  BY <1>9 DEF Hashes, Worker, HasCall, App, Recorded
<1>11. queue' \in Seq(Calls) /\ stalled' \in [Calls -> Nat]
  <2>1. [stalled EXCEPT ![c] = @ + 1] \in [Calls -> Nat]
    BY <1>1
  <2>. QED BY <1>1, <1>5, <1>6, <2>1
<1>. QED BY <1>3, <1>7, <1>8, <1>9, <1>10, <1>11 DEF TypeInv, TypeOK, Answers

\* A transaction is mined or reverted.
LEMMA ChainTyped ==
  ASSUME TypeInv, NEW t \in Hashes, Mine(t) \/ Revert(t)
  PROVE  TypeInv'
<1>1. txs \in Seq(Transaction) /\ Transaction' = Transaction
  BY SameTypes DEF TypeInv, TypeOK, Transaction, Mine, Revert
<1>2. PICK state \in {"mined", "reverted"} : txs' = [txs EXCEPT ![t] = [@ EXCEPT !.state = state]]
  BY DEF Mine, Revert
<1>3. [txs[t] EXCEPT !.state = state] \in Transaction
  <2>1. txs[t] \in Transaction
    BY <1>1, ElementOfSeq DEF Hashes
  <2>. QED BY <2>1 DEF Transaction
<1>4. txs' \in Seq(Transaction) /\ Len(txs') = Len(txs)
  BY <1>1, <1>2, <1>3, ExceptSeq DEF Hashes
<1>5. Hashes' = Hashes /\ Worker' = Worker
  BY <1>4 DEF Hashes, Worker
<1>6. arriving' \in [Instances -> SUBSET [tx: Hashes, event: Events]]
  <2>1. arriving \in [Instances -> SUBSET [tx: Hashes, event: Events]]
    BY DEF TypeInv, TypeOK, Events
  <2>2. \A type : EventsOf(type) \subseteq Events
    BY DEF EventsOf, Events
  <2>3. CASE Revert(t)
    BY <2>1, <2>3 DEF Revert
  <2>4. CASE Mine(t)
    <3>. DEFINE new == {[tx |-> t, event |-> e] : e \in EventsOf(callers[txs[t].call].request.type)}
    <3>1. new \subseteq [tx: Hashes, event: Events]
      BY <2>2
    <3>2. arriving' = [i \in Instances |->
            IF apps[i].watches = txs[t].registry THEN arriving[i] \cup new ELSE arriving[i]]
      BY <2>4 DEF Mine
    <3>. HIDE DEF new
    <3>. QED BY <2>1, <3>1, <3>2
  <2>. QED BY <2>3, <2>4
<1>7. UNCHANGED <<deployVars, apps, queueVars, workers, seen, faults>>
  BY DEF Mine, Revert
<1>8. HasCall' = HasCall
  BY <1>7 DEF HasCall
<1>. QED BY <1>1, <1>4, <1>5, <1>6, <1>7, <1>8, SameTypes
         DEF TypeInv, TypeOK, deployVars, queueVars, Transaction, Events

\* Events arrive, or are lost.
LEMMA ListenerTyped ==
  ASSUME TypeInv, NEW i \in Instances, ProcessEvent(i) \/ LoseEvent(i)
  PROVE  TypeInv'
<1>1. /\ arriving \in [Instances -> SUBSET [tx: Hashes, event: Events]]
      /\ seen \in [Instances -> [processed: SUBSET Hashes, certificates: SUBSET Hashes]]
      /\ faults \in 0..MaxFaults
  BY DEF TypeInv, TypeOK, Events
<1>2. PICK a \in arriving[i] :
        /\ arriving' = [arriving EXCEPT ![i] = @ \ {a}]
        /\ \/ UNCHANGED seen
           \/ seen' = [seen EXCEPT ![i] =
                [processed    |-> @.processed \cup {a.tx},
                 certificates |-> @.certificates \cup {t \in {a.tx} : a.event = "Issuance"}]]
  BY DEF ProcessEvent, LoseEvent
<1>3. a.tx \in Hashes
  BY <1>1
<1>4. arriving' \in [Instances -> SUBSET [tx: Hashes, event: Events]]
  BY <1>1, <1>2
<1>5. seen' \in [Instances -> [processed: SUBSET Hashes, certificates: SUBSET Hashes]]
  BY <1>1, <1>2, <1>3
<1>6. UNCHANGED <<deployVars, apps, queueVars, workers, txs>>
  BY DEF ProcessEvent, LoseEvent
<1>7. faults' \in 0..MaxFaults
  BY <1>1, OnChainAssumption DEF OnChainAssumption, ProcessEvent, LoseEvent, Fault
<1>8. Hashes' = Hashes /\ Worker' = Worker /\ HasCall' = HasCall
  BY <1>6 DEF Hashes, Worker, HasCall
<1>. QED BY <1>4, <1>5, <1>6, <1>7, <1>8, SameTypes
         DEF TypeInv, TypeOK, deployVars, queueVars, Transaction, Events

\* A process that is killed.
LEMMA CrashTyped ==
  ASSUME TypeInv, NEW i \in Instances, Crash(i)
  PROVE  TypeInv'
<1>1. faults' \in 0..MaxFaults
  BY OnChainAssumption DEF OnChainAssumption, Crash, Fault, TypeInv, TypeOK
<1>. QED BY <1>1, QuietEndTyped DEF Crash, Ended

\* The invariant of types holds at the start.
LEMMA InitTyped == Init => TypeInv
<1>. SUFFICES ASSUME Init PROVE TypeInv
  OBVIOUS
<1>. USE OnChainAssumption DEF OnChainAssumption
<1>1. apps \in [Instances -> App] /\ contracts \subseteq 1..registries /\ Recorded
  BY DEF Init, Off, App, Recorded, Ended
<1>2. callers \in [Calls -> [at: Instances \cup {None}, request: Request]]
  BY DEF Init, NoCall, Request, ActionTypes
<1>3. txs \in Seq(Transaction) /\ Len(txs) = 0 /\ queue \in Seq(Calls)
  BY EmptySeq DEF Init
<1>4. workers \in [Instances -> Worker] /\ HasCall
  BY <1>3 DEF Init, Rest, Worker, HasCall
<1>5. seen \in [Instances -> [processed: SUBSET Hashes, certificates: SUBSET Hashes]]
  BY DEF Init, Blind
<1>. QED BY <1>1, <1>2, <1>3, <1>4, <1>5 DEF Init, TypeInv, TypeOK, Transaction

\* Every step keeps the invariant of types.
LEMMA StepTyped == TypeInv /\ [Next]_vars => TypeInv'
<1>. SUFFICES ASSUME TypeInv, [Next]_vars PROVE TypeInv'
  OBVIOUS
<1>1. CASE UNCHANGED vars
  BY <1>1 DEF vars, TypeInv, TypeOK, Recorded, HasCall, App, Worker, Hashes
<1>2. CASE \E i \in Instances : \/ Boot(i) \/ Starts(i) \/ StartRejects(i) \/ Works(i)
                               \/ SendThrows(i) \/ ProcessEvent(i) \/ LoseEvent(i) \/ Crash(i)
  BY <1>2, StartsTyped, RejectsTyped, WorksTyped, SendTyped, ListenerTyped, CrashTyped
<1>3. CASE \E t \in 1..Len(txs) : Mine(t) \/ Revert(t)
  BY <1>3, ChainTyped DEF Hashes
<1>. QED BY <1>1, <1>2, <1>3, AskTyped, StalledTyped, MigrateTyped DEF Next

\* Whatever is asked, sent, mined, lost and restarted: every variable keeps
\* its type; in particular every transaction goes to contracts that the
\* table records, and a processor's transaction is one that was sent.
THEOREM OnChainTypeCorrectness == Spec => []TypeOK
<1>1. TypeInv => TypeOK
  BY DEF TypeInv
<1>. QED BY <1>1, InitTyped, StepTyped, PTL DEF Spec

-----------------------------------------------------------------------------
(* The promise to the callers *)

Mined == {t \in Hashes : txs[t].state = "mined"}

\* Nobody works, or has worked, for a call.
Untouched(c) ==
  /\ \A n \in 1..Len(queue) : queue[n] # c
  /\ holder[c] = None
  /\ \A i \in Instances : workers[i].call # c
  /\ \A t \in Hashes : txs[t].call # c

\* What keeps the promise: nobody works for a call that has not been made; a
\* processor polls for the transaction that it sent for its call, and what
\* listeners report, and the poll finds, has been mined.
UnmadeUntouched == \A c \in Calls : answer[c] \in {"none", "nothing"} => Untouched(c)
PollsItsOwn ==
  \A i \in Instances : workers[i].phase \in {"poll", "delay"} =>
    workers[i].tx \in Hashes /\ txs[workers[i].tx].call = workers[i].call
FoundMined == \A i \in Instances : workers[i].phase = "delay" => workers[i].tx \in Mined
SeenMined == \A i \in Instances : seen[i].processed \cup seen[i].certificates \subseteq Mined
ArrivingMined == \A i \in Instances : \A a \in arriving[i] : a.tx \in Mined

PromiseInv == UnmadeUntouched /\ PollsItsOwn /\ FoundMined /\ SeenMined /\ ArrivingMined

\* All that is not about answers depends on these alone.
LEMMA SameMined ==
  ASSUME UNCHANGED txs
  PROVE  Mined' = Mined /\ Hashes' = Hashes /\ executed' = executed
BY DEF Mined, Hashes, executed

\* A step of a start touches nothing of it.
LEMMA StartKeeps ==
  ASSUME PromiseInv,
         UNCHANGED <<answer, queue, holder, workers, txs, arriving, seen>>
  PROVE  PromiseInv' /\ UNCHANGED <<answer, executed>>
BY SameMined DEF PromiseInv, UnmadeUntouched, Untouched, PollsItsOwn, FoundMined,
                 SeenMined, ArrivingMined

\* The end of a process: its callers leave together.
LEMMA EndKeeps ==
  ASSUME TypeInv, PromiseInv, NEW i \in Instances, NEW phase, End(i, phase),
         UNCHANGED <<queue, holder, txs>>
  PROVE  PromiseInv' /\ Promise!Next
<1>1. Mined' = Mined /\ Hashes' = Hashes /\ executed' = executed
  BY SameMined
<1>. DEFINE S == {c \in Calls : answer[c] = "waiting" /\ callers[c].at = i}
<1>2. answer' = [c \in Calls |-> IF c \in S THEN "gone" ELSE answer[c]]
  BY DEF End
<1>3. Promise!Leave(S)
  BY <1>1, <1>2 DEF Promise!Leave
<1>4. workers' = [workers EXCEPT ![i] = Rest] /\ workers \in [Instances -> Worker]
  BY DEF End, TypeInv, TypeOK
<1>5. UnmadeUntouched'
  <2>1. ASSUME NEW c \in Calls, answer'[c] \in {"none", "nothing"} PROVE Untouched(c)'
    <3>1. Untouched(c)
      BY <1>2, <2>1 DEF PromiseInv, UnmadeUntouched
    <3>2. \A j \in Instances : workers'[j].call # c
      BY <1>4, <3>1, OnChainAssumption DEF OnChainAssumption, Untouched, Rest
    <3>. QED BY <1>1, <3>1, <3>2 DEF Untouched
  <2>. QED BY <2>1 DEF UnmadeUntouched
<1>6. PollsItsOwn' /\ FoundMined'
  BY <1>1, <1>4 DEF PromiseInv, PollsItsOwn, FoundMined, Rest
<1>7. SeenMined' /\ ArrivingMined'
  BY <1>1 DEF PromiseInv, SeenMined, ArrivingMined, End, Blind, TypeInv, TypeOK
<1>. QED BY <1>3, <1>5, <1>6, <1>7 DEF PromiseInv, Promise!Next

\* An answer to a caller is one that the promise allows, or nobody waits for it.
LEMMA TellKeeps ==
  ASSUME TypeInv, NEW c \in Calls, NEW result \in {"resolved", "rejected"},
         Tell(c, result), result = "resolved" => c \in executed, executed' = executed
  PROVE  /\ Promise!Next \/ UNCHANGED <<answer, executed>>
         /\ \A d \in Calls : answer'[d] \in {"none", "nothing"} => answer[d] = answer'[d]
<1>1. answer \in [Calls -> Answers]
  BY DEF TypeInv, TypeOK, Answers
<1>2. CASE answer[c] = "waiting"
  <2>1. answer' = [answer EXCEPT ![c] = result]
    BY <1>1, <1>2 DEF Tell
  <2>2. Promise!Resolve(c) \/ Promise!Reject(c)
    BY <1>2, <2>1 DEF Promise!Resolve, Promise!Reject
  <2>. QED BY <1>1, <2>1, <2>2 DEF Promise!Next
<1>3. CASE answer[c] # "waiting"
  BY <1>1, <1>3 DEF Tell
<1>. QED BY <1>2, <1>3

\* A transaction more executes nothing yet.
LEMMA SentMined ==
  ASSUME TypeInv, NEW i \in Instances, workers[i].phase = "wrap",
         \/ UNCHANGED txs
         \/ \E r \in contracts : txs' = Sent(i, r)
  PROVE  /\ Mined' = Mined /\ executed' = executed /\ Hashes \subseteq Hashes'
         /\ \A t \in Hashes : txs'[t] = txs[t]
         /\ \A t \in Hashes' : t \in Hashes \/ txs'[t].call = workers[i].call
<1>1. CASE UNCHANGED txs
  BY <1>1, SameMined
<1>2. ASSUME NEW r \in contracts, txs' = Sent(i, r)
      PROVE  /\ Mined' = Mined /\ executed' = executed /\ Hashes \subseteq Hashes'
             /\ \A t \in Hashes : txs'[t] = txs[t]
             /\ \A t \in Hashes' : t \in Hashes \/ txs'[t].call = workers[i].call
  <2>. DEFINE tx == [call |-> workers[i].call, registry |-> r, state |-> "pending"]
  <2>1. txs \in Seq(Transaction)
    BY DEF TypeInv, TypeOK, Transaction
  <2>2. tx \in Transaction
    BY DEF TypeInv, HasCall, Transaction
  <2>3. txs' = Append(txs, tx)
    BY <1>2 DEF Sent
  <2>. HIDE DEF tx
  <2>4. /\ Len(txs) \in Nat /\ Len(txs') = Len(txs) + 1
        /\ \A t \in 1..Len(txs) : txs'[t] = txs[t]
        /\ txs'[Len(txs) + 1] = tx
    BY <2>1, <2>2, <2>3, AppendProperties, LenProperties
  <2>5. Hashes' = Hashes \cup {Len(txs) + 1} /\ Hashes = 1..Len(txs)
    BY <2>4 DEF Hashes
  <2>6. tx.state # "mined" /\ tx.call = workers[i].call
    BY DEF tx
  <2>7. Mined' = Mined
    BY <2>4, <2>5, <2>6 DEF Mined
  <2>8. executed' = executed
    <3>1. executed = {txs[t].call : t \in Mined} /\ executed' = {txs'[t].call : t \in Mined'}
      BY DEF executed, Mined
    <3>2. \A t \in Mined : txs'[t].call = txs[t].call
      BY <2>4, <2>5 DEF Mined
    <3>. QED BY <2>7, <3>1, <3>2
  <2>. QED BY <2>4, <2>5, <2>6, <2>7, <2>8
<1>. QED BY <1>1, <1>2

\* What a job leaves as it was.
LEMMA JobKeeps ==
  ASSUME TypeInv, PromiseInv, NEW i \in Instances, workers[i].phase # "idle",
         \/ UNCHANGED txs
         \/ workers[i].phase = "wrap" /\ \E r \in contracts : txs' = Sent(i, r),
         UNCHANGED <<queue, arriving>>,
         \A j \in Instances : /\ seen'[j].processed \subseteq seen[j].processed
                              /\ seen'[j].certificates \subseteq seen[j].certificates,
         NEW worker, workers' = [workers EXCEPT ![i] = worker],
         worker.call \in {None, workers[i].call},
         holder' \in {holder, [holder EXCEPT ![workers[i].call] = None]},
         \A c \in Calls : answer'[c] \in {"none", "nothing"} => answer[c] = answer'[c]
  PROVE  UnmadeUntouched' /\ SeenMined' /\ ArrivingMined'
<1>1. /\ Mined' = Mined /\ Hashes \subseteq Hashes'
      /\ \A t \in Hashes : txs'[t] = txs[t]
      /\ \A t \in Hashes' : t \in Hashes \/ txs'[t].call = workers[i].call
  BY SentMined, SameMined
<1>2. SeenMined'
  BY <1>1 DEF PromiseInv, SeenMined
<1>3. ArrivingMined'
  BY <1>1 DEF PromiseInv, ArrivingMined
<1>4. ASSUME NEW c \in Calls, answer'[c] \in {"none", "nothing"} PROVE Untouched(c)'
  <2>1. Untouched(c)
    BY <1>4 DEF PromiseInv, UnmadeUntouched
  <2>2. workers[i].call # c /\ None # c
    BY <2>1, OnChainAssumption DEF OnChainAssumption, Untouched
  <2>3. \A j \in Instances : workers'[j].call # c
    BY <2>1, <2>2 DEF Untouched, TypeInv, TypeOK
  <2>4. holder'[c] = None
    BY <2>1 DEF Untouched, TypeInv, TypeOK
  <2>5. \A t \in Hashes' : txs'[t].call # c
    BY <1>1, <2>1, <2>2 DEF Untouched
  <2>. QED BY <2>1, <2>3, <2>4, <2>5 DEF Untouched
<1>. QED BY <1>2, <1>3, <1>4 DEF UnmadeUntouched

\* The processors that go on polling for what they did.
LEMMA PollsKeep ==
  ASSUME TypeInv, PromiseInv, NEW i \in Instances, NEW worker,
         workers' = [workers EXCEPT ![i] = worker],
         Mined' = Mined, Hashes \subseteq Hashes', \A t \in Hashes : txs'[t] = txs[t],
         worker.phase \in {"poll", "delay"} =>
           worker.tx \in Hashes' /\ txs'[worker.tx].call = worker.call,
         worker.phase = "delay" => worker.tx \in Mined
  PROVE  PollsItsOwn' /\ FoundMined'
<1>1. workers \in [Instances -> Worker]
  BY DEF TypeInv, TypeOK
<1>2. \A j \in Instances : workers'[j] = IF j = i THEN worker ELSE workers[j]
  BY <1>1
<1>3. PollsItsOwn'
  BY <1>2 DEF PromiseInv, PollsItsOwn
<1>4. FoundMined'
  BY <1>2 DEF PromiseInv, FoundMined
<1>. QED BY <1>3, <1>4

\* A job that fails, perhaps after its transaction was sent.
LEMMA ThrowKeeps ==
  ASSUME TypeInv, PromiseInv, NEW i \in Instances, workers[i].phase # "idle", Throw(i),
         \/ UNCHANGED txs
         \/ workers[i].phase = "wrap" /\ \E r \in contracts : txs' = Sent(i, r),
         UNCHANGED <<queue, arriving, seen>>
  PROVE  PromiseInv' /\ (Promise!Next \/ UNCHANGED <<answer, executed>>)
<1>. DEFINE c == workers[i].call
<1>1. c \in Calls
  BY DEF TypeInv, HasCall
<1>2. /\ Mined' = Mined /\ executed' = executed /\ Hashes \subseteq Hashes'
      /\ \A t \in Hashes : txs'[t] = txs[t]
  BY SentMined, SameMined
<1>3. /\ Tell(c, "rejected") \/ UNCHANGED answer
      /\ holder' \in {holder, [holder EXCEPT ![workers[i].call] = None]}
      /\ workers' = [workers EXCEPT ![i] = Rest]
  BY DEF Throw
<1>4. /\ Promise!Next \/ UNCHANGED <<answer, executed>>
      /\ \A d \in Calls : answer'[d] \in {"none", "nothing"} => answer[d] = answer'[d]
  BY <1>1, <1>2, <1>3, TellKeeps
<1>5. Rest.call = None /\ Rest.phase = "idle"
  BY DEF Rest
<1>6. UnmadeUntouched' /\ SeenMined' /\ ArrivingMined'
  BY <1>3, <1>4, <1>5, JobKeeps
<1>7. PollsItsOwn' /\ FoundMined'
  BY <1>2, <1>3, <1>5, PollsKeep
<1>. QED BY <1>4, <1>6, <1>7 DEF PromiseInv

\* A processor takes a job: somebody asked for it.
LEMMA TakeKeeps ==
  ASSUME TypeInv, PromiseInv, NEW i \in Instances, Take(i)
  PROVE  PromiseInv' /\ UNCHANGED <<answer, executed>>
<1>. DEFINE worker == [Rest EXCEPT !.phase = "wrap", !.call = Head(queue)]
<1>1. /\ Mined' = Mined /\ executed' = executed /\ Hashes' = Hashes
      /\ UNCHANGED <<txs, answer, arriving, seen>>
  BY SameMined DEF Take
<1>2. queue \in Seq(Calls) /\ queue # <<>>
  BY DEF Take, TypeInv, TypeOK
<1>3. /\ Len(queue) \in Nat /\ Len(queue') = Len(queue) - 1 /\ 1 \in 1..Len(queue)
      /\ \A n \in 1..Len(queue') : queue'[n] = queue[n + 1]
      /\ Head(queue) = queue[1]
  BY <1>2, HeadTailProperties, LenProperties DEF Take
<1>4. worker.call = Head(queue) /\ worker.phase = "wrap"
  BY DEF Rest
<1>5. workers' = [workers EXCEPT ![i] = worker] /\ holder' = [holder EXCEPT ![Head(queue)] = i]
  BY DEF Take
<1>. HIDE DEF worker
<1>6. PollsItsOwn' /\ FoundMined'
  BY <1>1, <1>4, <1>5, PollsKeep
<1>7. ASSUME NEW c \in Calls, answer'[c] \in {"none", "nothing"} PROVE Untouched(c)'
  <2>1. Untouched(c)
    BY <1>1, <1>7 DEF PromiseInv, UnmadeUntouched
  <2>2. Head(queue) # c
    BY <1>3, <2>1 DEF Untouched
  <2>3. \A n \in 1..Len(queue') : queue'[n] # c
    <3>1. \A n \in 1..Len(queue') : n + 1 \in 1..Len(queue)
      BY <1>3
    <3>. QED BY <1>3, <2>1, <3>1 DEF Untouched
  <2>4. holder'[c] = None
    BY <1>5, <2>1, <2>2 DEF Untouched, TypeInv, TypeOK
  <2>5. \A j \in Instances : workers'[j].call # c
    BY <1>4, <1>5, <2>1, <2>2 DEF Untouched, TypeInv, TypeOK
  <2>. QED BY <1>1, <2>1, <2>3, <2>4, <2>5 DEF Untouched
<1>8. SeenMined' /\ ArrivingMined'
  BY <1>1 DEF PromiseInv, SeenMined, ArrivingMined
<1>. QED BY <1>1, <1>6, <1>7, <1>8 DEF PromiseInv, UnmadeUntouched

\* The steps of a job that do not end it.
LEMMA WorkKeeps ==
  ASSUME TypeInv, PromiseInv, NEW i \in Instances,
         WrapAgain(i) \/ Send(i) \/ PollFinds(i) \/ PollAgain(i)
  PROVE  PromiseInv' /\ UNCHANGED <<answer, executed>>
<1>1. workers[i] \in Worker /\ seen \in [Instances -> [processed: SUBSET Hashes, certificates: SUBSET Hashes]]
  BY DEF TypeInv, TypeOK
<1>2. CASE WrapAgain(i) \/ PollAgain(i)
  <2>. DEFINE worker == [workers[i] EXCEPT !.tries = @ + 1]
  <2>1. /\ worker.call = workers[i].call /\ worker.phase = workers[i].phase
        /\ worker.tx = workers[i].tx
    BY <1>1 DEF Worker
  <2>2. workers' = [workers EXCEPT ![i] = worker]
    BY <1>2 DEF WrapAgain, PollAgain
  <2>. HIDE DEF worker
  <2>3. /\ Mined' = Mined /\ executed' = executed /\ Hashes' = Hashes
        /\ UNCHANGED <<txs, answer, queue, holder, arriving, seen>> /\ workers[i].phase # "idle"
    BY <1>2, SameMined DEF WrapAgain, PollAgain, queueVars
  <2>4. UnmadeUntouched' /\ SeenMined' /\ ArrivingMined'
    BY <2>1, <2>2, <2>3, JobKeeps
  <2>5. PollsItsOwn' /\ FoundMined'
    BY <2>1, <2>2, <2>3, PollsKeep DEF PromiseInv, PollsItsOwn, FoundMined
  <2>. QED BY <2>3, <2>4, <2>5 DEF PromiseInv
<1>3. CASE Send(i)
  <2>1. PICK r \in contracts : txs' = Sent(i, r)
    BY <1>3 DEF Send
  <2>. DEFINE worker == [workers[i] EXCEPT !.phase = "poll", !.tries = 0, !.tx = Len(txs) + 1]
  <2>2. worker.call = workers[i].call
    BY <1>1 DEF Worker
  <2>3. worker.phase = "poll"
    BY <1>1 DEF Worker
  <2>4. worker.tx = Len(txs) + 1
    BY <1>1 DEF Worker
  <2>5. workers' = [workers EXCEPT ![i] = worker]
    BY <1>3 DEF Send
  <2>. HIDE DEF worker
  <2>6. /\ Mined' = Mined /\ executed' = executed /\ Hashes \subseteq Hashes'
        /\ \A t \in Hashes : txs'[t] = txs[t]
        /\ \A t \in Hashes' : t \in Hashes \/ txs'[t].call = workers[i].call
    BY <1>3, <2>1, SentMined DEF Send
  <2>7. Len(txs) + 1 \in Hashes' /\ Len(txs) + 1 \notin Hashes
    BY <1>3, <2>1, SentTyped DEF Send, Hashes
  <2>8. PollsItsOwn' /\ FoundMined'
    BY <2>2, <2>3, <2>4, <2>5, <2>6, <2>7, PollsKeep
  <2>9. workers[i].phase = "wrap" /\ UNCHANGED <<answer, queue, holder, arriving, seen>>
    BY <1>3 DEF Send, queueVars
  <2>10. UnmadeUntouched' /\ SeenMined' /\ ArrivingMined'
    BY <2>1, <2>2, <2>5, <2>9, JobKeeps
  <2>. QED BY <2>6, <2>8, <2>9, <2>10 DEF PromiseInv
<1>4. CASE PollFinds(i)
  <2>. DEFINE worker == [workers[i] EXCEPT !.phase = "delay"]
  <2>1. worker.call = workers[i].call /\ worker.phase = "delay" /\ worker.tx = workers[i].tx
    BY <1>1 DEF Worker
  <2>2. workers' = [workers EXCEPT ![i] = worker]
    BY <1>4 DEF PollFinds
  <2>. HIDE DEF worker
  <2>3. /\ Mined' = Mined /\ executed' = executed /\ Hashes' = Hashes
        /\ UNCHANGED <<txs, answer, queue, holder, arriving>> /\ workers[i].phase = "poll"
    BY <1>4, SameMined DEF PollFinds, queueVars
  <2>4. \A j \in Instances : /\ seen'[j].processed \subseteq seen[j].processed
                             /\ seen'[j].certificates \subseteq seen[j].certificates
    BY <1>1, <1>4 DEF PollFinds
  <2>5. UnmadeUntouched' /\ SeenMined' /\ ArrivingMined'
    BY <2>1, <2>2, <2>3, <2>4, JobKeeps
  <2>6. workers[i].tx \in Mined
    BY <1>4 DEF PollFinds, Found, PromiseInv, SeenMined
  <2>7. workers[i].tx \in Hashes /\ txs[workers[i].tx].call = workers[i].call
    BY <2>3 DEF PromiseInv, PollsItsOwn
  <2>8. PollsItsOwn' /\ FoundMined'
    BY <2>1, <2>2, <2>3, <2>6, <2>7, PollsKeep
  <2>. QED BY <2>3, <2>5, <2>8 DEF PromiseInv
<1>. QED BY <1>2, <1>3, <1>4

\* A job that is completed was executed.
LEMMA CompleteKeeps ==
  ASSUME TypeInv, PromiseInv, NEW i \in Instances, Complete(i)
  PROVE  PromiseInv' /\ (Promise!Next \/ UNCHANGED <<answer, executed>>)
<1>. DEFINE c == workers[i].call
<1>1. c \in Calls /\ workers[i].phase = "delay"
  BY DEF TypeInv, HasCall, Complete
<1>2. /\ Mined' = Mined /\ executed' = executed /\ Hashes' = Hashes
      /\ UNCHANGED <<txs, queue, arriving, seen>>
  BY SameMined DEF Complete
<1>3. c \in executed
  BY <1>1 DEF PromiseInv, FoundMined, PollsItsOwn, executed, Mined
<1>4. /\ Tell(c, "resolved") \/ UNCHANGED answer
      /\ holder' \in {holder, [holder EXCEPT ![workers[i].call] = None]}
      /\ workers' = [workers EXCEPT ![i] = Rest]
  BY DEF Complete
<1>5. /\ Promise!Next \/ UNCHANGED <<answer, executed>>
      /\ \A d \in Calls : answer'[d] \in {"none", "nothing"} => answer[d] = answer'[d]
  BY <1>1, <1>2, <1>3, <1>4, TellKeeps
<1>6. Rest.call = None /\ Rest.phase = "idle"
  BY DEF Rest
<1>7. UnmadeUntouched' /\ SeenMined' /\ ArrivingMined'
  BY <1>1, <1>2, <1>4, <1>5, <1>6, JobKeeps
<1>8. PollsItsOwn' /\ FoundMined'
  BY <1>2, <1>4, <1>6, PollsKeep
<1>. QED BY <1>5, <1>7, <1>8 DEF PromiseInv

\* A caller asks, for something or for nothing.
LEMMA AskKeeps ==
  ASSUME TypeInv, PromiseInv, NEW i \in Instances, NEW c \in Calls, Ask(i, c)
  PROVE  PromiseInv' /\ Promise!Next
<1>1. /\ Mined' = Mined /\ executed' = executed /\ Hashes' = Hashes
      /\ UNCHANGED <<txs, holder, workers, arriving, seen>>
  BY SameMined DEF Ask
<1>2. /\ answer[c] = "none"
      /\ \/ answer' = [answer EXCEPT ![c] = "nothing"] /\ UNCHANGED queue
         \/ answer' = [answer EXCEPT ![c] = "waiting"] /\ queue' = Append(queue, c)
  BY DEF Ask
<1>3. Promise!Ask(c)
  BY <1>1, <1>2 DEF Promise!Ask
<1>4. queue \in Seq(Calls) /\ answer \in [Calls -> Answers]
  BY DEF TypeInv, TypeOK, Answers
<1>5. /\ Len(Append(queue, c)) = Len(queue) + 1 /\ Len(queue) \in Nat
      /\ \A n \in 1..Len(queue) : Append(queue, c)[n] = queue[n]
      /\ Append(queue, c)[Len(queue) + 1] = c
  BY <1>4, AppendProperties, LenProperties
<1>6. ASSUME NEW d \in Calls, answer'[d] \in {"none", "nothing"} PROVE Untouched(d)'
  <2>1. Untouched(d)
    BY <1>2, <1>4, <1>6 DEF PromiseInv, UnmadeUntouched
  <2>2. \A n \in 1..Len(queue') : queue'[n] # d
    <3>1. CASE UNCHANGED queue
      BY <2>1, <3>1 DEF Untouched
    <3>2. CASE answer' = [answer EXCEPT ![c] = "waiting"] /\ queue' = Append(queue, c)
      <4>1. c # d
        BY <1>4, <1>6, <3>2
      <4>. QED BY <1>5, <2>1, <3>2, <4>1 DEF Untouched
    <3>. QED BY <1>2, <3>1, <3>2
  <2>. QED BY <1>1, <2>1, <2>2 DEF Untouched
<1>7. PollsItsOwn' /\ FoundMined' /\ SeenMined' /\ ArrivingMined'
  BY <1>1 DEF PromiseInv, PollsItsOwn, FoundMined, SeenMined, ArrivingMined
<1>. QED BY <1>3, <1>6, <1>7 DEF PromiseInv, UnmadeUntouched, Promise!Next

\* A job that stalls had been asked for, and may be rerun or failed.
LEMMA StalledKeeps ==
  ASSUME TypeInv, PromiseInv, NEW c \in Calls, CheckStalled(c) \/ LoseLock(c)
  PROVE  PromiseInv' /\ (Promise!Next \/ UNCHANGED <<answer, executed>>)
<1>1. /\ Mined' = Mined /\ executed' = executed /\ Hashes' = Hashes
      /\ UNCHANGED <<txs, workers, arriving, seen>>
  BY SameMined DEF CheckStalled, LoseLock
<1>2. holder[c] # None /\ holder' = [holder EXCEPT ![c] = None] /\ RerunStalled(c)
  BY DEF CheckStalled, LoseLock
<1>3. /\ Tell(c, "rejected") \/ UNCHANGED answer
      /\ queue' \in {queue, <<c>> \o queue}
  BY <1>2 DEF RerunStalled
<1>4. /\ Promise!Next \/ UNCHANGED <<answer, executed>>
      /\ \A d \in Calls : answer'[d] \in {"none", "nothing"} => answer[d] = answer'[d]
  BY <1>1, <1>3, TellKeeps
<1>5. /\ queue \in Seq(Calls) /\ <<c>> \in Seq(Calls) /\ Len(<<c>>) = 1 /\ <<c>>[1] = c
      /\ holder \in [Calls -> Instances \cup {None}]
  BY DEF TypeInv, TypeOK
<1>6. \A n \in 1..Len(<<c>> \o queue) :
        (<<c>> \o queue)[n] = c \/ \E m \in 1..Len(queue) : (<<c>> \o queue)[n] = queue[m]
  <2>1. /\ Len(<<c>> \o queue) = 1 + Len(queue) /\ Len(queue) \in Nat
        /\ \A n \in 1..Len(<<c>> \o queue) :
             (<<c>> \o queue)[n] = IF n <= 1 THEN <<c>>[n] ELSE queue[n - 1]
    BY <1>5, ConcatProperties, LenProperties
  <2>2. \A n \in 1..1 + Len(queue) : n = 1 \/ (~(n <= 1) /\ n - 1 \in 1..Len(queue))
    BY <2>1
  <2>. QED BY <1>5, <2>1, <2>2
<1>7. ASSUME NEW d \in Calls, answer'[d] \in {"none", "nothing"} PROVE Untouched(d)'
  <2>1. Untouched(d)
    BY <1>4, <1>7 DEF PromiseInv, UnmadeUntouched
  <2>2. c # d
    BY <1>2, <2>1 DEF Untouched
  <2>3. \A n \in 1..Len(queue') : queue'[n] # d
    BY <1>3, <1>6, <2>1, <2>2 DEF Untouched
  <2>4. holder'[d] = None
    BY <1>2, <1>5, <2>1 DEF Untouched
  <2>. QED BY <1>1, <2>1, <2>3, <2>4 DEF Untouched
<1>8. PollsItsOwn' /\ FoundMined' /\ SeenMined' /\ ArrivingMined'
  BY <1>1 DEF PromiseInv, PollsItsOwn, FoundMined, SeenMined, ArrivingMined
<1>. QED BY <1>4, <1>7, <1>8 DEF PromiseInv, UnmadeUntouched

\* The chain executes what was asked for; a reverted transaction is not.
LEMMA ChainKeeps ==
  ASSUME TypeInv, PromiseInv, NEW t \in Hashes, Mine(t) \/ Revert(t)
  PROVE  PromiseInv' /\ (Promise!Next \/ UNCHANGED <<answer, executed>>)
<1>. DEFINE c == txs[t].call
<1>1. txs \in Seq(Transaction) /\ txs[t] \in Transaction /\ txs[t].state = "pending"
  BY ElementOfSeq DEF TypeInv, TypeOK, Transaction, Hashes, Mine, Revert
<1>2. PICK state \in {"mined", "reverted"} :
        /\ txs' = [txs EXCEPT ![t] = [@ EXCEPT !.state = state]]
        /\ state = "mined" <=> Mine(t)
  BY DEF Mine, Revert
<1>3. /\ [txs[t] EXCEPT !.state = state] \in Transaction
      /\ [txs[t] EXCEPT !.state = state].call = txs[t].call
      /\ [txs[t] EXCEPT !.state = state].state = state
  BY <1>1 DEF Transaction
<1>4. /\ Hashes' = Hashes
      /\ \A u \in Hashes : /\ txs'[u].call = txs[u].call
                           /\ txs'[u].state = IF u = t THEN state ELSE txs[u].state
  BY <1>1, <1>2, <1>3, ExceptSeq DEF Hashes
<1>5. Mined' = IF state = "mined" THEN Mined \cup {t} ELSE Mined
  BY <1>1, <1>4 DEF Mined
<1>6. c \in Calls /\ answer[c] \notin {"none", "nothing"}
  BY <1>1 DEF Transaction, PromiseInv, UnmadeUntouched, Untouched
<1>7. UNCHANGED <<answer, queue, holder, workers, seen>>
  BY DEF Mine, Revert, queueVars
<1>8. executed' = IF state = "mined" THEN executed \cup {c} ELSE executed
  <2>1. executed = {txs[u].call : u \in Mined} /\ executed' = {txs'[u].call : u \in Mined'}
    BY DEF executed, Mined
  <2>2. Mined \subseteq Hashes /\ \A u \in Hashes : txs'[u].call = txs[u].call
    BY <1>4 DEF Mined
  <2>. QED BY <1>5, <2>1, <2>2
<1>9. Promise!Next \/ UNCHANGED <<answer, executed>>
  <2>1. CASE state = "mined"
    BY <1>6, <1>7, <1>8, <2>1 DEF Promise!Next, Promise!Execute
  <2>. QED BY <1>7, <1>8, <2>1
<1>10. Mined \subseteq Mined'
  BY <1>5
<1>11. UnmadeUntouched' /\ PollsItsOwn' /\ FoundMined' /\ SeenMined'
  BY <1>4, <1>7, <1>10
     DEF PromiseInv, UnmadeUntouched, Untouched, PollsItsOwn, FoundMined, SeenMined
<1>12. ArrivingMined'
  <2>1. CASE Mine(t)
    <3>. DEFINE new == {[tx |-> t, event |-> e] : e \in EventsOf(callers[txs[t].call].request.type)}
    <3>1. arriving' = [i \in Instances |->
            IF apps[i].watches = txs[t].registry THEN arriving[i] \cup new ELSE arriving[i]]
      BY <2>1 DEF Mine
    <3>2. \A a \in new : a.tx = t
      OBVIOUS
    <3>3. t \in Mined'
      BY <1>2, <1>5, <2>1
    <3>. HIDE DEF new
    <3>. QED BY <1>10, <3>1, <3>2, <3>3 DEF PromiseInv, ArrivingMined
  <2>2. CASE Revert(t)
    BY <1>10, <2>2 DEF Revert, PromiseInv, ArrivingMined
  <2>. QED BY <2>1, <2>2
<1>. QED BY <1>9, <1>11, <1>12 DEF PromiseInv

\* A listener tells the poll only what was mined.
LEMMA ListenerKeeps ==
  ASSUME TypeInv, PromiseInv, NEW i \in Instances, ProcessEvent(i) \/ LoseEvent(i)
  PROVE  PromiseInv' /\ UNCHANGED <<answer, executed>>
<1>1. PICK a \in arriving[i] :
        /\ arriving' = [arriving EXCEPT ![i] = @ \ {a}]
        /\ \/ UNCHANGED seen
           \/ seen' = [seen EXCEPT ![i] =
                [processed    |-> @.processed \cup {a.tx},
                 certificates |-> @.certificates \cup {t \in {a.tx} : a.event = "Issuance"}]]
  BY DEF ProcessEvent, LoseEvent
<1>2. /\ Mined' = Mined /\ executed' = executed /\ Hashes' = Hashes
      /\ UNCHANGED <<txs, answer, queue, holder, workers>>
  BY SameMined DEF ProcessEvent, LoseEvent, queueVars
<1>3. a.tx \in Mined
  BY DEF PromiseInv, ArrivingMined
<1>4. SeenMined'
  <2>1. seen \in [Instances -> [processed: SUBSET Hashes, certificates: SUBSET Hashes]]
    BY DEF TypeInv, TypeOK
  <2>2. \A j \in Instances : /\ seen'[j].processed \subseteq seen[j].processed \cup {a.tx}
                             /\ seen'[j].certificates \subseteq seen[j].certificates \cup {a.tx}
    BY <1>1, <2>1
  <2>. QED BY <1>2, <1>3, <2>2 DEF PromiseInv, SeenMined
<1>5. ArrivingMined'
  BY <1>1, <1>2 DEF PromiseInv, ArrivingMined, TypeInv, TypeOK
<1>6. UnmadeUntouched' /\ PollsItsOwn' /\ FoundMined'
  BY <1>2 DEF PromiseInv, UnmadeUntouched, Untouched, PollsItsOwn, FoundMined
<1>. QED BY <1>2, <1>4, <1>5, <1>6 DEF PromiseInv

\* Nothing is asked at the start, in the queue as in the promise.
LEMMA InitKeeps == Init => PromiseInv /\ Promise!Init
<1>. SUFFICES ASSUME Init PROVE PromiseInv /\ Promise!Init
  OBVIOUS
<1>1. Hashes = {} /\ 1..Len(queue) = {}
  BY EmptySeq DEF Init, Hashes
<1>2. Promise!Init
  BY <1>1 DEF Init, Promise!Init, executed
<1>3. UnmadeUntouched
  BY <1>1, OnChainAssumption
     DEF OnChainAssumption, Init, Rest, UnmadeUntouched, Untouched
<1>4. PollsItsOwn /\ FoundMined /\ SeenMined /\ ArrivingMined
  BY DEF Init, Rest, Blind, PollsItsOwn, FoundMined, SeenMined, ArrivingMined
<1>. QED BY <1>2, <1>3, <1>4 DEF PromiseInv

\* Every step keeps the invariant, and is one that the promise allows.
LEMMA StepKeeps ==
  TypeInv /\ PromiseInv /\ [Next]_vars =>
    PromiseInv' /\ (Promise!Next \/ UNCHANGED <<answer, executed>>)
<1>. SUFFICES ASSUME TypeInv, PromiseInv, [Next]_vars
              PROVE  PromiseInv' /\ (Promise!Next \/ UNCHANGED <<answer, executed>>)
  OBVIOUS
<1>1. CASE UNCHANGED vars
  BY <1>1, StartKeeps DEF vars
<1>2. ASSUME NEW i \in Instances, Boot(i) \/ Starts(i)
      PROVE  PromiseInv' /\ (Promise!Next \/ UNCHANGED <<answer, executed>>)
  <2>1. CASE RecheckFails(i) \/ WaitEnds(i)
    BY <2>1, EndKeeps DEF RecheckFails, WaitEnds
  <2>2. CASE ~(RecheckFails(i) \/ WaitEnds(i))
    BY <1>2, <2>2, StartKeeps
       DEF Starts, Boot, CheckDeployed, DeployContracts, RecheckPasses, InsertDeployed,
           Watch, WaitAgain, queueVars
  <2>. QED BY <2>1, <2>2
<1>3. ASSUME NEW i \in Instances, Works(i) \/ SendThrows(i)
      PROVE  PromiseInv' /\ (Promise!Next \/ UNCHANGED <<answer, executed>>)
  <2>1. CASE WrapEnds(i) \/ HandlerRefuses(i) \/ PollEnds(i) \/ SendThrows(i)
    <3>1. UNCHANGED <<queue, arriving, seen>> /\ workers[i].phase # "idle" /\ Throw(i)
      BY <2>1 DEF WrapEnds, HandlerRefuses, PollEnds, SendThrows
    <3>2. \/ UNCHANGED txs
          \/ workers[i].phase = "wrap" /\ \E r \in contracts : txs' = Sent(i, r)
      BY <2>1 DEF WrapEnds, HandlerRefuses, PollEnds, SendThrows
    <3>. QED BY <3>1, <3>2, ThrowKeeps
  <2>. QED BY <1>3, <2>1, TakeKeeps, WorkKeeps, CompleteKeeps DEF Works
<1>4. ASSUME NEW i \in Instances, StartRejects(i) \/ Crash(i)
      PROVE  PromiseInv' /\ (Promise!Next \/ UNCHANGED <<answer, executed>>)
  BY <1>4, EndKeeps DEF StartRejects, DeployRejects, InsertRejects, QueryRejects, Crash
<1>5. CASE Migrate
  BY <1>5, StartKeeps DEF Migrate, queueVars
<1>6. ASSUME NEW t \in 1..Len(txs), Mine(t) \/ Revert(t)
      PROVE  PromiseInv' /\ (Promise!Next \/ UNCHANGED <<answer, executed>>)
  BY <1>6, ChainKeeps DEF Hashes
<1>. QED
  BY <1>1, <1>2, <1>3, <1>4, <1>5, <1>6, AskKeeps, StalledKeeps, ListenerKeeps DEF Next

\* The service implements its promise: however many processes share the
\* queue, whichever jobs stall, are rerun or fail, whatever the listeners
\* miss and whoever crashes, a call that resolves has been executed by the
\* chain, nothing is executed that was not asked for, and no answer changes
\* (onchain-certificate.service.ts, certificate-operations.service.ts).
THEOREM ServiceKeepsItsPromise == Spec => KeepsPromise
<1>1. Spec => []TypeInv
  BY InitTyped, StepTyped, PTL DEF Spec
<1>2. Promise!Next \/ UNCHANGED <<answer, executed>> <=> [Promise!Next]_(Promise!promised)
  BY DEF Promise!promised
<1>3. TypeInv /\ PromiseInv /\ [Next]_vars => PromiseInv' /\ [Promise!Next]_(Promise!promised)
  BY <1>2, StepKeeps
<1>. QED BY <1>1, <1>3, InitKeeps, PTL DEF Spec, KeepsPromise, Promise!Spec

-----------------------------------------------------------------------------
(* Deploying before the modules are initialised *)

\* A deployer that has got past its own deployment finds contracts recorded,
\* and so never uses up a try.
DeployedFirst ==
  \A i \in Deployers :
    /\ apps[i].phase \in {"wait", "ready"} => PropertiesExist
    /\ apps[i].phase # "timedOut"
    /\ apps[i].tries = 0

\* What one instance's start does to the invariant.
LEMMA AppKeepsDeployed ==
  ASSUME TypeInv, DeployedFirst, NEW i \in Instances, NEW app,
         apps' = [apps EXCEPT ![i] = app], contracts \subseteq contracts',
         i \in Deployers /\ app.phase \in {"wait", "ready"} => PropertiesExist',
         i \in Deployers => app.phase # "timedOut" /\ app.tries = 0
  PROVE  DeployedFirst'
<1>1. \A j \in Instances : apps'[j] = IF j = i THEN app ELSE apps[j]
  BY DEF TypeInv, TypeOK
<1>2. PropertiesExist => PropertiesExist'
  BY DEF PropertiesExist
<1>. QED BY <1>1, <1>2, OnChainAssumption DEF OnChainAssumption, DeployedFirst

\* Steps that start and end nothing.
LEMMA OthersKeepDeployed ==
  ASSUME DeployedFirst, UNCHANGED <<deployVars, apps>>
  PROVE  DeployedFirst'
BY DEF DeployedFirst, PropertiesExist, deployVars

\* The steps by which an instance starts or ends.
LEMMA StartsKeepDeployed ==
  ASSUME DeployHook = "beforeInit", TypeInv, DeployedFirst,
         NEW i \in Instances, Boot(i) \/ Starts(i) \/ StartRejects(i) \/ Crash(i)
  PROVE  DeployedFirst'
<1>1. apps[i] \in App /\ (i \in Deployers => apps[i].tries = 0)
  BY DEF TypeInv, TypeOK, DeployedFirst
<1>2. CASE Boot(i)
  <2>. DEFINE app == [Off EXCEPT !.phase = IF DeployHook = "beforeInit" /\ i \in Deployers
                                          THEN "check" ELSE "wait"]
  <2>1. i \in Deployers => app.phase = "check" /\ app.tries = 0
    BY DEF Off
  <2>. QED BY <1>2, <2>1, AppKeepsDeployed DEF Boot, deployVars
<1>3. CASE CheckDeployed(i)
  <2>. DEFINE app == [apps[i] EXCEPT !.phase = IF PropertiesExist THEN AfterDeploy ELSE "deploy"]
  <2>1. app.phase = IF PropertiesExist THEN AfterDeploy ELSE "deploy"
    BY <1>1 DEF App
  <2>2. app.phase = "wait" => PropertiesExist
    BY <2>1
  <2>3. app.phase \in {"wait", "deploy"}
    BY <2>1 DEF AfterDeploy
  <2>4. UNCHANGED contracts /\ apps' = [apps EXCEPT ![i] = app]
    BY <1>3 DEF CheckDeployed, deployVars
  <2>5. app.tries = apps[i].tries
    BY <1>1 DEF App
  <2>. QED BY <1>1, <2>2, <2>3, <2>4, <2>5, AppKeepsDeployed DEF PropertiesExist
<1>4. CASE DeployContracts(i)
  <2>. DEFINE app == [apps[i] EXCEPT !.phase = "recheck", !.registry = registries + 1]
  <2>1. app.phase = "recheck" /\ app.tries = apps[i].tries
    BY <1>1 DEF App
  <2>2. UNCHANGED contracts /\ apps' = [apps EXCEPT ![i] = app]
    BY <1>4, <1>1 DEF DeployContracts, TypeInv, TypeOK
  <2>. QED BY <1>1, <2>1, <2>2, AppKeepsDeployed
<1>5. CASE RecheckPasses(i)
  <2>. DEFINE app == [apps[i] EXCEPT !.phase = "insert"]
  <2>1. app.phase = "insert" /\ app.tries = apps[i].tries
    BY <1>1 DEF App
  <2>. QED BY <1>1, <1>5, <2>1, AppKeepsDeployed DEF RecheckPasses, deployVars
<1>6. CASE InsertDeployed(i)
  <2>. DEFINE app == [apps[i] EXCEPT !.phase = AfterDeploy, !.registry = 0]
  <2>1. PropertiesExist' /\ contracts \subseteq contracts' /\ apps' = [apps EXCEPT ![i] = app]
    BY <1>6 DEF InsertDeployed, PropertiesExist
  <2>2. app.phase \in {"wait", "ready"} /\ app.tries = apps[i].tries
    BY <1>1 DEF App, AfterDeploy
  <2>. QED BY <1>1, <2>1, <2>2, AppKeepsDeployed
<1>7. CASE Watch(i)
  <2>1. PICK app : apps' = [apps EXCEPT ![i] = app] /\ app.phase = AfterInit(i) /\ app.tries = 0
    <3>1. PICK r \in contracts :
            apps' = [apps EXCEPT ![i] =
              [@ EXCEPT !.phase = AfterInit(i), !.tries = 0, !.watches = r]]
      BY <1>7 DEF Watch
    <3>. DEFINE app == [apps[i] EXCEPT !.phase = AfterInit(i), !.tries = 0, !.watches = r]
    <3>2. app.phase = AfterInit(i) /\ app.tries = 0
      BY <1>1 DEF App
    <3>3. apps' = [apps EXCEPT ![i] = app]
      BY <1>1, <3>1 DEF TypeInv, TypeOK
    <3>. QED BY <3>2, <3>3
  <2>2. UNCHANGED contracts /\ PropertiesExist /\ AfterInit(i) # "timedOut"
    BY <1>7 DEF Watch, PropertiesExist, deployVars, AfterInit
  <2>. QED BY <2>1, <2>2, AppKeepsDeployed DEF PropertiesExist
<1>8. CASE WaitAgain(i)
  <2>. DEFINE app == [apps[i] EXCEPT !.tries = @ + 1]
  <2>1. app.phase = apps[i].phase
    BY <1>1 DEF App
  <2>2. UNCHANGED contracts /\ apps' = [apps EXCEPT ![i] = app]
    BY <1>8 DEF WaitAgain, deployVars
  <2>3. i \notin Deployers
    BY <1>8 DEF WaitAgain, DeployedFirst
  <2>4. apps[i].phase = "wait"
    BY <1>8 DEF WaitAgain
  <2>. QED BY <2>1, <2>2, <2>3, <2>4, AppKeepsDeployed
<1>9. ASSUME NEW phase \in Ended, End(i, phase), contracts \subseteq contracts',
             i \in Deployers => phase # "timedOut"
      PROVE  DeployedFirst'
  <2>. DEFINE app == [Off EXCEPT !.phase = phase]
  <2>1. app.phase = phase /\ phase \notin {"wait", "ready"} /\ app.tries = 0
    BY DEF Off, Ended
  <2>2. apps' = [apps EXCEPT ![i] = app]
    BY <1>9 DEF End
  <2>. QED BY <1>9, <2>1, <2>2, AppKeepsDeployed
<1>10. CASE RecheckFails(i) \/ Crash(i) \/ StartRejects(i)
  BY <1>9, <1>10
     DEF RecheckFails, Crash, StartRejects, DeployRejects, InsertRejects, QueryRejects,
         deployVars, Ended
<1>11. CASE WaitEnds(i)
  <2>1. contracts \subseteq contracts' /\ End(i, "timedOut") /\ "timedOut" \in Ended
    BY <1>11 DEF WaitEnds, deployVars, Ended
  <2>2. i \notin Deployers
    BY <1>1, <1>11, OnChainAssumption DEF OnChainAssumption, WaitEnds, TriesLeft
  <2>. QED BY <1>9, <2>1, <2>2
<1>. QED
  BY <1>2, <1>3, <1>4, <1>5, <1>6, <1>7, <1>8, <1>10, <1>11 DEF Starts

\* Every step keeps deployers behind the contracts they wait for.
LEMMA StepKeepsDeployed ==
  ASSUME DeployHook = "beforeInit", TypeInv, DeployedFirst, [Next]_vars
  PROVE  DeployedFirst'
<1>1. CASE UNCHANGED vars
  BY <1>1, OthersKeepDeployed DEF vars, deployVars
<1>2. CASE Migrate
  BY <1>2 DEF Migrate, DeployedFirst, PropertiesExist
<1>3. CASE \E i \in Instances, c \in Calls : Ask(i, c)
  BY <1>3, OthersKeepDeployed DEF Ask
<1>4. CASE \E c \in Calls : CheckStalled(c) \/ LoseLock(c)
  BY <1>4, OthersKeepDeployed DEF CheckStalled, LoseLock
<1>5. CASE \E t \in 1..Len(txs) : Mine(t) \/ Revert(t)
  BY <1>5, OthersKeepDeployed DEF Mine, Revert
<1>6. ASSUME NEW i \in Instances, Works(i) \/ SendThrows(i) \/ ProcessEvent(i) \/ LoseEvent(i)
      PROVE  DeployedFirst'
  BY <1>6, OthersKeepDeployed
     DEF Works, Take, WrapAgain, WrapEnds, HandlerRefuses, Send, SendThrows, PollFinds,
         PollAgain, PollEnds, Complete, ProcessEvent, LoseEvent
<1>. QED BY <1>1, <1>2, <1>3, <1>4, <1>5, <1>6, StartsKeepDeployed DEF Next

\* If deploy is called before the modules are initialised, the listener of an
\* instance that calls it never waits in vain, however many deploy at the same
\* time, wherever they crash and whichever of their calls reject: a rejection
\* ends the start before it comes to the listener.  (Called in
\* onApplicationBootstrap it may: the hypothesis is what makes it so.)
THEOREM DeployersNeverTimeOut ==
  ASSUME DeployHook = "beforeInit"
  PROVE  Spec => []DeployersDoNotTimeOut
<1>1. Init => DeployedFirst
  BY OnChainAssumption DEF OnChainAssumption, Init, Off, DeployedFirst
<1>2. TypeInv /\ DeployedFirst /\ [Next]_vars => DeployedFirst'
  BY StepKeepsDeployed
<1>3. Spec => []TypeInv
  BY InitTyped, StepTyped, PTL DEF Spec
<1>4. DeployedFirst => DeployersDoNotTimeOut
  BY DEF DeployedFirst, DeployersDoNotTimeOut
<1>. QED BY <1>1, <1>2, <1>3, <1>4, PTL DEF Spec

-----------------------------------------------------------------------------
(***************************************************************************)
(* A call reaches the chain once for its job and once for each time the    *)
(* job stalled, whatever instances share the queue.                        *)
(***************************************************************************)

\* What has been sent for a call, who is about to send for it, and whether
\* its job waits for somebody who will.
TxsOf(c)    == {t \in Hashes : txs[t].call = c}
Wrapping(c) == {i \in Instances : workers[i].phase = "wrap" /\ workers[i].call = c}
InQueue(c)  == \E n \in 1..Len(queue) : queue[n] = c
Waits(c)    == IF InQueue(c) THEN 1 ELSE 0

\* A job is in the queue once, and then nobody has its lock.
QueuedOnce ==
  /\ \A m, n \in 1..Len(queue) : queue[m] = queue[n] => m = n
  /\ \A n \in 1..Len(queue) : holder[queue[n]] = None

\* What was sent, and what still may be, does not exceed what was granted.
Granted(c) ==
  /\ IsFiniteSet(Wrapping(c))
  /\ Cardinality(TxsOf(c)) + Cardinality(Wrapping(c)) + Waits(c) <= 1 + stalled[c]
  /\ stalled[c] <= MaxStalled

RunsInv == QueuedOnce /\ \A c \in Calls : Granted(c)

\* Transactions are finitely many.
LEMMA TxsFinite ==
  ASSUME TypeInv, NEW c
  PROVE  IsFiniteSet(TxsOf(c)) /\ Cardinality(TxsOf(c)) \in Nat
<1>1. Len(txs) \in Nat
  BY LenProperties DEF TypeInv, TypeOK
<1>2. IsFiniteSet(Hashes)
  BY <1>1, FS_Interval DEF Hashes
<1>3. TxsOf(c) \in SUBSET Hashes
  BY DEF TxsOf
<1>. QED BY <1>2, <1>3, FS_Subset, FS_CardinalityType

\* A step that sends nothing and makes nobody send.
LEMMA QuietKeepsRuns ==
  ASSUME TypeInv, RunsInv, UNCHANGED <<queue, stalled>>,
         \A c \in Calls : holder'[c] \in {holder[c], None},
         \A c \in Calls : Wrapping(c)' \subseteq Wrapping(c) /\ TxsOf(c)' = TxsOf(c)
  PROVE  RunsInv'
<1>1. QueuedOnce'
  <2>1. queue \in Seq(Calls)
    BY DEF TypeInv, TypeOK
  <2>2. \A n \in 1..Len(queue) : queue[n] \in Calls
    BY <2>1
  <2>. QED BY <2>2 DEF RunsInv, QueuedOnce
<1>2. ASSUME NEW c \in Calls PROVE Granted(c)'
  <2>1. IsFiniteSet(Wrapping(c)) /\ Wrapping(c)' \in SUBSET Wrapping(c)
    BY DEF RunsInv, Granted
  <2>2. /\ IsFiniteSet(Wrapping(c)')
        /\ Cardinality(Wrapping(c)') <= Cardinality(Wrapping(c))
    BY <2>1, FS_Subset
  <2>3. Cardinality(Wrapping(c)') \in Nat /\ Cardinality(Wrapping(c)) \in Nat
    BY <2>1, <2>2, FS_CardinalityType
  <2>4. Waits(c)' = Waits(c) /\ Waits(c) \in Nat /\ stalled[c] \in Nat
    BY DEF Waits, InQueue, TypeInv, TypeOK
  <2>. QED BY <2>2, <2>3, <2>4, TxsFinite DEF RunsInv, Granted
<1>. QED BY <1>1, <1>2 DEF RunsInv

\* Who sends, was about to.
LEMMA SentKeepsRuns ==
  ASSUME TypeInv, RunsInv, NEW i \in Instances, workers[i].phase = "wrap",
         NEW r \in contracts, txs' = Sent(i, r), UNCHANGED <<queue, stalled>>,
         \A c \in Calls : holder'[c] \in {holder[c], None},
         \A c \in Calls : Wrapping(c)' = Wrapping(c) \ {i}
  PROVE  RunsInv'
<1> DEFINE d == workers[i].call
<1>1. QueuedOnce'
  <2>1. queue \in Seq(Calls)
    BY DEF TypeInv, TypeOK
  <2>2. \A n \in 1..Len(queue) : queue[n] \in Calls
    BY <2>1
  <2>. QED BY <2>2 DEF RunsInv, QueuedOnce
<1>2. Len(txs) \in Nat /\ Len(txs') = Len(txs) + 1
  BY SentTyped
<1>3. /\ \A t \in 1..Len(txs) : txs'[t] = txs[t]
      /\ txs'[Len(txs) + 1].call = d
  <2> DEFINE tx == [call |-> d, registry |-> r, state |-> "pending"]
  <2>1. txs \in Seq(Transaction) /\ tx \in Transaction
    BY DEF TypeInv, TypeOK, HasCall, Transaction
  <2> HIDE DEF tx
  <2>2. txs' = Append(txs, tx)
    BY DEF Sent, tx
  <2>3. txs'[Len(txs) + 1] = tx /\ \A t \in 1..Len(txs) : txs'[t] = txs[t]
    BY <2>1, <2>2, AppendProperties
  <2>. QED BY <2>3 DEF tx
<1>4. \A c : TxsOf(c)' = TxsOf(c) \cup {t \in {Len(txs) + 1} : c = d}
  BY <1>2, <1>3 DEF TxsOf, Hashes
<1>5. ASSUME NEW c \in Calls PROVE Granted(c)'
  <2>1. IsFiniteSet(Wrapping(c)) /\ Cardinality(Wrapping(c)) \in Nat
    BY FS_CardinalityType DEF RunsInv, Granted
  <2>2. /\ IsFiniteSet(Wrapping(c)')
        /\ Cardinality(Wrapping(c)') = IF i \in Wrapping(c) THEN Cardinality(Wrapping(c)) - 1
                                       ELSE Cardinality(Wrapping(c))
    BY <2>1, FS_RemoveElement
  <2>3. Waits(c)' = Waits(c) /\ Waits(c) \in Nat /\ stalled[c] \in Nat
    BY DEF Waits, InQueue, TypeInv, TypeOK
  <2>4. CASE c = d
    <3>1. i \in Wrapping(c)
      BY <2>4 DEF Wrapping
    <3>2. TxsOf(c)' = TxsOf(c) \cup {Len(txs) + 1}
      BY <1>4, <2>4
    <3>3. Cardinality(TxsOf(c)') \in {Cardinality(TxsOf(c)), Cardinality(TxsOf(c)) + 1}
      BY <3>2, TxsFinite, FS_AddElement
    <3>. QED BY <2>1, <2>2, <2>3, <3>1, <3>3, TxsFinite DEF RunsInv, Granted
  <2>5. CASE c # d
    <3>1. TxsOf(c)' = TxsOf(c)
      BY <1>4, <2>5
    <3>. QED BY <2>1, <2>2, <2>3, <3>1, TxsFinite DEF RunsInv, Granted
  <2>. QED BY <2>4, <2>5
<1>. QED BY <1>1, <1>5 DEF RunsInv

\* A job that is taken leaves the queue: who took it may send instead.
LEMMA TakeKeepsRuns ==
  ASSUME TypeInv, RunsInv, NEW i \in Instances, Take(i)
  PROVE  RunsInv'
<1>0. PICK d \in Calls : d = Head(queue)
  BY HeadTailProperties DEF Take, TypeInv, TypeOK
<1>1. /\ queue \in Seq(Calls) /\ queue # <<>> /\ Len(queue) \in Nat
      /\ d \in Calls /\ d = queue[1] /\ Len(queue) >= 1
  BY <1>0 DEF Take, TypeInv, TypeOK
<1>2. /\ Len(queue') = Len(queue) - 1
      /\ \A n \in 1..Len(queue') : queue'[n] = queue[n + 1]
  BY <1>1, HeadTailProperties DEF Take
<1>3. ASSUME NEW n \in 1..Len(queue')
      PROVE  /\ queue'[n] = queue[n + 1] /\ n + 1 \in 1..Len(queue)
             /\ queue[n + 1] # d /\ queue[n + 1] \in Calls
  BY <1>1, <1>2 DEF RunsInv, QueuedOnce
<1>4. QueuedOnce'
  <2>1. \A c \in Calls : c # d => holder'[c] = holder[c]
    BY <1>0 DEF Take, TypeInv, TypeOK
  <2>2. \A n \in 1..Len(queue') : holder'[queue'[n]] = None
    BY <1>3, <2>1 DEF RunsInv, QueuedOnce
  <2>3. \A m, n \in 1..Len(queue') : queue'[m] = queue'[n] => m = n
    BY <1>3 DEF RunsInv, QueuedOnce
  <2>. QED BY <2>2, <2>3 DEF QueuedOnce
<1>5. \A c \in Calls : Waits(c)' = IF c = d THEN 0 ELSE Waits(c)
  <2>1. ~InQueue(d)'
    BY <1>3 DEF InQueue
  <2>2. ASSUME NEW c \in Calls, c # d PROVE InQueue(c)' <=> InQueue(c)
    <3>1. ASSUME NEW n \in 1..Len(queue), queue[n] = c
          PROVE  n - 1 \in 1..Len(queue') /\ queue'[n - 1] = c
      BY <1>1, <1>2, <2>2, <3>1
    <3>. QED BY <1>3, <3>1 DEF InQueue
  <2>. QED BY <2>1, <2>2 DEF Waits
<1>6. Waits(d) = 1
  BY <1>1 DEF Waits, InQueue
<1>7. \A c \in Calls : Wrapping(c)' = Wrapping(c) \cup {j \in {i} : c = d}
  <2>1. workers[i].phase = "idle"
    BY DEF Take
  <2>2. \A j \in Instances :
          IF j = i THEN workers'[j].phase = "wrap" /\ workers'[j].call = d
          ELSE workers'[j] = workers[j]
    BY <1>0 DEF Take, TypeInv, TypeOK, Rest
  <2>. QED BY <2>1, <2>2 DEF Wrapping
<1>8. \A c : TxsOf(c)' = TxsOf(c)
  BY DEF Take, TxsOf, Hashes
<1>9. ASSUME NEW c \in Calls PROVE Granted(c)'
  <2>1. IsFiniteSet(Wrapping(c)) /\ Cardinality(Wrapping(c)) \in Nat
    BY FS_CardinalityType DEF RunsInv, Granted
  <2>2. stalled' = stalled /\ stalled[c] \in Nat /\ Waits(c) \in Nat
    BY DEF Take, TypeInv, TypeOK, Waits
  <2>3. CASE c = d
    <3>1. Wrapping(c)' = Wrapping(c) \cup {i}
      BY <1>7, <2>3
    <3>2. /\ IsFiniteSet(Wrapping(c)')
          /\ Cardinality(Wrapping(c)') \in {Cardinality(Wrapping(c)), Cardinality(Wrapping(c)) + 1}
      BY <2>1, <3>1, FS_AddElement
    <3>3. Waits(c)' = 0 /\ Waits(c) = 1
      BY <1>5, <1>6, <2>3
    <3>. QED BY <1>8, <2>1, <2>2, <3>2, <3>3, TxsFinite DEF RunsInv, Granted
  <2>4. CASE c # d
    <3>1. Wrapping(c)' = Wrapping(c) /\ Waits(c)' = Waits(c)
      BY <1>5, <1>7, <2>4
    <3>. QED BY <1>8, <2>1, <2>2, <3>1, TxsFinite DEF RunsInv, Granted
  <2>. QED BY <2>3, <2>4
<1>. QED BY <1>4, <1>9 DEF RunsInv

\* A call that is made has one job, and nobody has worked for it before.
LEMMA AskKeepsRuns ==
  ASSUME TypeInv, PromiseInv, RunsInv, NEW i \in Instances, NEW d \in Calls, Ask(i, d)
  PROVE  RunsInv'
<1>1. /\ answer[d] = "none"
      /\ UNCHANGED <<stalled, holder, workers, txs>>
      /\ queue' = queue \/ queue' = Append(queue, d)
  BY DEF Ask
<1>2. Untouched(d)
  BY <1>1 DEF PromiseInv, UnmadeUntouched
<1>3. CASE queue' = queue
  BY <1>1, <1>3, QuietKeepsRuns DEF Wrapping, TxsOf, Hashes
<1>4. CASE queue' = Append(queue, d)
  <2>1. /\ queue \in Seq(Calls) /\ Len(queue) \in Nat
        /\ Len(queue') = Len(queue) + 1 /\ queue'[Len(queue) + 1] = d
        /\ \A n \in 1..Len(queue) : queue'[n] = queue[n] /\ queue[n] # d
    BY <1>2, <1>4, AppendProperties DEF TypeInv, TypeOK, Untouched
  <2>2. \A n \in 1..Len(queue') : n \in 1..Len(queue) \/ n = Len(queue) + 1
    BY <2>1
  <2>3. QueuedOnce'
    <3>1. \A m, n \in 1..Len(queue') : queue'[m] = queue'[n] => m = n
      BY <2>1, <2>2 DEF RunsInv, QueuedOnce
    <3>2. \A n \in 1..Len(queue') : holder[queue'[n]] = None
      BY <1>2, <2>1, <2>2 DEF RunsInv, QueuedOnce, Untouched
    <3>. QED BY <1>1, <3>1, <3>2 DEF QueuedOnce
  <2>4. \A c \in Calls : TxsOf(c)' = TxsOf(c) /\ Wrapping(c)' = Wrapping(c)
    BY <1>1 DEF TxsOf, Hashes, Wrapping
  <2>5. ASSUME NEW c \in Calls PROVE Granted(c)'
    <3>1. CASE c = d
      <4>1. TxsOf(c) = {} /\ Wrapping(c) = {}
        BY <1>2, <3>1 DEF Untouched, TxsOf, Wrapping
      <4>2. Cardinality({}) = 0 /\ IsFiniteSet({})
        BY FS_EmptySet
      <4>3. Waits(c)' \in {0, 1} /\ stalled[c] \in Nat
        BY DEF Waits, TypeInv, TypeOK
      <4>4. TxsOf(c)' = {} /\ Wrapping(c)' = {} /\ stalled'[c] = stalled[c]
        BY <1>1, <2>4, <4>1
      <4>5. Cardinality(TxsOf(c)') + Cardinality(Wrapping(c)') + Waits(c)' <= 1 + stalled'[c]
        BY <4>2, <4>3, <4>4
      <4>. QED BY <4>2, <4>4, <4>5 DEF RunsInv, Granted
    <3>2. CASE c # d
      <4>1. InQueue(c)' <=> InQueue(c)
        <5>1. \A n \in 1..Len(queue) : n \in 1..Len(queue')
          BY <2>1
        <5>. QED BY <2>1, <2>2, <3>2, <5>1 DEF InQueue
      <4>2. Waits(c)' = Waits(c)
        BY <4>1 DEF Waits
      <4>. QED BY <1>1, <2>4, <4>2 DEF RunsInv, Granted
    <3>. QED BY <3>1, <3>2
  <2>. QED BY <2>3, <2>5 DEF RunsInv
<1>. QED BY <1>1, <1>3, <1>4

\* A job that stalls has been taken; it is granted one more run, or ends.
LEMMA StallKeepsRuns ==
  ASSUME TypeInv, RunsInv, NEW d \in Calls, CheckStalled(d) \/ LoseLock(d)
  PROVE  RunsInv'
<1>1. /\ RerunStalled(d) /\ holder[d] # None
      /\ holder' = [holder EXCEPT ![d] = None]
      /\ UNCHANGED <<workers, txs>>
  BY DEF CheckStalled, LoseLock
<1>2. \A c \in Calls : holder'[c] \in {holder[c], None}
  BY <1>1 DEF TypeInv, TypeOK
<1>3. \A c \in Calls : TxsOf(c)' = TxsOf(c) /\ Wrapping(c)' = Wrapping(c)
  BY <1>1 DEF TxsOf, Hashes, Wrapping
<1>4. CASE UNCHANGED <<queue, stalled>>
  BY <1>2, <1>3, <1>4, QuietKeepsRuns
<1>5. CASE /\ stalled[d] < MaxStalled /\ queue' = <<d>> \o queue
           /\ stalled' = [stalled EXCEPT ![d] = @ + 1]
  <2>1. /\ queue \in Seq(Calls) /\ Len(queue) \in Nat
        /\ \A n \in 1..Len(queue) : queue[n] # d /\ queue[n] \in Calls
    BY <1>1 DEF TypeInv, TypeOK, RunsInv, QueuedOnce
  <2>2. /\ Len(queue') = Len(queue) + 1 /\ queue'[1] = d
        /\ \A n \in 1..Len(queue) : queue'[n + 1] = queue[n]
        /\ \A n \in 1..Len(queue') : n # 1 => queue'[n] = queue[n - 1]
    <3>1. <<d>> \in Seq(Calls) /\ Len(<<d>>) = 1 /\ <<d>>[1] = d
      OBVIOUS
    <3>2. /\ Len(queue') = Len(queue) + 1
          /\ \A n \in 1..Len(queue) + 1 : queue'[n] = IF n <= 1 THEN <<d>>[n] ELSE queue[n - 1]
      <4>1. /\ Len(<<d>> \o queue) = Len(<<d>>) + Len(queue)
            /\ \A n \in 1..Len(<<d>>) + Len(queue) :
                 (<<d>> \o queue)[n] = IF n <= Len(<<d>>) THEN <<d>>[n]
                                       ELSE queue[n - Len(<<d>>)]
        BY <2>1, <3>1, ConcatProperties
      <4>. QED BY <1>5, <2>1, <3>1, <4>1
    <3>. QED BY <2>1, <3>1, <3>2
  <2>3. \A n \in 1..Len(queue') :
          n # 1 => n - 1 \in 1..Len(queue) /\ queue'[n] = queue[n - 1]
    BY <2>1, <2>2
  <2>4. QueuedOnce'
    <3>1. ASSUME NEW m \in 1..Len(queue'), NEW n \in 1..Len(queue'), queue'[m] = queue'[n]
          PROVE  m = n
      <4>1. m \in Nat /\ n \in Nat
        BY <2>1, <2>2
      <4>2. \A k \in 1..Len(queue') : k # 1 => queue'[k] # d
        BY <2>1, <2>3
      <4>3. CASE m = 1 \/ n = 1
        BY <2>2, <3>1, <4>2, <4>3
      <4>4. CASE m # 1 /\ n # 1
        <5>1. /\ m - 1 \in 1..Len(queue) /\ n - 1 \in 1..Len(queue)
              /\ queue[m - 1] = queue[n - 1]
          BY <2>3, <3>1, <4>4
        <5>2. \A k, l \in 1..Len(queue) : queue[k] = queue[l] => k = l
          BY DEF RunsInv, QueuedOnce
        <5>3. m - 1 = n - 1
          BY ONLY <5>1, <5>2
        <5>. QED BY <4>1, <5>3
      <4>. QED BY <4>3, <4>4
    <3>2. \A n \in 1..Len(queue') : queue'[n] # d => holder[queue'[n]] = None /\ queue'[n] \in Calls
      BY <2>1, <2>2, <2>3 DEF RunsInv, QueuedOnce
    <3>3. \A n \in 1..Len(queue') : holder'[queue'[n]] = None
      BY <1>1, <3>2 DEF TypeInv, TypeOK
    <3>. QED BY <3>1, <3>3 DEF QueuedOnce
  <2>5. ASSUME NEW c \in Calls PROVE Granted(c)'
    <3>1. /\ Cardinality(Wrapping(c)) \in Nat /\ stalled[c] \in Nat
          /\ Waits(c)' \in {0, 1} /\ Waits(c) \in {0, 1}
      BY FS_CardinalityType DEF RunsInv, Granted, Waits, TypeInv, TypeOK
    <3>2. CASE c = d
      <4>1. Waits(c) = 0
        BY <2>1, <3>2 DEF Waits, InQueue
      <4>2. stalled'[c] = stalled[c] + 1 /\ stalled'[c] <= MaxStalled
        BY <1>5, <3>2, OnChainAssumption DEF OnChainAssumption, TypeInv, TypeOK
      <4>. QED BY <1>3, <3>1, <4>1, <4>2, TxsFinite DEF RunsInv, Granted
    <3>3. CASE c # d
      <4>1. InQueue(c)' <=> InQueue(c)
        <5>1. \A n \in 1..Len(queue) : n + 1 \in 1..Len(queue')
          BY <2>1, <2>2
        <5>. QED BY <2>1, <2>2, <2>3, <3>3, <5>1 DEF InQueue
      <4>2. Waits(c)' = Waits(c) /\ stalled'[c] = stalled[c]
        BY <1>5, <3>3, <4>1 DEF Waits, TypeInv, TypeOK
      <4>. QED BY <1>3, <4>2 DEF RunsInv, Granted
    <3>. QED BY <3>2, <3>3
  <2>. QED BY <2>4, <2>5 DEF RunsInv
<1>. QED BY <1>1, <1>4, <1>5 DEF RerunStalled

-----------------------------------------------------------------------------
(* All steps *)

\* The other steps of a processor, and the end of a process.
LEMMA WorkKeepsRuns ==
  ASSUME TypeInv, RunsInv, NEW i \in Instances, Works(i) \/ SendThrows(i)
  PROVE  RunsInv'
<1>1. workers \in [Instances -> Worker] /\ holder \in [Calls -> Instances \cup {None}]
  BY DEF TypeInv, TypeOK
<1>2. ASSUME Throw(i)
      PROVE  /\ \A c \in Calls : holder'[c] \in {holder[c], None}
             /\ \A c \in Calls : Wrapping(c)' = Wrapping(c) \ {i}
  BY <1>1, <1>2 DEF Throw, Wrapping, Rest
<1>3. UNCHANGED txs => \A c : TxsOf(c)' = TxsOf(c)
  BY DEF TxsOf, Hashes
<1>4. CASE SendThrows(i)
  <2>1. PICK r \in contracts : txs' \in {txs, Sent(i, r)}
    BY <1>4 DEF SendThrows
  <2>2. CASE txs' = txs
    BY <1>2, <1>3, <1>4, <2>2, QuietKeepsRuns DEF SendThrows
  <2>3. CASE txs' = Sent(i, r)
    BY <1>2, <1>4, <2>3, SentKeepsRuns DEF SendThrows
  <2>. QED BY <2>1, <2>2, <2>3
<1>5. CASE Send(i)
  <2>1. PICK r \in contracts : txs' = Sent(i, r)
    BY <1>5 DEF Send
  <2>2. \A j \in Instances :
          IF j = i THEN workers'[j].phase = "poll" ELSE workers'[j] = workers[j]
    <3> DEFINE worker == [workers[i] EXCEPT !.phase = "poll", !.tries = 0, !.tx = Len(txs) + 1]
    <3>1. worker.phase = "poll"
      BY <1>1 DEF Worker
    <3> HIDE DEF worker
    <3>2. workers' = [workers EXCEPT ![i] = worker]
      BY <1>5 DEF Send, worker
    <3>. QED BY <1>1, <3>1, <3>2
  <2>3. \A c \in Calls : Wrapping(c)' = Wrapping(c) \ {i}
    BY <2>2 DEF Wrapping
  <2>. QED BY <1>5, <2>1, <2>3, SentKeepsRuns DEF Send, queueVars
<1>6. CASE WrapAgain(i) \/ PollAgain(i) \/ PollFinds(i)
  <2>1. \A j \in Instances : workers'[j].phase = "wrap" =>
          workers[j].phase = "wrap" /\ workers'[j].call = workers[j].call
    BY <1>1, <1>6 DEF WrapAgain, PollAgain, PollFinds, Worker
  <2>2. \A c \in Calls : Wrapping(c)' \subseteq Wrapping(c)
    BY <2>1 DEF Wrapping
  <2>. QED BY <1>3, <1>6, <2>2, QuietKeepsRuns DEF WrapAgain, PollAgain, PollFinds, queueVars
<1>7. CASE Complete(i)
  <2>1. /\ \A c \in Calls : holder'[c] \in {holder[c], None}
        /\ \A c \in Calls : Wrapping(c)' \subseteq Wrapping(c)
    BY <1>1, <1>7 DEF Complete, Wrapping, Rest
  <2>. QED BY <1>3, <1>7, <2>1, QuietKeepsRuns DEF Complete
<1>8. CASE WrapEnds(i) \/ HandlerRefuses(i) \/ PollEnds(i)
  <2>1. Throw(i) /\ UNCHANGED <<queue, stalled, txs>>
    BY <1>8 DEF WrapEnds, HandlerRefuses, PollEnds
  <2>. QED BY <1>2, <1>3, <2>1, QuietKeepsRuns
<1>. QED BY <1>4, <1>5, <1>6, <1>7, <1>8, TakeKeepsRuns DEF Works

\* The end of a process: its job is not at work any more.
LEMMA EndKeepsRuns ==
  ASSUME TypeInv, RunsInv, NEW i \in Instances, NEW phase, End(i, phase),
         UNCHANGED <<queue, stalled, holder, txs>>
  PROVE  RunsInv'
<1>1. \A c \in Calls : Wrapping(c)' \subseteq Wrapping(c)
  BY DEF End, Wrapping, Rest, TypeInv, TypeOK
<1>2. \A c \in Calls : TxsOf(c)' = TxsOf(c)
  BY DEF TxsOf, Hashes
<1>. QED BY <1>1, <1>2, QuietKeepsRuns

\* Steps that touch neither jobs nor transactions.
LEMMA OthersKeepRuns ==
  ASSUME RunsInv, UNCHANGED <<queue, stalled, holder, workers, txs>>
  PROVE  RunsInv'
BY DEF RunsInv, QueuedOnce, Granted, TxsOf, Hashes, Wrapping, Waits, InQueue

\* What becomes of a transaction does not change whose it is.
LEMMA ChainKeepsRuns ==
  ASSUME TypeInv, RunsInv, NEW t \in Hashes, Mine(t) \/ Revert(t)
  PROVE  RunsInv'
<1>1. txs \in Seq(Transaction) /\ t \in 1..Len(txs)
  BY DEF TypeInv, TypeOK, Transaction, Hashes
<1>2. PICK s : txs' = [txs EXCEPT ![t].state = s]
  BY DEF Mine, Revert
<1>3. Len(txs') = Len(txs) /\ \A u \in 1..Len(txs) : txs'[u].call = txs[u].call
  BY <1>1, <1>2 DEF Transaction
<1>4. \A c \in Calls : TxsOf(c)' = TxsOf(c)
  BY <1>3 DEF TxsOf, Hashes
<1>5. UNCHANGED <<queue, stalled, holder, workers>>
  BY DEF Mine, Revert, queueVars
<1>. QED BY <1>4, <1>5, QuietKeepsRuns DEF Wrapping

\* Every step keeps what is sent within what was granted.
LEMMA StepKeepsRuns == TypeInv /\ PromiseInv /\ RunsInv /\ [Next]_vars => RunsInv'
<1>. SUFFICES ASSUME TypeInv, PromiseInv, RunsInv, [Next]_vars PROVE RunsInv'
  OBVIOUS
<1>1. CASE UNCHANGED vars
  BY <1>1, OthersKeepRuns DEF vars
<1>2. ASSUME NEW i \in Instances, Boot(i) \/ Starts(i) PROVE RunsInv'
  <2>1. CASE RecheckFails(i) \/ WaitEnds(i)
    BY <2>1, EndKeepsRuns DEF RecheckFails, WaitEnds
  <2>2. CASE ~(RecheckFails(i) \/ WaitEnds(i))
    BY <1>2, <2>2, OthersKeepRuns
       DEF Starts, Boot, CheckDeployed, DeployContracts, RecheckPasses, InsertDeployed,
           Watch, WaitAgain, queueVars
  <2>. QED BY <2>1, <2>2
<1>3. ASSUME NEW i \in Instances, ProcessEvent(i) \/ LoseEvent(i) PROVE RunsInv'
  BY <1>3, OthersKeepRuns DEF ProcessEvent, LoseEvent, queueVars
<1>4. ASSUME NEW i \in Instances, StartRejects(i) \/ Crash(i) PROVE RunsInv'
  BY <1>4, EndKeepsRuns DEF StartRejects, DeployRejects, InsertRejects, QueryRejects, Crash
<1>5. CASE Migrate
  BY <1>5, OthersKeepRuns DEF Migrate, queueVars
<1>6. ASSUME NEW t \in 1..Len(txs), Mine(t) \/ Revert(t) PROVE RunsInv'
  BY <1>6, ChainKeepsRuns DEF Hashes
<1>. QED
  BY <1>1, <1>2, <1>3, <1>4, <1>5, <1>6, WorkKeepsRuns, AskKeepsRuns, StallKeepsRuns DEF Next

\* However many instances take jobs from the queue, lose their locks, crash
\* and go on after their job was given to another: a call is sent to the
\* chain once for its job and once for each time Bull reran it, and a call
\* that asked for nothing never is (onchain-certificate.service.ts:122-203).
THEOREM RunsAreBounded == Spec => []RunsBounded
<1>1. Init => RunsInv
  <2>. SUFFICES ASSUME Init PROVE RunsInv
    OBVIOUS
  <2>1. Hashes = {} /\ 1..Len(queue) = {}
    BY EmptySeq DEF Init, Hashes
  <2>2. QueuedOnce
    BY <2>1 DEF QueuedOnce
  <2>3. ASSUME NEW c \in Calls PROVE Granted(c)
    <3>1. TxsOf(c) = {} /\ Wrapping(c) = {} /\ Waits(c) = 0
      BY <2>1 DEF TxsOf, Wrapping, Waits, InQueue, Init, Rest
    <3>2. stalled[c] = 0 /\ MaxStalled \in Nat
      BY OnChainAssumption DEF OnChainAssumption, Init
    <3>. QED BY <3>1, <3>2, FS_EmptySet DEF Granted
  <2>. QED BY <2>2, <2>3 DEF RunsInv
<1>2. TypeInv /\ PromiseInv /\ RunsInv => RunsBounded
  <2>. SUFFICES ASSUME TypeInv, PromiseInv, RunsInv, NEW c \in Calls
                PROVE  /\ Cardinality(TxsOf(c)) <= 1 + stalled[c]
                       /\ stalled[c] <= MaxStalled
                       /\ answer[c] = "nothing" => \A t \in Hashes : txs[t].call # c
    BY DEF RunsBounded, TxsOf
  <2>1. /\ Cardinality(Wrapping(c)) \in Nat /\ Waits(c) \in Nat /\ stalled[c] \in Nat
        /\ Cardinality(TxsOf(c)) \in Nat
    BY TxsFinite, FS_CardinalityType DEF RunsInv, Granted, Waits, TypeInv, TypeOK
  <2>. QED BY <2>1 DEF RunsInv, Granted, PromiseInv, UnmadeUntouched, Untouched
<1>3. Spec => []TypeInv
  BY InitTyped, StepTyped, PTL DEF Spec
<1>4. Init => PromiseInv
  BY InitKeeps
<1>5. TypeInv /\ PromiseInv /\ [Next]_vars => PromiseInv'
  BY StepKeeps
<1>. QED BY <1>1, <1>2, <1>3, <1>4, <1>5, StepKeepsRuns, PTL DEF Spec
=============================================================================
