---------------------------- MODULE ProofRequests ----------------------------
(***************************************************************************)
(* The proofs of readings in origin-247-energy-api: the table of requests, *)
(* the stream of rounds that each instance of the application runs over    *)
(* it, the notary contract on the chain, the table of proofs, and the      *)
(* readings in InfluxDB.                                                   *)
(*                                                                         *)
(* A round is a chain of awaited calls on four stores and the chain, with  *)
(* no transaction around them.  Each call may be refused, and it may be    *)
(* carried out and its answer lost; the process may die between any two.   *)
(* A proof is its rank in proofs, which stands for its root hash: the      *)
(* salts are random, so two proofs never have the same one.                *)
(***************************************************************************)
EXTENDS Naturals, Sequences, FiniteSets

CONSTANTS
  Requests,    \* rows that may be created; a row stands for its reading, too
  DeviceOf,    \* the device of each request
  Unstorable,  \* requests whose value InfluxDB does not take as an integer
  Instances,   \* processes of the application
  Limit,       \* rows that a round takes at most: 100 in the code
  MaxFaults    \* bound: crashes, refused calls, lost answers

ASSUME ProofAssumption ==
  /\ Requests \subseteq DOMAIN DeviceOf
  /\ Unstorable \subseteq Requests
  /\ Limit \in Nat \ {0}
  /\ MaxFaults \in Nat

VARIABLES
  table,      \* notary_proof_request: the state of each row
  deployed,   \* whether a notary contract is recorded
  apps,       \* how far each instance is with its start
  due,        \* instances with a trigger to work off
  rounds,     \* the round each instance's stream is in
  chain,      \* the proofs sent to the chain
  proofs,     \* the proofs recorded in the database
  readings,   \* the readings in InfluxDB: requests with their proof
  announced,  \* the readings of the published events
  faults

tables == <<table, deployed, proofs, readings>>
vars == <<table, deployed, apps, due, rounds, chain, proofs, readings, announced, faults>>

NoRound == [step |-> "rest", batch |-> {}, proof |-> 0]

Init ==
  /\ table = [r \in Requests |-> "absent"]
  /\ deployed = FALSE
  /\ apps = [i \in Instances |-> "down"]
  /\ due = {}
  /\ rounds = [i \in Instances |-> NoRound]
  /\ chain = <<>>
  /\ proofs = {}
  /\ readings = {}
  /\ announced = {}
  /\ faults = 0

Fault == faults < MaxFaults /\ faults' = faults + 1

-----------------------------------------------------------------------------
(* Starting an instance: onModuleInit of the notary, then the first trigger *)

\* A start that finds no contract deploys one, and records it later: two
\* instances may both do so, and each takes the first row it finds.
Boot(i) ==
  /\ apps[i] = "down"
  /\ apps' = [apps EXCEPT ![i] = IF deployed THEN "starting" ELSE "deploying"]
  /\ UNCHANGED <<tables, due, rounds, chain, announced, faults>>

Deployed(i) ==
  /\ apps[i] = "deploying"
  /\ deployed' = TRUE
  /\ apps' = [apps EXCEPT ![i] = "starting"]
  /\ UNCHANGED <<table, due, rounds, chain, proofs, readings, announced, faults>>

BootstrapSilently(i) ==  \* mutant: a start waits for the next request
  /\ apps[i] = "starting"
  /\ apps' = [apps EXCEPT ![i] = "up"]
  /\ UNCHANGED <<tables, due, rounds, chain, announced, faults>>

\* onApplicationBootstrap
Bootstrap(i) ==
  /\ apps[i] = "starting"
  /\ apps' = [apps EXCEPT ![i] = "up"]
  /\ due' = due \cup {i}
  /\ UNCHANGED <<tables, rounds, chain, announced, faults>>

Crash(i) ==
  /\ apps[i] # "down"
  /\ apps' = [apps EXCEPT ![i] = "down"]
  /\ due' = due \ {i}
  /\ rounds' = [rounds EXCEPT ![i] = NoRound]
  /\ Fault
  /\ UNCHANGED <<tables, chain, announced>>

-----------------------------------------------------------------------------
(* requestReadingProof *)

\* One call saves several rows, of several devices, and then triggers.  The
\* debounced timer and the queue of the stream make of any number of triggers
\* at least one more round.
RequestReadingProof(i, new) ==
  /\ apps[i] = "up"
  /\ \A r \in new : table[r] = "absent"
  /\ table' = [r \in Requests |-> IF r \in new THEN "pending" ELSE table[r]]
  /\ due' = due \cup {i}
  /\ UNCHANGED <<deployed, apps, rounds, chain, proofs, readings, announced, faults>>

-----------------------------------------------------------------------------
(* A round: processRequests *)

At(i, step) == rounds[i].step = step
Batch(i) == rounds[i].batch
Stored == {r \in Requests : table[r] \notin {"absent", "removed"}}
RowsOf(d) == {r \in Stored : DeviceOf[r] = d}

\* update and delete by id: rows that are gone stay gone.
Updated(batch, state) ==
  [r \in Requests |-> IF r \in batch \cap Stored THEN state ELSE table[r]]

\* findPendingRequests: the rows of one device that has a pending one, at
\* most Limit of them, in whatever state and no order.
Found ==
  UNION {{b \in SUBSET RowsOf(DeviceOf[r]) :
            \/ Cardinality(b) = Limit
            \/ Cardinality(b) < Limit /\ b = RowsOf(DeviceOf[r])} :
         r \in {q \in Requests : table[q] = "pending"}}

Find(i) ==
  /\ At(i, "rest")
  /\ i \in due
  /\ due' = due \ {i}
  /\ \E b \in Found :
       rounds' = [rounds EXCEPT ![i] = [step |-> "mark", batch |-> b, proof |-> 0]]
  /\ UNCHANGED <<tables, apps, chain, announced, faults>>

\* Nothing is pending: the round returns without a trigger.
FindNothing(i) ==
  /\ At(i, "rest")
  /\ i \in due
  /\ Found = {}
  /\ due' = due \ {i}
  /\ UNCHANGED <<tables, apps, rounds, chain, announced, faults>>

\* The query is outside the try: the stream ends for good.
FindRejects(i) ==
  /\ At(i, "rest")
  /\ i \in due
  /\ rounds' = [rounds EXCEPT ![i] = [NoRound EXCEPT !.step = "dead"]]
  /\ due' = due \ {i}
  /\ Fault
  /\ UNCHANGED <<tables, apps, chain, announced>>

Goes(i, step) == rounds' = [rounds EXCEPT ![i].step = step]

\* A call was carried out; its answer arrives, or an error instead of it.
Answered(i, next) ==
  \/ Goes(i, next) /\ UNCHANGED faults
  \/ Goes(i, "error") /\ Fault

\* A call inside the try is refused.
Refused(i) ==
  /\ rounds[i].step \in {"mark", "send", "wait", "save", "store", "remove"}
  /\ Goes(i, "error")
  /\ Fault
  /\ UNCHANGED <<tables, apps, due, chain, announced>>

\* markRequestsAsProcessing
Mark(i) ==
  /\ At(i, "mark")
  /\ table' = Updated(Batch(i), "processing")
  /\ Answered(i, "send")
  /\ UNCHANGED <<deployed, apps, due, chain, proofs, readings, announced>>

\* storeMeterReadings on the recorded contract, with the notary's own key.
Send(i) ==
  /\ At(i, "send")
  /\ chain' = Append(chain, [by |-> i, batch |-> Batch(i), state |-> "sent"])
  /\ \/ /\ rounds' = [rounds EXCEPT ![i] = [@ EXCEPT !.step = "wait", !.proof = Len(chain) + 1]]
        /\ UNCHANGED faults
     \/ Goes(i, "error") /\ Fault
  /\ UNCHANGED <<tables, apps, due, announced>>

WaitNot(i) ==  \* mutant: the receipt is not awaited
  /\ At(i, "wait")
  /\ Goes(i, "save")
  /\ UNCHANGED <<tables, apps, due, chain, announced, faults>>

\* tx.wait, without a timeout; it throws for a reverted transaction.
Wait(i) ==
  /\ At(i, "wait")
  /\ chain[rounds[i].proof].state # "sent"
  /\ Goes(i, IF chain[rounds[i].proof].state = "mined" THEN "save" ELSE "error")
  /\ UNCHANGED <<tables, apps, due, chain, announced, faults>>

\* PersistProofCommand
Save(i) ==
  /\ At(i, "save")
  /\ proofs' = proofs \cup {rounds[i].proof}
  /\ Answered(i, "store")
  /\ UNCHANGED <<table, deployed, apps, due, chain, readings, announced>>

\* storeWithProof: intField throws for a value that is no integer, and then
\* nothing of the batch is written.
Store(i) ==
  /\ At(i, "store")
  /\ Batch(i) \cap Unstorable = {}
  /\ readings' = readings \cup (Batch(i) \X {rounds[i].proof})
  /\ Answered(i, "remove")
  /\ UNCHANGED <<table, deployed, apps, due, chain, proofs, announced>>

StoreThrows(i) ==
  /\ At(i, "store")
  /\ Batch(i) \cap Unstorable # {}
  /\ Goes(i, "error")
  /\ UNCHANGED <<tables, apps, due, chain, announced, faults>>

RemoveNothing(i) ==  \* mutant: processed requests are put back
  /\ At(i, "remove")
  /\ table' = Updated(Batch(i), "pending")
  /\ Answered(i, "publish")
  /\ UNCHANGED <<deployed, apps, due, chain, proofs, readings, announced>>

RemoveDevice(i) ==  \* mutant: the rows of the device are removed
  /\ At(i, "remove")
  /\ table' = Updated({r \in Stored : \E q \in Batch(i) : DeviceOf[q] = DeviceOf[r]}, "removed")
  /\ Answered(i, "publish")
  /\ UNCHANGED <<deployed, apps, due, chain, proofs, readings, announced>>

\* removeRequests
Remove(i) ==
  /\ At(i, "remove")
  /\ table' = Updated(Batch(i), "removed")
  /\ Answered(i, "publish")
  /\ UNCHANGED <<deployed, apps, due, chain, proofs, readings, announced>>

\* The end of every round that found something.
Again(i) ==
  /\ rounds' = [rounds EXCEPT ![i] = NoRound]
  /\ due' = due \cup {i}

\* ReadingProofProcessedEvent
Publish(i) ==
  /\ At(i, "publish")
  /\ announced' = announced \cup (Batch(i) \X {rounds[i].proof})
  /\ Again(i)
  /\ UNCHANGED <<tables, apps, chain, faults>>

SaveNoError(i) ==  \* mutant: the error is logged only
  /\ At(i, "error")
  /\ Again(i)
  /\ UNCHANGED <<tables, apps, chain, announced, faults>>

\* saveProcessingError, in the catch.
SaveError(i) ==
  /\ At(i, "error")
  /\ table' = Updated(Batch(i), "processingError")
  /\ Again(i)
  /\ UNCHANGED <<deployed, apps, chain, proofs, readings, announced, faults>>

\* ... which rejects: the stream ends for good.
SaveErrorRejects(i) ==
  /\ At(i, "error")
  /\ table' \in {table, Updated(Batch(i), "processingError")}
  /\ rounds' = [rounds EXCEPT ![i] = [NoRound EXCEPT !.step = "dead"]]
  /\ due' = due \ {i}
  /\ Fault
  /\ UNCHANGED <<deployed, apps, chain, proofs, readings, announced>>

-----------------------------------------------------------------------------
(* The chain *)

Settle(p) ==
  /\ chain[p].state = "sent"
  /\ \E s \in {"mined", "reverted"} : chain' = [chain EXCEPT ![p].state = s]
  /\ UNCHANGED <<tables, apps, due, rounds, announced, faults>>

-----------------------------------------------------------------------------
(* The specification *)

Starting(i) == Boot(i) \/ Deployed(i) \/ Bootstrap(i)

Processing(i) ==
  \/ Find(i) \/ FindNothing(i) \/ Mark(i) \/ Send(i) \/ Wait(i) \/ Save(i)
  \/ Store(i) \/ StoreThrows(i) \/ Remove(i) \/ Publish(i) \/ SaveError(i)

Next ==
  \/ \E i \in Instances : \/ Starting(i) \/ Processing(i) \/ Refused(i)
                          \/ FindRejects(i) \/ SaveErrorRejects(i) \/ Crash(i)
  \/ \E i \in Instances : \E new \in (SUBSET Requests) \ {{}} : RequestReadingProof(i, new)
  \/ \E p \in 1..Len(chain) : Settle(p)

Spec == Init /\ [][Next]_vars

\* A process that ended is started again, awaited calls are
\* answered and a transaction is mined or reverted some day.
FairSpec ==
  /\ Spec
  /\ \A i \in Instances :
       WF_vars(Starting(i)) /\ WF_vars(Processing(i))
  /\ WF_vars(\E p \in 1..Len(chain) : Settle(p))

-----------------------------------------------------------------------------
(* Properties *)

Hashes == 1..Len(chain)

ProofTypeOK ==
  /\ table \in [Requests -> {"absent", "pending", "processing", "processingError", "removed"}]
  /\ deployed \in BOOLEAN
  /\ apps \in [Instances -> {"down", "deploying", "starting", "up"}]
  /\ due \subseteq Instances
  /\ rounds \in [Instances ->
       [step: {"rest", "dead", "mark", "send", "wait", "save", "store", "remove",
               "publish", "error"},
        batch: SUBSET Requests, proof: {0} \cup Hashes]]
  /\ chain \in Seq([by: Instances, batch: SUBSET Requests,
                    state: {"sent", "mined", "reverted"}])
  /\ proofs \subseteq Hashes
  /\ readings \subseteq Requests \X Hashes
  /\ announced \subseteq Requests \X Hashes
  /\ faults \in 0..MaxFaults

\* A proof that a reader of the readings can check: its root is on the
\* chain, its leaves are in the database, and the reading is one of them.
Verifiable(r, p) == p \in proofs /\ chain[p].state = "mined" /\ r \in chain[p].batch

\* No reading is lost: a request leaves the table only when its reading is
\* stored, and every reading that is stored or announced can be verified,
\* whatever call was refused, answered late or cut off by a crash
\* (proof-request.service.ts:75-103).
NothingLost ==
  /\ \A r \in Requests : table[r] = "removed" => \E p \in Hashes : <<r, p>> \in readings
  /\ \A x \in readings : Verifiable(x[1], x[2])
  /\ announced \subseteq readings

\* Nobody pays twice for the proof of a reading for no reason: one instance
\* has two proofs of it mined only after a fault, or because the reading was
\* in a batch that InfluxDB refuses (proof-request.repository.ts:53-71).
ProofsBounded ==
  \A r \in Requests, i \in Instances :
    Cardinality({p \in Hashes : /\ chain[p].by = i /\ chain[p].state = "mined"
                                /\ r \in chain[p].batch
                                /\ chain[p].batch \cap Unstorable = {}}) <= 1 + faults

\* README: "In case of any error during creating proofs, it's saved in
\* database": without a crash and as long as errors can be saved, a row that
\* is marked as processing is in somebody's round.
ProcessingIsAttended ==
  faults = 0 => \A r \in Requests :
    table[r] = "processing" => \E i \in Instances : r \in Batch(i)

\* More rows of the request's device than a round takes.
Crowded(r) == Cardinality(RowsOf(DeviceOf[r])) > Limit

\* A pending request is taken up, even if its trigger was lost in a crash or
\* came during a round, unless a stream has ended or failed requests of the
\* device take its place: see "What is not promised" in the README.
TakenUp ==
  \A r \in Requests :
    table[r] = "pending" ~>
      (table[r] # "pending" \/ Crowded(r) \/ \E i \in Instances : At(i, "dead"))
=============================================================================
