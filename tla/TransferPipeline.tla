--------------------------- MODULE TransferPipeline ---------------------------
(***************************************************************************)
(* The energy transfer requests of origin-247-transfer: the table of       *)
(* requests, the three tasks that bring a request from its reading to the  *)
(* transfer of its certificate, the validators, and the updates that       *)
(* arrive from outside.                                                    *)
(*                                                                         *)
(* A task works on copies of the rows it found and later writes whole rows *)
(* back; the answers of validators are written under a row lock while the  *)
(* task still holds its copy.  A stream (queueThrottle) runs a task's      *)
(* rounds one after another and ends with the first one that rejects.      *)
(***************************************************************************)
EXTENDS Naturals, Sequences, FiniteSets

CONSTANTS
  Requests,    \* ids of the table
  Validators,  \* the validate commands of the module's configuration
  Instances,   \* instances of the application
  BatchSize,   \* by kind: issueBatchSize, validateBatchSize, transferBatchSize
  MaxFailures  \* bound: rejected awaits and crashes

Kinds == {"issue", "validate", "transfer"}

ASSUME TransferAssumption ==
  /\ BatchSize \in [Kinds -> Nat \ {0}]
  /\ MaxFailures \in Nat

\* The state that a task takes, and the one in which it leaves a failure.
Awaiting == [issue |-> "IssuanceAwaiting", validate |-> "ValidationAwaiting",
             transfer |-> "TransferAwaiting"]
Failure  == [issue |-> "IssuanceError", validate |-> "ValidationError",
             transfer |-> "TransferError"]

\* A certificate is with the seller, moved to the buyer, or used up otherwise.
Holders == {"seller", "buyer", "spent"}

\* TransferValidationStatus
Answers == {"pending", "valid", "invalid", "error"}

VARIABLES
  table,    \* energy_transfer_request_v2: the requests that exist
  ledger,   \* who holds the certificates issued for each request
  said,     \* history: the answers that were stored for a request
  tasks,    \* the round of each task in each instance
  lanes,    \* calls of validators that a validation is waiting for
  due,      \* the tasks whose stream has a trigger to work off
  failures

pipelineVars == <<table, ledger, said, tasks, lanes, due, failures>>

NoRound == [phase |-> "waiting", copies |-> <<>>]
NoLanes == [rv \in Requests \X Validators |-> "idle"]

\* onApplicationBootstrap triggers every stream.
PipelineInit ==
  /\ table = <<>>
  /\ ledger = [r \in Requests |-> <<>>]
  /\ said = [r \in Requests |-> {}]
  /\ tasks = [ik \in Instances \X Kinds |-> NoRound]
  /\ lanes = [i \in Instances |-> NoLanes]
  /\ due = [i \in Instances |-> Kinds]
  /\ failures = 0

-----------------------------------------------------------------------------
(* The request *)

\* newAttributes
NewRow(empty, same) ==
  [state |-> IF empty THEN "Skipped" ELSE "IssuanceAwaiting",
   same |-> same, cert |-> 0, record |-> <<>>]

\* issuanceStarted, startValidation, transferStarted
Started(kind, row) ==
  CASE kind = "issue"    -> [row EXCEPT !.state = "IssuanceInProgress"]
    [] kind = "transfer" -> [row EXCEPT !.state = "TransferInProgress"]
    [] kind = "validate" ->
         IF Validators = {} THEN [row EXCEPT !.state = "TransferAwaiting"]
         ELSE [row EXCEPT !.state = "ValidationInProgress",
                          !.record = [v \in Validators |-> "pending"]]

\* issuanceFinished and persisted
Persisted(row, cert) ==
  [row EXCEPT !.cert = cert,
              !.state = IF row.same THEN "ValidationSkipped" ELSE "ValidationAwaiting"]

ErroredForRetry(kind, row) ==  \* mutant: failures are taken up again
  [row EXCEPT !.state = Awaiting[kind]]

\* issuanceError, validationError, transferError: from any state
Errored(kind, row) == [row EXCEPT !.state = Failure[kind]]

AnswerIgnoringRefusals(row, v, answer) ==  \* mutant: the last answer decides
  LET record == [row.record EXCEPT ![v] = answer]
      state  == IF \A w \in DOMAIN record : record[w] # "pending"
                THEN "TransferAwaiting" ELSE row.state
  IN  [row EXCEPT !.record = record, !.state = state]

OutcomeWithoutErrors(given) ==  \* mutant: errors decide nothing
  IF "invalid" \in given THEN "ValidationInvalid"
  ELSE IF given = {"valid"} THEN "TransferAwaiting"
  ELSE "ValidationInProgress"

\* What the answers given in a validation in progress decide.
Outcome(given) ==
  IF "error" \in given THEN "ValidationError"
  ELSE IF "invalid" \in given THEN "ValidationInvalid"
  ELSE IF given = {"valid"} THEN "TransferAwaiting"
  ELSE "ValidationInProgress"

\* updateValidationStatus of a validator whose answer is pending
Answered(row, v, answer) ==
  LET record == [row.record EXCEPT ![v] = answer]
      given  == {record[w] : w \in DOMAIN record}
  IN  [row EXCEPT !.record = record,
                  !.state = IF row.state = "ValidationInProgress" THEN Outcome(given)
                            ELSE row.state]

-----------------------------------------------------------------------------
(* The repository *)

\* saveManyInTransaction: whole rows, without a look at what they replace.
Saved(copies) == [r \in DOMAIN table |-> IF r \in DOMAIN copies THEN copies[r] ELSE table[r]]

StoredAnyTime(r, v, answer) ==  \* mutant: the last answer is kept
  [table EXCEPT ![r] = Answered(@, v, answer)]

\* updateWithLock around updateValidationStatus
StoredAnswer(r, v, answer) ==
  IF table[r].record[v] = "pending"
  THEN [table EXCEPT ![r] = Answered(@, v, answer)] ELSE table

\* The history of it.
SaidNow(r, v, answer) ==
  IF table[r].record[v] = "pending" /\ answer # "pending"
  THEN [said EXCEPT ![r] = @ \cup {<<v, answer>>}] ELSE said

\* An await rejects, or the process dies.
Fault ==
  /\ failures < MaxFailures
  /\ failures' = failures + 1

-----------------------------------------------------------------------------
(* A reading: GenerationReadingStoredEvent with sites for its generator *)

Reading(i, r, empty, same) ==
  /\ r \notin DOMAIN table
  /\ table' = [q \in DOMAIN table \cup {r} |->
                 IF q = r THEN NewRow(empty, same) ELSE table[q]]
  /\ due' = [due EXCEPT ![i] = @ \cup {"issue"}]
  /\ UNCHANGED <<ledger, said, tasks, lanes, failures>>

-----------------------------------------------------------------------------
(* What the three tasks have in common *)

Ready(kind) == {r \in DOMAIN table : table[r].state = Awaiting[kind]}

\* findByState: no order, at most a batch.
Batches(kind) ==
  {b \in SUBSET Ready(kind) :
     \/ Cardinality(b) = BatchSize[kind]
     \/ Cardinality(b) < BatchSize[kind] /\ b = Ready(kind)}

To(i, kind, phase, copies) ==
  tasks' = [tasks EXCEPT ![<<i, kind>>] = [phase |-> phase, copies |-> copies]]

FinishedForGood(i, kind, others) ==  \* mutant: the loop is not triggered
  /\ To(i, kind, "waiting", <<>>)
  /\ due' = [due EXCEPT ![i] = @ \cup others]

\* Each task ends with the event that triggers it again.
Finished(i, kind, others) ==
  /\ To(i, kind, "waiting", <<>>)
  /\ due' = [due EXCEPT ![i] = @ \cup {kind} \cup others]

At(i, kind, phase) == tasks[<<i, kind>>].phase = phase
CopiesOf(i, kind) == tasks[<<i, kind>>].copies

Find(i, kind) ==
  /\ At(i, kind, "waiting")
  /\ kind \in due[i]
  /\ \E b \in Batches(kind) :
       /\ b # {}
       /\ To(i, kind, "starting", [r \in b |-> Started(kind, table[r])])
  /\ due' = [due EXCEPT ![i] = @ \ {kind}]
  /\ UNCHANGED <<table, ledger, said, lanes, failures>>

\* A round without requests saves nothing and publishes what any round does.
FindNothing(i, kind) ==
  /\ At(i, kind, "waiting")
  /\ kind \in due[i]
  /\ Ready(kind) = {}
  /\ Finished(i, kind, CASE kind = "issue" -> {"validate"}
                         [] kind = "validate" /\ Validators = {} -> {"transfer"}
                         [] OTHER -> {})
  /\ UNCHANGED <<table, ledger, said, lanes, failures>>

\* The first save of a round: the requests are marked as in progress.
SaveStarted(i, kind) ==
  /\ At(i, kind, "starting")
  /\ table' = Saved(CopiesOf(i, kind))
  /\ IF kind = "validate" /\ Validators = {}
     THEN Finished(i, kind, {"transfer"})
     ELSE To(i, kind, "acting", CopiesOf(i, kind)) /\ UNCHANGED due
  /\ lanes' = IF kind = "validate"
              THEN [lanes EXCEPT ![i] = [rv \in DOMAIN @ |->
                      IF rv[1] \in DOMAIN CopiesOf(i, kind) THEN "asked" ELSE @[rv]]]
              ELSE lanes
  /\ UNCHANGED <<ledger, said, failures>>

\* The last save of an issuance or a transfer.
SaveFinished(i, kind) ==
  /\ At(i, kind, "finishing") \/ At(i, kind, "failing")
  /\ table' = Saved(CopiesOf(i, kind))
  /\ Finished(i, kind, IF kind = "issue" /\ At(i, kind, "finishing") THEN {"validate"} ELSE {})
  /\ UNCHANGED <<ledger, said, lanes, failures>>

\* findByState or a save rejects, the latter with or without its effect.
\* Only the save of a finished issuance is inside a try.
RepositoryFails(i, kind) ==
  /\ Fault
  /\ \/ At(i, kind, "waiting") /\ kind \in due[i] /\ due' = [due EXCEPT ![i] = @ \ {kind}]
     \/ tasks[<<i, kind>>].phase \in {"starting", "finishing", "failing"} /\ UNCHANGED due
  /\ table' \in {table, Saved(CopiesOf(i, kind))}
  /\ IF kind = "issue" /\ At(i, kind, "finishing")
     THEN To(i, kind, "failing", [r \in DOMAIN CopiesOf(i, kind) |->
                                    Errored(kind, CopiesOf(i, kind)[r])])
     ELSE To(i, kind, "dead", <<>>)
  /\ UNCHANGED <<ledger, said, lanes>>

-----------------------------------------------------------------------------
(* Issuance: batchIssue of the off-chain service *)

Issued(copies) ==
  [r \in Requests |-> IF r \in DOMAIN copies THEN Append(ledger[r], "seller") ELSE ledger[r]]

BatchIssue(i) ==
  /\ At(i, "issue", "acting")
  /\ LET copies == CopiesOf(i, "issue")
     IN  /\ ledger' = Issued(copies)
         /\ To(i, "issue", "finishing",
               [r \in DOMAIN copies |-> Persisted(copies[r], Len(ledger[r]) + 1)])
  /\ UNCHANGED <<table, said, lanes, due, failures>>

BatchIssueFails(i) ==
  /\ At(i, "issue", "acting")
  /\ Fault
  /\ LET copies == CopiesOf(i, "issue")
     IN  /\ ledger' \in {ledger, Issued(copies)}
         /\ To(i, "issue", "failing", [r \in DOMAIN copies |-> Errored("issue", copies[r])])
  /\ UNCHANGED <<table, said, lanes, due>>

-----------------------------------------------------------------------------
(* Transfer: batchTransfer of the off-chain service *)

\* The seller still has the volume; one request without it fails the batch.
Accepted(copies) ==
  \A r \in DOMAIN copies :
    /\ copies[r].cert \in DOMAIN ledger[r]
    /\ ledger[r][copies[r].cert] = "seller"

Moved(copies) ==
  [r \in Requests |-> IF r \in DOMAIN copies
                      THEN [ledger[r] EXCEPT ![copies[r].cert] = "buyer"] ELSE ledger[r]]

BatchTransfer(i) ==
  /\ At(i, "transfer", "acting")
  /\ LET copies == CopiesOf(i, "transfer")
     IN  /\ Accepted(copies)
         /\ ledger' = Moved(copies)
         /\ To(i, "transfer", "finishing",
               [r \in DOMAIN copies |-> [copies[r] EXCEPT !.state = "Transferred"]])
  /\ UNCHANGED <<table, said, lanes, due, failures>>

BatchTransferFailsUnnoticed(i) ==  \* mutant: the catch does nothing
  /\ At(i, "transfer", "acting")
  /\ LET copies == CopiesOf(i, "transfer")
     IN  /\ ~Accepted(copies)
         /\ To(i, "transfer", "finishing",
               [r \in DOMAIN copies |-> [copies[r] EXCEPT !.state = "Transferred"]])
  /\ UNCHANGED <<table, ledger, said, lanes, due, failures>>

BatchTransferFails(i) ==
  /\ At(i, "transfer", "acting")
  /\ LET copies == CopiesOf(i, "transfer")
     IN  /\ \/ /\ ~Accepted(copies)
               /\ UNCHANGED <<ledger, failures>>
            \/ /\ Accepted(copies)
               /\ Fault
               /\ ledger' \in {ledger, Moved(copies)}
         /\ To(i, "transfer", "finishing",
               [r \in DOMAIN copies |-> Errored("transfer", copies[r])])
  /\ UNCHANGED <<table, said, lanes, due>>

-----------------------------------------------------------------------------
(* Validation *)

\* updateValidationStatus triggers the transfers.
Trigger(i, kind) == due' = [due EXCEPT ![i] = @ \cup {kind}]

Lane(i, r, v, state) == lanes' = [lanes EXCEPT ![i] = [@ EXCEPT ![<<r, v>>] = state]]

\* A validator returns (or throws, which counts as an error), and the answer
\* is stored, or skipped when another one was there first.
Answer(i, r, v, answer) ==
  /\ lanes[i][<<r, v>>] = "asked"
  /\ v \in DOMAIN table[r].record
  /\ table' = StoredAnswer(r, v, answer)
  /\ said' = SaidNow(r, v, answer)
  /\ Lane(i, r, v, "done")
  /\ IF table[r].record[v] = "pending" THEN Trigger(i, "transfer") ELSE UNCHANGED due
  /\ UNCHANGED <<ledger, tasks, failures>>

\* updateWithLock rejects: no such validator in the row, or a failure before
\* or after the commit.
AnswerFails(i, r, v, answer) ==
  /\ lanes[i][<<r, v>>] = "asked"
  /\ \/ /\ v \notin DOMAIN table[r].record
        /\ UNCHANGED <<table, said, failures>>
     \/ /\ v \in DOMAIN table[r].record
        /\ Fault
        /\ \/ UNCHANGED <<table, said>>
           \/ /\ table' = StoredAnswer(r, v, answer)
              /\ said' = SaidNow(r, v, answer)
  /\ Lane(i, r, v, "failed")
  /\ UNCHANGED <<ledger, tasks, due>>

\* The catch of a request: the task's copy is saved, as of its start.
Forget(i, r, phase) ==
  To(i, "validate", phase, [q \in DOMAIN CopiesOf(i, "validate") \ {r} |->
                              CopiesOf(i, "validate")[q]])

CaughtCopy(i, r) == [q \in {r} |-> Errored("validate", CopiesOf(i, "validate")[r])]

CatchAsValidated(i, r) ==  \* mutant: the copy is saved as it is
  /\ r \in DOMAIN CopiesOf(i, "validate")
  /\ \E v \in Validators : lanes[i][<<r, v>>] = "failed"
  /\ table' = Saved([q \in {r} |-> [CopiesOf(i, "validate")[r] EXCEPT !.state = "ValidationAwaiting"]])
  /\ Forget(i, r, tasks[<<i, "validate">>].phase)
  /\ UNCHANGED <<ledger, said, lanes, due, failures>>

Catch(i, r) ==
  /\ r \in DOMAIN CopiesOf(i, "validate")
  /\ \E v \in Validators : lanes[i][<<r, v>>] = "failed"
  /\ tasks[<<i, "validate">>].phase \in {"acting", "dead"}
  /\ table' = Saved(CaughtCopy(i, r))
  /\ Forget(i, r, tasks[<<i, "validate">>].phase)
  /\ UNCHANGED <<ledger, said, lanes, due, failures>>

CatchFails(i, r) ==
  /\ r \in DOMAIN CopiesOf(i, "validate")
  /\ \E v \in Validators : lanes[i][<<r, v>>] = "failed"
  /\ tasks[<<i, "validate">>].phase \in {"acting", "dead"}
  /\ Fault
  /\ table' \in {table, Saved(CaughtCopy(i, r))}
  /\ Forget(i, r, "dead")
  /\ UNCHANGED <<ledger, said, lanes, due>>

\* Promise.all: every request of the batch is answered for, or was caught.
EndValidation(i) ==
  /\ At(i, "validate", "acting")
  /\ \A r \in DOMAIN CopiesOf(i, "validate"), v \in Validators : lanes[i][<<r, v>>] = "done"
  /\ Finished(i, "validate", {})
  /\ UNCHANGED <<table, ledger, said, lanes, failures>>

\* UpdateTransferValidationCommand, sent by the application to any instance.
Update(i, r, v, answer) ==
  /\ r \in DOMAIN table
  /\ v \in DOMAIN table[r].record
  /\ table[r].record[v] = "pending"
  /\ table' = StoredAnswer(r, v, answer)
  /\ said' = SaidNow(r, v, answer)
  /\ Trigger(i, "transfer")
  /\ UNCHANGED <<ledger, tasks, lanes, failures>>

\* The seller uses the certificate elsewhere: claims it, or transfers it.
Spend(r) ==
  /\ \E c \in DOMAIN ledger[r] :
       /\ ledger[r][c] = "seller"
       /\ ledger' = [ledger EXCEPT ![r] = [@ EXCEPT ![c] = "spent"]]
  /\ UNCHANGED <<table, said, tasks, lanes, due, failures>>

-----------------------------------------------------------------------------
(* An instance dies and starts again; streams that had ended live again. *)

Crash(i) ==
  /\ Fault
  /\ tasks' = [ik \in DOMAIN tasks |-> IF ik[1] = i THEN NoRound ELSE tasks[ik]]
  /\ lanes' = [lanes EXCEPT ![i] = NoLanes]
  /\ due' = [due EXCEPT ![i] = Kinds]
  /\ UNCHANGED <<table, ledger, said>>

-----------------------------------------------------------------------------
(* The pipeline *)

\* One step of one task in one instance.
Proceed(i, kind) ==
  \/ Find(i, kind)
  \/ FindNothing(i, kind)
  \/ SaveStarted(i, kind)
  \/ SaveFinished(i, kind)

Round(i, kind) == Proceed(i, kind) \/ RepositoryFails(i, kind)

Validating(i) ==
  \/ \E r \in Requests, v \in Validators, answer \in Answers :
       Answer(i, r, v, answer) \/ AnswerFails(i, r, v, answer)
  \/ \E r \in Requests : Catch(i, r) \/ CatchFails(i, r)
  \/ EndValidation(i)

Serving(i) ==
  \/ \E kind \in Kinds : Round(i, kind)
  \/ BatchIssue(i)
  \/ BatchIssueFails(i)
  \/ BatchTransfer(i)
  \/ BatchTransferFails(i)
  \/ Validating(i)
  \/ Crash(i)

Outside(i) ==
  \/ \E r \in Requests, empty, same \in BOOLEAN : Reading(i, r, empty, same)
  \/ \E r \in Requests, v \in Validators, answer \in Answers : Update(i, r, v, answer)

PipelineNext ==
  \/ \E i \in Instances : Serving(i) \/ Outside(i)
  \/ \E r \in Requests : Spend(r)

PipelineSpec == PipelineInit /\ [][PipelineNext]_pipelineVars

-----------------------------------------------------------------------------
(* Properties *)

States ==
  {"Skipped", "IssuanceAwaiting", "IssuanceInProgress", "IssuanceError",
   "ValidationAwaiting", "ValidationSkipped", "ValidationInProgress", "ValidationError",
   "ValidationInvalid", "TransferAwaiting", "TransferInProgress", "TransferError",
   "Transferred"}

Records == {<<>>} \cup [Validators -> Answers]

Rows == [state : States, same : BOOLEAN, cert : Nat, record : Records]

Phases == {"waiting", "starting", "acting", "finishing", "failing", "dead"}

\* The table, or the copies of some of its rows.
IsTable(t) == DOMAIN t \subseteq Requests /\ t \in [DOMAIN t -> Rows]

\* Every variable has its type: rows and copies are rows, and what a task
\* copies exists in the table.
PipelineTypeOK ==
  /\ IsTable(table)
  /\ ledger \in [Requests -> Seq(Holders)]
  /\ said \in [Requests -> SUBSET (Validators \X Answers)]
  /\ DOMAIN tasks = Instances \X Kinds
  /\ \A ik \in Instances \X Kinds :
       /\ tasks[ik].phase \in Phases
       /\ IsTable(tasks[ik].copies)
       /\ DOMAIN tasks[ik].copies \subseteq DOMAIN table
  /\ lanes \in [Instances -> [Requests \X Validators -> {"idle", "asked", "done", "failed"}]]
  /\ due \in [Instances -> SUBSET Kinds]
  /\ failures \in 0..MaxFailures

HasMoved(r) == \E c \in DOMAIN ledger[r] : ledger[r][c] = "buyer"

\* A certificate moves to the buyer only if every validator's stored answer
\* for its request was at some time "valid", whatever stale row was written
\* over the answers (validate.service.ts, transfer.service.ts).
ConsentBeforeTransfer ==
  \A r \in Requests : HasMoved(r) => \A v \in Validators : <<v, "valid">> \in said[r]

\* With one instance a refusal that was once stored is never forgotten: no
\* step makes a request ready for transfer that a validator found invalid or
\* failed on, even if the row was rewritten in between (validate.service.ts).
RefusalsStick ==
  [][\A r \in DOMAIN table :
       /\ \E v \in Validators : {<<v, "invalid">>, <<v, "error">>} \cap said[r] # {}
       /\ table[r].state # "TransferAwaiting"
       => table'[r].state # "TransferAwaiting"]_pipelineVars

\* With one instance no request is issued a second certificate, through
\* lost answers of the service, failed saves and restarts (issue.service.ts).
IssuedOnce == \A r \in Requests : Len(ledger[r]) <= 1

\* What a row says of its certificate is so: a request that waits for
\* validation or transfer has one, Transferred means that it moved, and none
\* that has moved will be taken up again (transfer.service.ts: "verified by
\* transferStarted state").
RowsMatchLedger ==
  \A r \in DOMAIN table :
    /\ table[r].state \in {"ValidationAwaiting", "ValidationSkipped", "ValidationInProgress",
                           "TransferAwaiting", "TransferInProgress", "Transferred"}
         => table[r].cert \in DOMAIN ledger[r]
    /\ table[r].state = "Transferred" => HasMoved(r)
    /\ HasMoved(r) => table[r].state \in {"TransferInProgress", "Transferred", "TransferError",
                                          "ValidationError", "IssuanceError"}

\* As long as nothing fails, every answer that was stored stays in the row,
\* although the tasks save whole rows that they read before the answers
\* came (EnergyTransferRequestPostgres.repository.ts: "all will get properly
\* registered").
AnswersRegistered ==
  failures = 0 =>
    \A r \in DOMAIN table : \A va \in said[r] :
      va[1] \in DOMAIN table[r].record /\ table[r].record[va[1]] = va[2]

-----------------------------------------------------------------------------
(* Liveness *)

\* A living process takes its next step, and validators return something.
\* Where an await may also reject, fairness does not choose between the two.
FairPipeline ==
  /\ PipelineSpec
  /\ \A i \in Instances :
       /\ \A kind \in Kinds : WF_pipelineVars(Proceed(i, kind))
       /\ WF_pipelineVars(BatchIssue(i) \/ BatchIssueFails(i))
       /\ WF_pipelineVars(BatchTransfer(i) \/ BatchTransferFails(i))
       /\ WF_pipelineVars(Validating(i))

StateOf(r) == IF r \in DOMAIN table THEN table[r].state ELSE "absent"

\* A request that a task should take up is taken up, or that task's stream
\* has ended: no trigger is lost, through crashes and full batches
\* (queueThrottle.ts, the "Loop" of each task).
PickedUp ==
  \A r \in Requests : \A kind \in Kinds :
    StateOf(r) = Awaiting[kind]
      ~> (StateOf(r) # Awaiting[kind] \/ \A i \in Instances : At(i, kind, "dead"))

Settled ==
  {"Skipped", "ValidationSkipped", "IssuanceError", "ValidationError", "ValidationInvalid",
   "TransferError", "Transferred"}

\* Without failures every request ends, or waits for a validator that has
\* promised to answer later.
RequestsSettle ==
  \A r \in Requests :
    StateOf(r) # "absent"
      ~> \/ StateOf(r) \in Settled
         \/ failures > 0
         \/ /\ StateOf(r) = "ValidationInProgress"
            /\ \E v \in Validators : /\ table[r].record[v] = "pending"
                                     /\ \A i \in Instances : lanes[i][<<r, v>>] # "asked"
=============================================================================
