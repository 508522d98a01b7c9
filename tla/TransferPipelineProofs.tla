------------------------ MODULE TransferPipelineProofs ------------------------
(***************************************************************************)
(* Type correctness of the transfer pipeline, and that nothing is          *)
(* transferred without the consent of every validator: for any number of   *)
(* instances of the application, requests, validators, and failures.       *)
(* With one instance: no request gets two certificates, the rows say the   *)
(* truth about theirs, a refusal is final, and as long as nothing fails no *)
(* answer of a validator is lost.                                          *)
(***************************************************************************)
EXTENDS TransferPipeline, TLAPS, SequenceTheorems

-----------------------------------------------------------------------------
(* Rows *)

\* A new request is a row.
LEMMA NewRowTyped ==
  \A empty, same \in BOOLEAN : NewRow(empty, same) \in Rows
BY DEF NewRow, Rows, States, Records

\* A task that starts or fails on a request, or finishes with it, makes rows of rows.
LEMMA StartedTyped ==
  ASSUME NEW kind \in Kinds, NEW row \in Rows
  PROVE  Started(kind, row) \in Rows
<1>1. [v \in Validators |-> "pending"] \in [Validators -> Answers]
  BY DEF Answers
<1>. QED BY <1>1 DEF Started, Rows, States, Records, Kinds

\* A failed request is a row.
LEMMA ErroredTyped ==
  ASSUME NEW kind \in Kinds, NEW row \in Rows
  PROVE  Errored(kind, row) \in Rows
BY DEF Errored, Failure, Rows, States, Kinds

\* So is one whose certificate was issued.
LEMMA PersistedTyped ==
  ASSUME NEW row \in Rows, NEW cert \in Nat
  PROVE  Persisted(row, cert) \in Rows
BY DEF Persisted, Rows, States

\* An answer makes a row of a row.
LEMMA AnsweredTyped ==
  ASSUME NEW row \in Rows, NEW v \in Validators, NEW answer \in Answers
  PROVE  Answered(row, v, answer) \in Rows
<1>. DEFINE record == [row.record EXCEPT ![v] = answer]
<1>1. record \in Records
  BY DEF Rows, Records
<1>. HIDE DEF record
<1>. DEFINE given == {record[w] : w \in DOMAIN record}
<1>2. Outcome(given) \in States
  BY DEF Outcome, States
<1>. DEFINE state == IF row.state = "ValidationInProgress" THEN Outcome(given) ELSE row.state
<1>3. state \in States
  BY <1>2 DEF Rows
<1>4. Answered(row, v, answer) = [row EXCEPT !.record = record, !.state = state]
  BY DEF Answered, record
<1>. HIDE DEF state
<1>. QED
  BY <1>1, <1>3, <1>4 DEF Rows

-----------------------------------------------------------------------------
(* Tables and rounds *)

\* All tables, as a set for the provers.
Tables == UNION {[S -> Rows] : S \in SUBSET Requests}

\* The model's test for tables and the set say the same.
LEMMA TablesAreTables == \A t : IsTable(t) <=> t \in Tables
BY DEF IsTable, Tables

\* Rows made of the rows of a table are a table.
LEMMA MappedTyped ==
  ASSUME NEW copies \in Tables,
         NEW rows, rows = [r \in DOMAIN copies |-> rows[r]],
         \A r \in DOMAIN copies : rows[r] \in Rows
  PROVE  rows \in Tables /\ DOMAIN rows = DOMAIN copies
<1>1. PICK S \in SUBSET Requests : copies \in [S -> Rows]
  BY DEF Tables
<1>2. rows \in [S -> Rows]
  BY <1>1
<1>. QED BY <1>1, <1>2 DEF Tables

\* A table's rows are rows of requests.
LEMMA TableRows ==
  ASSUME NEW copies \in Tables
  PROVE  /\ DOMAIN copies \subseteq Requests
         /\ \A r \in DOMAIN copies : copies[r] \in Rows
         /\ copies = [r \in DOMAIN copies |-> copies[r]]
BY DEF Tables

\* No rows at all are a table, too.
LEMMA EmptyTable == <<>> \in Tables /\ DOMAIN <<>> = {}
<1>1. <<>> \in [{} -> Rows] /\ DOMAIN <<>> = {}
  OBVIOUS
<1>. QED BY <1>1 DEF Tables

\* Saving copies keeps the table a table of the same requests.
LEMMA SavedTyped ==
  ASSUME table \in Tables, NEW copies \in Tables
  PROVE  Saved(copies) \in Tables /\ DOMAIN Saved(copies) = DOMAIN table
<1>1. \A r \in DOMAIN table : Saved(copies)[r] \in Rows
  BY TableRows DEF Saved
<1>2. Saved(copies) = [r \in DOMAIN table |-> Saved(copies)[r]]
  BY DEF Saved
<1>. QED BY <1>1, <1>2, MappedTyped

\* So does storing an answer.
LEMMA StoredAnswerTyped ==
  ASSUME table \in Tables, NEW r, NEW v \in Validators, NEW answer \in Answers
  PROVE  StoredAnswer(r, v, answer) \in Tables /\ DOMAIN StoredAnswer(r, v, answer) = DOMAIN table
<1>. DEFINE new == [table EXCEPT ![r] = Answered(@, v, answer)]
<1>1. table = [q \in DOMAIN table |-> table[q]] /\ \A q \in DOMAIN table : table[q] \in Rows
  BY TableRows
<1>2. new = [q \in DOMAIN table |-> new[q]]
  BY <1>1
<1>3. \A q \in DOMAIN table : new[q] \in Rows
  BY <1>1, AnsweredTyped
<1>4. new \in Tables /\ DOMAIN new = DOMAIN table
  BY <1>2, <1>3, MappedTyped
<1>. QED BY <1>4 DEF StoredAnswer

\* Every round works on a table of rows that exist.
RoundsOK ==
  /\ DOMAIN tasks = Instances \X Kinds
  /\ \A ik \in Instances \X Kinds :
       /\ tasks[ik].phase \in Phases
       /\ tasks[ik].copies \in Tables
       /\ DOMAIN tasks[ik].copies \subseteq DOMAIN table

\* A task's next round is a round, and the other rounds stay.
LEMMA ToTyped ==
  ASSUME RoundsOK, NEW i \in Instances, NEW kind \in Kinds,
         NEW phase \in Phases, NEW copies \in Tables, To(i, kind, phase, copies),
         DOMAIN copies \subseteq DOMAIN table, DOMAIN table \subseteq DOMAIN table'
  PROVE  RoundsOK'
<1>1. DOMAIN tasks' = Instances \X Kinds
  BY DEF RoundsOK, To
<1>2. \A ik \in Instances \X Kinds :
        tasks'[ik] = IF ik = <<i, kind>> THEN [phase |-> phase, copies |-> copies] ELSE tasks[ik]
  BY DEF RoundsOK, To
<1>. QED BY <1>1, <1>2 DEF RoundsOK

\* PipelineTypeOK, in terms of the set of tables.
Typed ==
  /\ table \in Tables
  /\ ledger \in [Requests -> Seq(Holders)]
  /\ said \in [Requests -> SUBSET (Validators \X Answers)]
  /\ RoundsOK
  /\ lanes \in [Instances -> [Requests \X Validators -> {"idle", "asked", "done", "failed"}]]
  /\ due \in [Instances -> SUBSET Kinds]
  /\ failures \in 0..MaxFailures

\* Both forms of the type invariant agree, in a state and in the next one.
LEMMA TypesAgree == (PipelineTypeOK <=> Typed) /\ (PipelineTypeOK' <=> Typed')
<1>1. PipelineTypeOK <=> Typed
  BY TablesAreTables DEF PipelineTypeOK, Typed, RoundsOK
<1>2. /\ IsTable(table') <=> table' \in Tables
      /\ \A ik : IsTable(tasks'[ik].copies) <=> tasks'[ik].copies \in Tables
  BY TablesAreTables
<1>3. PipelineTypeOK' <=> Typed'
  BY <1>2 DEF PipelineTypeOK, Typed, RoundsOK, IsTable
<1>. QED BY <1>1, <1>3

\* The bound on failures holds.
LEMMA FaultTyped ==
  ASSUME failures \in 0..MaxFailures, Fault
  PROVE  failures' \in 0..MaxFailures
BY TransferAssumption DEF Fault

\* What a task works on is a table of rows that exist.
LEMMA CopiesTyped ==
  ASSUME Typed, NEW i \in Instances, NEW kind \in Kinds
  PROVE  CopiesOf(i, kind) \in Tables /\ DOMAIN CopiesOf(i, kind) \subseteq DOMAIN table
BY DEF Typed, RoundsOK, CopiesOf

-----------------------------------------------------------------------------
(* Type correctness *)

\* One step of a task: its round, the table, the lanes and the triggers.
LEMMA RoundKeepsTypes ==
  ASSUME Typed, NEW i \in Instances, NEW kind \in Kinds, Round(i, kind)
  PROVE  Typed'
<1>. DEFINE copies == CopiesOf(i, kind)
<1>1. copies \in Tables /\ DOMAIN copies \subseteq DOMAIN table
  BY CopiesTyped
<1>2. Saved(copies) \in Tables /\ DOMAIN Saved(copies) = DOMAIN table
  BY <1>1, SavedTyped DEF Typed
<1>3. <<>> \in Tables /\ DOMAIN <<>> \subseteq DOMAIN table
  BY EmptyTable
<1>4. RoundsOK
  BY DEF Typed, RoundsOK
<1>5. /\ "waiting" \in Phases /\ "starting" \in Phases /\ "acting" \in Phases
      /\ "failing" \in Phases /\ "dead" \in Phases
  BY DEF Phases
<1>. HIDE DEF copies
<1>6. CASE Find(i, kind)
  <2>1. PICK b \in Batches(kind) :
          To(i, kind, "starting", [r \in b |-> Started(kind, table[r])])
    BY <1>6 DEF Find
  <2>. DEFINE started == [r \in b |-> Started(kind, table[r])]
  <2>2. b \subseteq DOMAIN table
    BY DEF Batches, Ready
  <2>3. started \in [b -> Rows] /\ b \in SUBSET Requests
    BY <2>2, StartedTyped, TableRows DEF Typed
  <2>4. started \in Tables /\ DOMAIN started = b
    BY <2>3 DEF Tables
  <2>5. UNCHANGED table
    BY <1>6 DEF Find
  <2>. HIDE DEF started
  <2>6. RoundsOK'
    BY <1>4, <1>5, <2>1, <2>2, <2>4, <2>5, ToTyped DEF started
  <2>. QED
    BY <1>6, <2>6 DEF Find, Typed, RoundsOK
<1>7. CASE FindNothing(i, kind)
  <2>1. To(i, kind, "waiting", <<>>) /\ UNCHANGED table
    BY <1>7 DEF FindNothing, Finished
  <2>2. RoundsOK'
    BY <1>3, <1>4, <1>5, <2>1, ToTyped
  <2>3. due' \in [Instances -> SUBSET Kinds]
    BY <1>7 DEF FindNothing, Finished, Typed, Kinds
  <2>. QED
    BY <1>7, <2>2, <2>3 DEF FindNothing, Typed, RoundsOK
<1>8. CASE SaveStarted(i, kind)
  <2>1. table' \in Tables /\ DOMAIN table' = DOMAIN table
    BY <1>2, <1>8 DEF SaveStarted, copies
  <2>2. To(i, kind, "waiting", <<>>) \/ To(i, kind, "acting", copies)
    BY <1>8 DEF SaveStarted, Finished, copies
  <2>3. RoundsOK'
    BY <1>1, <1>3, <1>4, <1>5, <2>1, <2>2, ToTyped
  <2>4. due' \in [Instances -> SUBSET Kinds]
    BY <1>8 DEF SaveStarted, Finished, Typed, Kinds
  <2>5. lanes' \in [Instances -> [Requests \X Validators -> {"idle", "asked", "done", "failed"}]]
    BY <1>8 DEF SaveStarted, Typed
  <2>. QED
    BY <1>8, <2>1, <2>3, <2>4, <2>5 DEF SaveStarted, Typed, RoundsOK
<1>9. CASE SaveFinished(i, kind)
  <2>1. /\ table' \in Tables /\ DOMAIN table' = DOMAIN table
        /\ To(i, kind, "waiting", <<>>)
    BY <1>2, <1>9 DEF SaveFinished, Finished, copies
  <2>2. RoundsOK'
    BY <1>3, <1>4, <1>5, <2>1, ToTyped
  <2>3. due' \in [Instances -> SUBSET Kinds]
    BY <1>9 DEF SaveFinished, Finished, Typed, Kinds
  <2>. QED
    BY <1>9, <2>1, <2>2, <2>3 DEF SaveFinished, Typed, RoundsOK
<1>10. CASE RepositoryFails(i, kind)
  <2>1. table' \in Tables /\ DOMAIN table' = DOMAIN table
    BY <1>2, <1>10 DEF RepositoryFails, copies, Typed
  <2>. DEFINE errored == [r \in DOMAIN copies |-> Errored(kind, copies[r])]
  <2>2. errored \in Tables /\ DOMAIN errored = DOMAIN copies
    <3>1. \A r \in DOMAIN copies : errored[r] \in Rows
      BY <1>1, ErroredTyped, TableRows
    <3>. QED BY <1>1, <3>1, MappedTyped
  <2>3. To(i, kind, "failing", errored) \/ To(i, kind, "dead", <<>>)
    BY <1>10 DEF RepositoryFails, copies
  <2>. HIDE DEF errored
  <2>4. RoundsOK'
    BY <1>1, <1>3, <1>4, <1>5, <2>1, <2>2, <2>3, ToTyped
  <2>5. due' \in [Instances -> SUBSET Kinds]
    BY <1>10 DEF RepositoryFails, Typed
  <2>6. failures' \in 0..MaxFailures
    BY <1>10, FaultTyped DEF RepositoryFails, Typed
  <2>. QED
    BY <1>10, <2>1, <2>4, <2>5, <2>6 DEF RepositoryFails, Typed, RoundsOK
<1>. QED BY <1>6, <1>7, <1>8, <1>9, <1>10 DEF Round, Proceed

\* The service is called with copies, and every copy becomes another row.
LEMMA BatchKeepsTypes ==
  ASSUME Typed, NEW i \in Instances,
         \/ BatchIssue(i) \/ BatchIssueFails(i)
         \/ BatchTransfer(i) \/ BatchTransferFails(i)
  PROVE  Typed'
<1>. DEFINE issued == CopiesOf(i, "issue")
            moved  == CopiesOf(i, "transfer")
<1>1. /\ issued \in Tables /\ DOMAIN issued \subseteq DOMAIN table
      /\ moved \in Tables /\ DOMAIN moved \subseteq DOMAIN table
  BY CopiesTyped DEF Kinds
<1>2. /\ \A r \in DOMAIN issued : issued[r] \in Rows
      /\ \A r \in DOMAIN moved : moved[r] \in Rows
  BY <1>1, TableRows
<1>. HIDE DEF issued, moved
<1>3. Issued(issued) \in [Requests -> Seq(Holders)]
  <2>1. \A r \in Requests : Append(ledger[r], "seller") \in Seq(Holders)
    BY DEF Holders, Typed
  <2>. QED BY <2>1 DEF Issued, Typed
<1>4. Accepted(moved) => Moved(moved) \in [Requests -> Seq(Holders)]
  <2>1. SUFFICES ASSUME Accepted(moved), NEW r \in Requests, r \in DOMAIN moved
                 PROVE  [ledger[r] EXCEPT ![moved[r].cert] = "buyer"] \in Seq(Holders)
    BY DEF Moved, Typed
  <2>2. ledger[r] \in Seq(Holders) /\ moved[r].cert \in 1..Len(ledger[r])
    BY <2>1 DEF Accepted, Typed
  <2>. QED BY <2>2, ExceptSeq DEF Holders
<1>5. RoundsOK /\ "finishing" \in Phases /\ "failing" \in Phases
  BY DEF Typed, RoundsOK, Phases
<1>6. "issue" \in Kinds /\ "transfer" \in Kinds
  BY DEF Kinds
<1>7. CASE BatchIssue(i)
  <2>. DEFINE rows == [r \in DOMAIN issued |-> Persisted(issued[r], Len(ledger[r]) + 1)]
  <2>1. \A r \in DOMAIN issued : rows[r] \in Rows
    <3>1. SUFFICES ASSUME NEW r \in DOMAIN issued PROVE rows[r] \in Rows
      OBVIOUS
    <3>2. Len(ledger[r]) + 1 \in Nat
      BY <1>1, TableRows DEF Typed
    <3>. QED BY <1>2, <3>2, PersistedTyped
  <2>2. rows \in Tables /\ DOMAIN rows = DOMAIN issued
    BY <1>1, <2>1, MappedTyped
  <2>3. /\ To(i, "issue", "finishing", rows)
        /\ ledger' = Issued(issued)
        /\ UNCHANGED <<table, said, lanes, due, failures>>
    BY <1>7 DEF BatchIssue, issued
  <2>. HIDE DEF rows
  <2>4. RoundsOK'
    BY <1>1, <1>5, <1>6, <2>2, <2>3, ToTyped
  <2>. QED
    BY <1>3, <2>3, <2>4 DEF Typed, RoundsOK
<1>8. CASE BatchIssueFails(i)
  <2>. DEFINE rows == [r \in DOMAIN issued |-> Errored("issue", issued[r])]
  <2>1. \A r \in DOMAIN issued : rows[r] \in Rows
    BY <1>2, <1>6, ErroredTyped
  <2>2. rows \in Tables /\ DOMAIN rows = DOMAIN issued
    BY <1>1, <2>1, MappedTyped
  <2>3. /\ To(i, "issue", "failing", rows)
        /\ ledger' \in {ledger, Issued(issued)}
        /\ Fault
        /\ UNCHANGED <<table, said, lanes, due>>
    BY <1>8 DEF BatchIssueFails, issued
  <2>. HIDE DEF rows
  <2>4. RoundsOK'
    BY <1>1, <1>5, <1>6, <2>2, <2>3, ToTyped
  <2>5. failures' \in 0..MaxFailures
    BY <2>3, FaultTyped DEF Typed
  <2>. QED
    BY <1>3, <2>3, <2>4, <2>5 DEF Typed, RoundsOK
<1>9. CASE BatchTransfer(i)
  <2>. DEFINE rows == [r \in DOMAIN moved |-> [moved[r] EXCEPT !.state = "Transferred"]]
  <2>1. \A r \in DOMAIN moved : rows[r] \in Rows
    BY <1>2 DEF Rows, States
  <2>2. rows \in Tables /\ DOMAIN rows = DOMAIN moved
    BY <1>1, <2>1, MappedTyped
  <2>3. /\ To(i, "transfer", "finishing", rows)
        /\ Accepted(moved)
        /\ ledger' = Moved(moved)
        /\ UNCHANGED <<table, said, lanes, due, failures>>
    BY <1>9 DEF BatchTransfer, moved
  <2>. HIDE DEF rows
  <2>4. RoundsOK'
    BY <1>1, <1>5, <1>6, <2>2, <2>3, ToTyped
  <2>. QED
    BY <1>4, <2>3, <2>4 DEF Typed, RoundsOK
<1>10. CASE BatchTransferFails(i)
  <2>. DEFINE rows == [r \in DOMAIN moved |-> Errored("transfer", moved[r])]
  <2>1. \A r \in DOMAIN moved : rows[r] \in Rows
    BY <1>2, <1>6, ErroredTyped
  <2>2. rows \in Tables /\ DOMAIN rows = DOMAIN moved
    BY <1>1, <2>1, MappedTyped
  <2>3. /\ To(i, "transfer", "finishing", rows)
        /\ \/ UNCHANGED <<ledger, failures>>
           \/ Accepted(moved) /\ Fault /\ ledger' \in {ledger, Moved(moved)}
        /\ UNCHANGED <<table, said, lanes, due>>
    BY <1>10 DEF BatchTransferFails, moved
  <2>. HIDE DEF rows
  <2>4. ledger' \in [Requests -> Seq(Holders)] /\ failures' \in 0..MaxFailures
    BY <1>4, <2>3, FaultTyped DEF Typed
  <2>5. RoundsOK'
    BY <1>1, <1>5, <1>6, <2>2, <2>3, ToTyped
  <2>. QED
    BY <2>3, <2>4, <2>5 DEF Typed, RoundsOK
<1>. QED BY <1>7, <1>8, <1>9, <1>10

\* A stored answer, and the history of it, are typed.
LEMMA AnswerStoredTyped ==
  ASSUME Typed, NEW r \in Requests, NEW v \in Validators, NEW answer \in Answers
  PROVE  /\ StoredAnswer(r, v, answer) \in Tables
         /\ DOMAIN StoredAnswer(r, v, answer) = DOMAIN table
         /\ SaidNow(r, v, answer) \in [Requests -> SUBSET (Validators \X Answers)]
<1>1. table \in Tables
  BY DEF Typed
<1>2. SaidNow(r, v, answer) \in [Requests -> SUBSET (Validators \X Answers)]
  BY DEF SaidNow, Typed
<1>. QED BY <1>1, <1>2, StoredAnswerTyped

\* Rounds stay typed when they stay, on a table with at least the same rows.
LEMMA RoundsStay ==
  ASSUME RoundsOK, UNCHANGED tasks, DOMAIN table \subseteq DOMAIN table'
  PROVE  RoundsOK'
BY DEF RoundsOK

\* The validators' calls, and what happens when they fail.
LEMMA ValidatingKeepsTypes ==
  ASSUME Typed, NEW i \in Instances, Validating(i)
  PROVE  Typed'
<1>. DEFINE copies == CopiesOf(i, "validate")
<1>1. copies \in Tables /\ DOMAIN copies \subseteq DOMAIN table
  BY CopiesTyped DEF Kinds
<1>. HIDE DEF copies
<1>2. RoundsOK /\ table \in Tables
  BY DEF Typed, RoundsOK
<1>3. ASSUME NEW r \in Requests, NEW v \in Validators, NEW answer \in Answers,
             Answer(i, r, v, answer)
      PROVE  Typed'
  <2>1. /\ table' \in Tables /\ DOMAIN table' = DOMAIN table
        /\ said' \in [Requests -> SUBSET (Validators \X Answers)]
    BY <1>3, AnswerStoredTyped DEF Answer
  <2>2. RoundsOK'
    BY <1>2, <1>3, <2>1, RoundsStay DEF Answer
  <2>3. lanes' \in [Instances -> [Requests \X Validators -> {"idle", "asked", "done", "failed"}]]
    BY <1>3 DEF Answer, Lane, Typed
  <2>4. due' \in [Instances -> SUBSET Kinds]
    <3>1. due \in [Instances -> SUBSET Kinds] /\ "transfer" \in Kinds
      BY DEF Typed, Kinds
    <3>2. due' = due \/ due' = [due EXCEPT ![i] = @ \cup {"transfer"}]
      BY <1>3 DEF Answer, Trigger
    <3>. QED BY <3>1, <3>2
  <2>. QED BY <1>3, <2>1, <2>2, <2>3, <2>4 DEF Answer, Typed, RoundsOK
<1>4. ASSUME NEW r \in Requests, NEW v \in Validators, NEW answer \in Answers,
             AnswerFails(i, r, v, answer)
      PROVE  Typed'
  <2>1. /\ table' \in Tables /\ DOMAIN table' = DOMAIN table
        /\ said' \in [Requests -> SUBSET (Validators \X Answers)]
    <3>1. said \in [Requests -> SUBSET (Validators \X Answers)]
      BY DEF Typed
    <3>2. \/ UNCHANGED <<table, said>>
          \/ table' = StoredAnswer(r, v, answer) /\ said' = SaidNow(r, v, answer)
      BY <1>4 DEF AnswerFails
    <3>3. CASE UNCHANGED <<table, said>>
      BY <1>2, <3>1, <3>3
    <3>4. CASE table' = StoredAnswer(r, v, answer) /\ said' = SaidNow(r, v, answer)
      BY <3>4, AnswerStoredTyped
    <3>. QED BY <3>2, <3>3, <3>4
  <2>2. RoundsOK'
    BY <1>2, <1>4, <2>1, RoundsStay DEF AnswerFails
  <2>3. lanes' \in [Instances -> [Requests \X Validators -> {"idle", "asked", "done", "failed"}]]
    BY <1>4 DEF AnswerFails, Lane, Typed
  <2>4. failures' \in 0..MaxFailures
    BY <1>4, FaultTyped DEF AnswerFails, Typed
  <2>. QED BY <1>4, <2>1, <2>2, <2>3, <2>4 DEF AnswerFails, Typed, RoundsOK
<1>5. ASSUME NEW r \in Requests, Catch(i, r) \/ CatchFails(i, r)
      PROVE  Typed'
  <2>1. r \in DOMAIN copies
    BY <1>5 DEF Catch, CatchFails, copies
  <2>2. CaughtCopy(i, r) \in Tables
    <3>1. copies[r] \in Rows
      BY <1>1, <2>1, TableRows
    <3>2. Errored("validate", copies[r]) \in Rows
      BY <3>1, ErroredTyped DEF Kinds
    <3>3. CaughtCopy(i, r) \in [{r} -> Rows]
      BY <3>2 DEF CaughtCopy, copies
    <3>. QED BY <3>3 DEF Tables
  <2>3. table' \in Tables /\ DOMAIN table' = DOMAIN table
    BY <1>2, <1>5, <2>2, SavedTyped DEF Catch, CatchFails
  <2>. DEFINE rest == [q \in DOMAIN copies \ {r} |-> copies[q]]
  <2>4. rest \in Tables /\ DOMAIN rest \subseteq DOMAIN table
    <3>1. rest \in [DOMAIN copies \ {r} -> Rows] /\ DOMAIN copies \subseteq Requests
      BY <1>1, TableRows
    <3>2. DOMAIN copies \ {r} \in SUBSET Requests
      BY <3>1
    <3>. QED BY <1>1, <3>1, <3>2 DEF Tables
  <2>5. \E phase \in Phases : To(i, "validate", phase, rest)
    BY <1>5 DEF Catch, CatchFails, Forget, Phases, copies
  <2>. HIDE DEF rest
  <2>6. RoundsOK'
    BY <1>2, <2>3, <2>4, <2>5, ToTyped DEF Kinds
  <2>7. failures' \in 0..MaxFailures
    BY <1>5, FaultTyped DEF Catch, CatchFails, Typed
  <2>. QED BY <1>5, <2>3, <2>6, <2>7 DEF Catch, CatchFails, Typed, RoundsOK
<1>6. CASE EndValidation(i)
  <2>1. To(i, "validate", "waiting", <<>>) /\ UNCHANGED table
    BY <1>6 DEF EndValidation, Finished
  <2>2. <<>> \in Tables /\ DOMAIN <<>> \subseteq DOMAIN table
    BY EmptyTable
  <2>3. RoundsOK'
    BY <1>2, <2>1, <2>2, ToTyped DEF Kinds, Phases
  <2>4. due' \in [Instances -> SUBSET Kinds]
    BY <1>6 DEF EndValidation, Finished, Typed, Kinds
  <2>. QED BY <1>6, <2>3, <2>4 DEF EndValidation, Typed, RoundsOK
<1>. QED BY <1>3, <1>4, <1>5, <1>6 DEF Validating

\* What arrives from outside: readings, answers, and the seller's own use.
LEMMA OutsideKeepsTypes ==
  ASSUME Typed, NEW i \in Instances, Outside(i)
  PROVE  Typed'
<1>1. RoundsOK /\ table \in Tables
  BY DEF Typed, RoundsOK
<1>2. ASSUME NEW r \in Requests, NEW empty \in BOOLEAN, NEW same \in BOOLEAN,
             Reading(i, r, empty, same)
      PROVE  Typed'
  <2>. DEFINE S == DOMAIN table \cup {r}
  <2>1. table' = [q \in S |-> IF q = r THEN NewRow(empty, same) ELSE table[q]]
    BY <1>2 DEF Reading
  <2>2. S \in SUBSET Requests /\ \A q \in DOMAIN table : table[q] \in Rows
    BY <1>1, TableRows
  <2>3. table' \in [S -> Rows] /\ DOMAIN table \subseteq DOMAIN table'
    BY <2>1, <2>2, NewRowTyped
  <2>4. table' \in Tables
    BY <2>2, <2>3 DEF Tables
  <2>5. RoundsOK'
    BY <1>1, <1>2, <2>3, RoundsStay DEF Reading
  <2>6. due' \in [Instances -> SUBSET Kinds]
    BY <1>2 DEF Reading, Typed, Kinds
  <2>. QED BY <1>2, <2>4, <2>5, <2>6 DEF Reading, Typed, RoundsOK
<1>3. ASSUME NEW r \in Requests, NEW v \in Validators, NEW answer \in Answers,
             Update(i, r, v, answer)
      PROVE  Typed'
  <2>1. /\ table' \in Tables /\ DOMAIN table' = DOMAIN table
        /\ said' \in [Requests -> SUBSET (Validators \X Answers)]
    BY <1>3, AnswerStoredTyped DEF Update
  <2>2. RoundsOK'
    BY <1>1, <1>3, <2>1, RoundsStay DEF Update
  <2>3. due' \in [Instances -> SUBSET Kinds]
    BY <1>3 DEF Update, Trigger, Typed, Kinds
  <2>. QED BY <1>3, <2>1, <2>2, <2>3 DEF Update, Typed, RoundsOK
<1>. QED BY <1>2, <1>3 DEF Outside

\* The seller's own use of a certificate changes the ledger only.
LEMMA SpendKeepsTypes ==
  ASSUME Typed, NEW r \in Requests, Spend(r)
  PROVE  Typed'
<1>1. PICK c \in DOMAIN ledger[r] : ledger' = [ledger EXCEPT ![r] = [@ EXCEPT ![c] = "spent"]]
  BY DEF Spend
<1>2. ledger[r] \in Seq(Holders) /\ c \in 1..Len(ledger[r])
  BY <1>1 DEF Typed
<1>3. [ledger[r] EXCEPT ![c] = "spent"] \in Seq(Holders)
  BY <1>2, ExceptSeq DEF Holders
<1>4. ledger' \in [Requests -> Seq(Holders)]
  BY <1>1, <1>3 DEF Typed
<1>5. RoundsOK'
  BY RoundsStay DEF Spend, Typed
<1>. QED BY <1>4, <1>5 DEF Spend, Typed

\* A restarted instance has no rounds and no calls.
LEMMA CrashKeepsTypes ==
  ASSUME Typed, NEW i \in Instances, Crash(i)
  PROVE  Typed'
<1>1. NoRound \in [phase : Phases, copies : Tables] /\ DOMAIN NoRound.copies = {}
  BY EmptyTable DEF NoRound, Phases
<1>2. RoundsOK'
  <2>1. tasks' = [ik \in Instances \X Kinds |-> IF ik[1] = i THEN NoRound ELSE tasks[ik]]
    BY DEF Crash, Typed, RoundsOK
  <2>2. RoundsOK /\ UNCHANGED table
    BY DEF Crash, Typed, RoundsOK
  <2>3. \A ik \in Instances \X Kinds : tasks'[ik] \in {NoRound, tasks[ik]}
    BY <2>1
  <2>. QED BY <1>1, <2>1, <2>2, <2>3 DEF RoundsOK
<1>3. lanes' \in [Instances -> [Requests \X Validators -> {"idle", "asked", "done", "failed"}]]
  BY DEF Crash, NoLanes, Typed
<1>4. due' \in [Instances -> SUBSET Kinds] /\ failures' \in 0..MaxFailures
  BY FaultTyped DEF Crash, Typed
<1>. QED BY <1>2, <1>3, <1>4 DEF Crash, Typed, RoundsOK

\* The first state is typed.
LEMMA InitTyped == PipelineInit => Typed
<1>. SUFFICES ASSUME PipelineInit PROVE Typed
  OBVIOUS
<1>1. table \in Tables /\ DOMAIN table = {}
  BY EmptyTable DEF PipelineInit
<1>2. NoRound \in [phase : Phases, copies : Tables] /\ DOMAIN NoRound.copies = {}
  BY EmptyTable DEF NoRound, Phases
<1>3. RoundsOK
  BY <1>1, <1>2 DEF PipelineInit, RoundsOK
<1>4. <<>> \in Seq(Holders)
  OBVIOUS
<1>5. ledger \in [Requests -> Seq(Holders)]
  BY <1>4 DEF PipelineInit
<1>6. lanes \in [Instances -> [Requests \X Validators -> {"idle", "asked", "done", "failed"}]]
  BY DEF PipelineInit, NoLanes
<1>7. failures \in 0..MaxFailures
  BY TransferAssumption DEF PipelineInit
<1>. QED BY <1>1, <1>3, <1>5, <1>6, <1>7 DEF PipelineInit, Typed, RoundsOK

\* Every step of the pipeline keeps the types.
LEMMA StepKeepsTypes ==
  Typed /\ [PipelineNext]_pipelineVars => Typed'
<1>. SUFFICES ASSUME Typed, [PipelineNext]_pipelineVars
              PROVE  Typed'
  OBVIOUS
<1>1. CASE UNCHANGED pipelineVars
  <2>1. RoundsOK'
    BY <1>1, RoundsStay DEF pipelineVars, Typed
  <2>. QED BY <1>1, <2>1 DEF pipelineVars, Typed
<1>2. ASSUME NEW i \in Instances, Serving(i) PROVE Typed'
  BY <1>2, RoundKeepsTypes, BatchKeepsTypes, ValidatingKeepsTypes, CrashKeepsTypes DEF Serving
<1>. QED BY <1>1, <1>2, OutsideKeepsTypes, SpendKeepsTypes DEF PipelineNext

\* Every variable of the transfer pipeline has its type, in every state that
\* any number of instances and failures can reach: a task never works on, nor
\* writes, a request that the table does not have.
THEOREM PipelineTypeCorrectness == PipelineSpec => []PipelineTypeOK
<1>1. PipelineSpec => []Typed
  BY InitTyped, StepKeepsTypes, PTL DEF PipelineSpec
<1>2. Typed => PipelineTypeOK
  BY TypesAgree
<1>. QED BY <1>1, <1>2, PTL

-----------------------------------------------------------------------------
(* Consent: the invariant *)

\* What has been answered justifies the row: each "valid" in it was given,
\* and a request on its way to the buyer has all of them.
Approved == {"TransferAwaiting", "TransferInProgress", "Transferred"}

Backed(answers, row) ==
  /\ \A v \in DOMAIN row.record : row.record[v] = "valid" => <<v, "valid">> \in answers
  /\ row.state \in Approved => \A v \in Validators : <<v, "valid">> \in answers

AllBacked(answers, rows) == \A r \in DOMAIN rows : Backed(answers[r], rows[r])

\* A stale copy may lack answers; it has none that was not given.
CopiesBacked == \A ik \in Instances \X Kinds : AllBacked(said, tasks[ik].copies)

\* The copies that a transfer takes to the service were ready for transfer.
InProgress(rows) == \A r \in DOMAIN rows : rows[r].state = "TransferInProgress"

TransfersStarted ==
  \A i \in Instances :
    tasks[<<i, "transfer">>].phase \in {"starting", "acting"}
      => InProgress(tasks[<<i, "transfer">>].copies)

ConsentInv ==
  /\ AllBacked(said, table)
  /\ CopiesBacked
  /\ TransfersStarted
  /\ ConsentBeforeTransfer

\* Answers are never taken back.
Grows == \A r \in Requests : said[r] \subseteq said'[r]

-----------------------------------------------------------------------------
(* Consent: rows *)

\* A task takes a request that waits for it; a transfer, one that is approved.
LEMMA StartedBacked ==
  ASSUME NEW kind \in Kinds, NEW row \in Rows, NEW answers, Backed(answers, row),
         row.state = Awaiting[kind]
  PROVE  /\ Backed(answers, Started(kind, row))
         /\ kind = "transfer" => Started(kind, row).state = "TransferInProgress"
<1>1. CASE kind = "issue"
  BY <1>1 DEF Started, Backed, Rows, Approved
<1>2. CASE kind = "transfer"
  BY <1>2 DEF Started, Backed, Rows, Approved, Awaiting
<1>3. CASE kind = "validate"
  BY <1>3 DEF Started, Backed, Rows, Approved
<1>. QED BY <1>1, <1>2, <1>3 DEF Kinds

\* A failed request claims no approval.
LEMMA ErroredBacked ==
  ASSUME NEW kind \in Kinds, NEW row \in Rows, NEW answers, Backed(answers, row)
  PROVE  Backed(answers, Errored(kind, row))
BY DEF Errored, Backed, Rows, Approved, Failure, Kinds

\* A request with a certificate is not approved yet.
LEMMA PersistedBacked ==
  ASSUME NEW row \in Rows, NEW cert, NEW answers, Backed(answers, row)
  PROVE  Backed(answers, Persisted(row, cert))
BY DEF Persisted, Backed, Rows, Approved

\* The last "valid" that a record lacked makes it approved; every other
\* answer leaves it as it was, or ends it.
LEMMA AnsweredBacked ==
  ASSUME NEW row \in Rows, NEW v \in DOMAIN row.record, NEW answer \in Answers,
         NEW answers, Backed(answers, row), NEW later, answers \subseteq later,
         answer # "pending" => <<v, answer>> \in later
  PROVE  Backed(later, Answered(row, v, answer))
<1>. DEFINE record == [row.record EXCEPT ![v] = answer]
            given  == {record[w] : w \in DOMAIN record}
            state  == IF row.state = "ValidationInProgress" THEN Outcome(given) ELSE row.state
<1>1. row.record \in [Validators -> Answers]
  BY DEF Rows, Records
<1>2. DOMAIN record = Validators
  BY <1>1
<1>3. \A w \in Validators : record[w] = "valid" => <<w, "valid">> \in later
  <2>1. SUFFICES ASSUME NEW w \in Validators, record[w] = "valid"
                 PROVE  <<w, "valid">> \in later
    OBVIOUS
  <2>2. CASE w = v
    BY <1>1, <2>1, <2>2
  <2>3. CASE w # v
    BY <1>1, <2>1, <2>3 DEF Backed
  <2>. QED BY <2>2, <2>3
<1>. HIDE DEF record
<1>4. state \in Approved => \A w \in Validators : <<w, "valid">> \in later
  <2>1. CASE row.state = "ValidationInProgress" /\ given = {"valid"}
    BY <1>2, <1>3, <2>1
  <2>2. CASE row.state = "ValidationInProgress" /\ given # {"valid"}
    BY <2>2 DEF Outcome, Approved
  <2>3. CASE row.state # "ValidationInProgress"
    BY <2>3 DEF Backed
  <2>. QED BY <2>1, <2>2, <2>3
<1>5. Answered(row, v, answer) = [row EXCEPT !.record = record, !.state = state]
  BY DEF Answered, record
<1>. HIDE DEF state
<1>6. Answered(row, v, answer).record = record /\ Answered(row, v, answer).state = state
  BY <1>5 DEF Rows
<1>. QED BY <1>2, <1>3, <1>4, <1>6 DEF Backed

\* What earlier answers justify, later ones do.
LEMMA LaterBacked ==
  ASSUME NEW row, NEW answers, Backed(answers, row), NEW later, answers \subseteq later
  PROVE  Backed(later, row)
BY DEF Backed

-----------------------------------------------------------------------------
(* Consent: tables and rounds *)

\* The same for whole tables.
LEMMA AllLaterBacked ==
  ASSUME NEW rows \in Tables, AllBacked(said, rows), Grows
  PROVE  AllBacked(said', rows)
BY LaterBacked, TableRows DEF AllBacked, Grows

\* Saving backed copies over a backed table leaves it backed, stale or not.
LEMMA SavedBacked ==
  ASSUME NEW copies, AllBacked(said, copies), AllBacked(said, table)
  PROVE  AllBacked(said, Saved(copies))
BY DEF AllBacked, Saved

\* A task's next round is backed if its copies are, and the others stay so.
LEMMA ToBacked ==
  ASSUME Typed, CopiesBacked, TransfersStarted, Grows,
         NEW i \in Instances, NEW kind \in Kinds, NEW phase, NEW copies,
         To(i, kind, phase, copies), AllBacked(said', copies),
         kind = "transfer" /\ phase \in {"starting", "acting"} => InProgress(copies)
  PROVE  CopiesBacked' /\ TransfersStarted'
<1>1. \A ik \in Instances \X Kinds :
        tasks'[ik] = IF ik = <<i, kind>> THEN [phase |-> phase, copies |-> copies] ELSE tasks[ik]
  BY DEF Typed, RoundsOK, To
<1>2. \A ik \in Instances \X Kinds : AllBacked(said', tasks[ik].copies)
  BY AllLaterBacked DEF Typed, RoundsOK, CopiesBacked
<1>3. \A ik \in Instances \X Kinds : AllBacked(said', tasks'[ik].copies)
  BY <1>1, <1>2
<1>4. ASSUME NEW j \in Instances, tasks'[<<j, "transfer">>].phase \in {"starting", "acting"}
      PROVE  InProgress(tasks'[<<j, "transfer">>].copies)
  <2>1. <<j, "transfer">> \in Instances \X Kinds
    BY DEF Kinds
  <2>2. CASE <<j, "transfer">> = <<i, kind>>
    BY <1>1, <1>4, <2>1, <2>2
  <2>3. CASE <<j, "transfer">> # <<i, kind>>
    <3>1. tasks'[<<j, "transfer">>] = tasks[<<j, "transfer">>]
      BY <1>1, <2>1, <2>3
    <3>. QED BY <1>4, <3>1 DEF TransfersStarted
  <2>. QED BY <2>2, <2>3
<1>. QED BY <1>3, <1>4 DEF CopiesBacked, TransfersStarted

\* Rounds that do not change stay backed.
LEMMA RoundsStayBacked ==
  ASSUME Typed, CopiesBacked, TransfersStarted, Grows, UNCHANGED tasks
  PROVE  CopiesBacked' /\ TransfersStarted'
<1>1. \A ik \in Instances \X Kinds : AllBacked(said', tasks[ik].copies)
  BY AllLaterBacked DEF Typed, RoundsOK, CopiesBacked
<1>. QED BY <1>1 DEF CopiesBacked, TransfersStarted

\* No step that leaves the certificates alone can break consent.
LEMMA ConsentStays ==
  ASSUME ConsentBeforeTransfer, Grows, UNCHANGED ledger
  PROVE  ConsentBeforeTransfer'
BY DEF ConsentBeforeTransfer, Grows, HasMoved

\* There is nothing to justify without rows.
LEMMA EmptyBacked == \A answers : AllBacked(answers, <<>>)
BY EmptyTable DEF AllBacked

\* The copies of each round are backed.
LEMMA CopiesAreBacked ==
  ASSUME CopiesBacked, NEW i \in Instances, NEW kind \in Kinds
  PROVE  AllBacked(said, CopiesOf(i, kind))
BY DEF CopiesBacked, CopiesOf

-----------------------------------------------------------------------------
(* Consent: the steps *)

\* Tasks that find and save.
LEMMA RoundKeepsConsent ==
  ASSUME Typed, ConsentInv, NEW i \in Instances, NEW kind \in Kinds, Round(i, kind)
  PROVE  ConsentInv'
<1>. DEFINE copies == CopiesOf(i, kind)
<1>1. /\ copies \in Tables /\ DOMAIN copies \subseteq DOMAIN table /\ table \in Tables
      /\ \A r \in DOMAIN copies : copies[r] \in Rows
      /\ \A r \in DOMAIN table : table[r] \in Rows
  BY CopiesTyped, TableRows DEF Typed
<1>2. AllBacked(said, copies) /\ AllBacked(said, Saved(copies))
  BY CopiesAreBacked, SavedBacked DEF ConsentInv
<1>3. UNCHANGED <<ledger, said>> /\ Grows
  BY DEF Round, Proceed, Find, FindNothing, SaveStarted, SaveFinished, RepositoryFails, Grows
<1>4. ConsentBeforeTransfer'
  BY <1>3, ConsentStays DEF ConsentInv
<1>5. AllBacked(said', <<>>) /\ AllBacked(said', copies)
  BY <1>2, <1>3, EmptyBacked
<1>6. kind = "transfer" /\ tasks[<<i, kind>>].phase = "starting" => InProgress(copies)
  BY DEF ConsentInv, TransfersStarted, CopiesOf
<1>. HIDE DEF copies
<1>7. CASE Find(i, kind)
  <2>1. PICK b \in Batches(kind) :
          To(i, kind, "starting", [r \in b |-> Started(kind, table[r])])
    BY <1>7 DEF Find
  <2>. DEFINE started == [r \in b |-> Started(kind, table[r])]
  <2>2. \A r \in b : r \in DOMAIN table /\ table[r].state = Awaiting[kind]
    BY DEF Batches, Ready
  <2>3. \A r \in b : /\ Backed(said[r], started[r])
                     /\ kind = "transfer" => started[r].state = "TransferInProgress"
    BY <1>1, <2>2, StartedBacked DEF ConsentInv, AllBacked
  <2>4. AllBacked(said', started) /\ (kind = "transfer" => InProgress(started))
    BY <1>3, <2>3 DEF AllBacked, InProgress
  <2>. HIDE DEF started
  <2>5. CopiesBacked' /\ TransfersStarted'
    BY <1>3, <2>1, <2>4, ToBacked DEF ConsentInv, started
  <2>. QED BY <1>3, <1>4, <1>7, <2>5 DEF Find, ConsentInv
<1>8. CASE FindNothing(i, kind)
  <2>1. To(i, kind, "waiting", <<>>) /\ UNCHANGED table
    BY <1>8 DEF FindNothing, Finished
  <2>2. CopiesBacked' /\ TransfersStarted'
    BY <1>3, <1>5, <2>1, ToBacked DEF ConsentInv
  <2>. QED BY <1>3, <1>4, <2>1, <2>2 DEF ConsentInv
<1>9. CASE SaveStarted(i, kind)
  <2>1. /\ table' = Saved(copies)
        /\ To(i, kind, "waiting", <<>>) \/ To(i, kind, "acting", copies)
        /\ tasks[<<i, kind>>].phase = "starting"
    BY <1>9 DEF SaveStarted, Finished, At, copies
  <2>2. CopiesBacked' /\ TransfersStarted'
    BY <1>3, <1>5, <1>6, <2>1, ToBacked DEF ConsentInv
  <2>. QED BY <1>2, <1>3, <1>4, <2>1, <2>2 DEF ConsentInv
<1>10. CASE SaveFinished(i, kind)
  <2>1. table' = Saved(copies) /\ To(i, kind, "waiting", <<>>)
    BY <1>10 DEF SaveFinished, Finished, copies
  <2>2. CopiesBacked' /\ TransfersStarted'
    BY <1>3, <1>5, <2>1, ToBacked DEF ConsentInv
  <2>. QED BY <1>2, <1>3, <1>4, <2>1, <2>2 DEF ConsentInv
<1>11. CASE RepositoryFails(i, kind)
  <2>. DEFINE errored == [r \in DOMAIN copies |-> Errored(kind, copies[r])]
  <2>1. /\ table' \in {table, Saved(copies)}
        /\ To(i, kind, "failing", errored) \/ To(i, kind, "dead", <<>>)
    BY <1>11 DEF RepositoryFails, copies
  <2>2. \A r \in DOMAIN copies : Backed(said[r], errored[r])
    BY <1>1, <1>2, ErroredBacked DEF AllBacked
  <2>3. AllBacked(said', errored)
    BY <1>3, <2>2 DEF AllBacked
  <2>. HIDE DEF errored
  <2>4. CopiesBacked' /\ TransfersStarted'
    BY <1>3, <1>5, <2>1, <2>3, ToBacked DEF ConsentInv
  <2>. QED BY <1>2, <1>3, <1>4, <2>1, <2>4 DEF ConsentInv
<1>. QED BY <1>7, <1>8, <1>9, <1>10, <1>11 DEF Round, Proceed

\* A certificate is issued to the seller, and moves only with a request whose
\* copy was ready for transfer.
LEMMA BatchKeepsConsent ==
  ASSUME Typed, ConsentInv, NEW i \in Instances,
         \/ BatchIssue(i) \/ BatchIssueFails(i)
         \/ BatchTransfer(i) \/ BatchTransferFails(i)
  PROVE  ConsentInv'
<1>. DEFINE issued == CopiesOf(i, "issue")
            moved  == CopiesOf(i, "transfer")
<1>1. /\ \A r \in DOMAIN issued : issued[r] \in Rows
      /\ \A r \in DOMAIN moved : moved[r] \in Rows
      /\ DOMAIN moved \subseteq Requests
  BY CopiesTyped, TableRows DEF Kinds
<1>2. AllBacked(said, issued) /\ AllBacked(said, moved)
  BY CopiesAreBacked DEF ConsentInv, Kinds
<1>3. UNCHANGED <<table, said>> /\ Grows
  BY DEF BatchIssue, BatchIssueFails, BatchTransfer, BatchTransferFails, Grows
<1>4. AllBacked(said', table')
  BY <1>3 DEF ConsentInv
<1>5. tasks[<<i, "transfer">>].phase = "acting" => InProgress(moved)
  BY DEF ConsentInv, TransfersStarted, CopiesOf
<1>6. "issue" \in Kinds /\ "transfer" \in Kinds
  BY DEF Kinds
<1>. HIDE DEF issued, moved
<1>7. ledger' \in {ledger, Issued(issued)} => ConsentBeforeTransfer'
  <2>1. CASE ledger' = ledger
    BY <1>3, <2>1, ConsentStays DEF ConsentInv
  <2>2. CASE ledger' = Issued(issued)
    <3>1. SUFFICES ASSUME NEW r \in Requests, HasMoved(r)' PROVE HasMoved(r)
      BY <1>3 DEF ConsentInv, ConsentBeforeTransfer
    <3>2. PICK c \in DOMAIN ledger'[r] : ledger'[r][c] = "buyer"
      BY <3>1 DEF HasMoved
    <3>3. ledger'[r] = ledger[r] \/ ledger'[r] = Append(ledger[r], "seller")
      BY <2>2 DEF Issued
    <3>4. ledger[r] \in Seq(Holders)
      BY DEF Typed
    <3>5. c \in DOMAIN ledger[r] /\ ledger[r][c] = "buyer"
      BY <3>2, <3>3, <3>4
    <3>. QED BY <3>5 DEF HasMoved
  <2>. QED BY <2>1, <2>2
<1>8. InProgress(moved) /\ ledger' \in {ledger, Moved(moved)} => ConsentBeforeTransfer'
  <2>1. CASE ledger' = ledger
    BY <1>3, <2>1, ConsentStays DEF ConsentInv
  <2>2. ASSUME InProgress(moved), ledger' = Moved(moved), NEW r \in Requests, HasMoved(r)'
        PROVE  \A v \in Validators : <<v, "valid">> \in said'[r]
    <3>1. CASE r \in DOMAIN moved
      BY <1>2, <1>3, <2>2, <3>1 DEF AllBacked, Backed, InProgress, Approved
    <3>2. CASE r \notin DOMAIN moved
      <4>1. ledger'[r] = ledger[r]
        BY <2>2, <3>2 DEF Moved
      <4>. QED BY <1>3, <2>2, <4>1 DEF HasMoved, ConsentInv, ConsentBeforeTransfer
    <3>. QED BY <3>1, <3>2
  <2>. QED BY <2>1, <2>2 DEF ConsentBeforeTransfer
<1>9. CASE BatchIssue(i)
  <2>. DEFINE rows == [r \in DOMAIN issued |-> Persisted(issued[r], Len(ledger[r]) + 1)]
  <2>1. To(i, "issue", "finishing", rows) /\ ledger' = Issued(issued)
    BY <1>9 DEF BatchIssue, issued
  <2>2. AllBacked(said', rows)
    BY <1>1, <1>2, <1>3, PersistedBacked DEF AllBacked
  <2>. HIDE DEF rows
  <2>3. CopiesBacked' /\ TransfersStarted'
    BY <1>3, <1>6, <2>1, <2>2, ToBacked DEF ConsentInv
  <2>. QED BY <1>4, <1>7, <2>1, <2>3 DEF ConsentInv
<1>10. CASE BatchIssueFails(i)
  <2>. DEFINE rows == [r \in DOMAIN issued |-> Errored("issue", issued[r])]
  <2>1. To(i, "issue", "failing", rows) /\ ledger' \in {ledger, Issued(issued)}
    BY <1>10 DEF BatchIssueFails, issued
  <2>2. AllBacked(said', rows)
    BY <1>1, <1>2, <1>3, <1>6, ErroredBacked DEF AllBacked
  <2>. HIDE DEF rows
  <2>3. CopiesBacked' /\ TransfersStarted'
    BY <1>3, <1>6, <2>1, <2>2, ToBacked DEF ConsentInv
  <2>. QED BY <1>4, <1>7, <2>1, <2>3 DEF ConsentInv
<1>11. CASE BatchTransfer(i)
  <2>. DEFINE rows == [r \in DOMAIN moved |-> [moved[r] EXCEPT !.state = "Transferred"]]
  <2>1. /\ To(i, "transfer", "finishing", rows)
        /\ ledger' = Moved(moved)
        /\ InProgress(moved)
    BY <1>5, <1>11 DEF BatchTransfer, At, moved
  <2>2. \A r \in DOMAIN moved : Backed(said[r], rows[r])
    BY <1>1, <1>2, <2>1 DEF AllBacked, Backed, InProgress, Approved, Rows
  <2>3. AllBacked(said', rows)
    BY <1>3, <2>2 DEF AllBacked
  <2>. HIDE DEF rows
  <2>4. CopiesBacked' /\ TransfersStarted'
    BY <1>3, <1>6, <2>1, <2>3, ToBacked DEF ConsentInv
  <2>. QED BY <1>4, <1>8, <2>1, <2>4 DEF ConsentInv
<1>12. CASE BatchTransferFails(i)
  <2>. DEFINE rows == [r \in DOMAIN moved |-> Errored("transfer", moved[r])]
  <2>1. /\ To(i, "transfer", "finishing", rows)
        /\ ledger' \in {ledger, Moved(moved)}
        /\ InProgress(moved)
    BY <1>5, <1>12 DEF BatchTransferFails, At, moved
  <2>2. AllBacked(said', rows)
    BY <1>1, <1>2, <1>3, <1>6, ErroredBacked DEF AllBacked
  <2>. HIDE DEF rows
  <2>3. CopiesBacked' /\ TransfersStarted'
    BY <1>3, <1>6, <2>1, <2>2, ToBacked DEF ConsentInv
  <2>. QED BY <1>4, <1>8, <2>1, <2>3 DEF ConsentInv
<1>. QED BY <1>9, <1>10, <1>11, <1>12

\* Storing an answer, by a validation or from outside, keeps the table backed.
LEMMA StoredBacked ==
  ASSUME Typed, ConsentInv, NEW r \in Requests, NEW v \in Validators, NEW answer \in Answers,
         r \in DOMAIN table, v \in DOMAIN table[r].record,
         table' = StoredAnswer(r, v, answer), said' = SaidNow(r, v, answer)
  PROVE  Grows /\ AllBacked(said', table')
<1>1. said \in [Requests -> SUBSET (Validators \X Answers)] /\ table[r] \in Rows
  BY TableRows DEF Typed
<1>2. Grows
  BY <1>1 DEF SaidNow, Grows
<1>3. CASE table[r].record[v] # "pending"
  <2>1. table' = table /\ said' = said
    BY <1>3 DEF StoredAnswer, SaidNow
  <2>. QED BY <1>2, <2>1 DEF ConsentInv
<1>4. CASE table[r].record[v] = "pending"
  <2>1. /\ said[r] \subseteq said'[r]
        /\ answer # "pending" => <<v, answer>> \in said'[r]
    BY <1>1, <1>2, <1>4 DEF SaidNow, Grows
  <2>2. Backed(said[r], table[r])
    BY DEF ConsentInv, AllBacked
  <2>3. Backed(said'[r], Answered(table[r], v, answer))
    BY <1>1, <2>1, <2>2, AnsweredBacked
  <2>4. table' = [table EXCEPT ![r] = Answered(@, v, answer)]
    BY <1>4 DEF StoredAnswer
  <2>5. \A q \in DOMAIN table : Backed(said'[q], table[q])
    BY <1>2, AllLaterBacked DEF Typed, ConsentInv, AllBacked
  <2>. QED BY <1>2, <2>3, <2>4, <2>5 DEF AllBacked
<1>. QED BY <1>3, <1>4

\* Answers, answers that are lost, and the copies that a catch writes back.
LEMMA ValidatingKeepsConsent ==
  ASSUME Typed, ConsentInv, NEW i \in Instances, Validating(i)
  PROVE  ConsentInv'
<1>. DEFINE copies == CopiesOf(i, "validate")
<1>1. /\ DOMAIN copies \subseteq DOMAIN table
      /\ \A r \in DOMAIN copies : copies[r] \in Rows
      /\ AllBacked(said, copies)
  BY CopiesTyped, TableRows, CopiesAreBacked DEF Kinds, ConsentInv
<1>. HIDE DEF copies
<1>3. ASSUME NEW r \in Requests, NEW v \in Validators, NEW answer \in Answers,
             Answer(i, r, v, answer) \/ AnswerFails(i, r, v, answer)
      PROVE  ConsentInv'
  <2>1. /\ \/ UNCHANGED <<table, said>>
           \/ /\ v \in DOMAIN table[r].record
              /\ table' = StoredAnswer(r, v, answer)
              /\ said' = SaidNow(r, v, answer)
        /\ UNCHANGED <<ledger, tasks>>
    BY <1>3 DEF Answer, AnswerFails
  <2>2. Grows /\ AllBacked(said', table')
    <3>1. CASE UNCHANGED <<table, said>>
      BY <3>1 DEF Grows, ConsentInv
    <3>2. CASE r \in DOMAIN table /\ ~UNCHANGED <<table, said>>
      BY <2>1, <3>2, StoredBacked
    <3>3. CASE r \notin DOMAIN table /\ ~UNCHANGED <<table, said>>
      <4>1. table' = table
        BY <2>1, <3>3, TableRows DEF StoredAnswer, Typed
      <4>2. Grows
        BY <2>1, <3>3 DEF SaidNow, Grows, Typed
      <4>. QED BY <4>1, <4>2, AllLaterBacked DEF ConsentInv, Typed
    <3>. QED BY <3>1, <3>2, <3>3
  <2>3. CopiesBacked' /\ TransfersStarted'
    BY <2>1, <2>2, RoundsStayBacked DEF ConsentInv
  <2>4. ConsentBeforeTransfer'
    BY <2>1, <2>2, ConsentStays DEF ConsentInv
  <2>. QED BY <2>2, <2>3, <2>4 DEF ConsentInv
<1>4. ASSUME NEW r \in Requests, Catch(i, r) \/ CatchFails(i, r)
      PROVE  ConsentInv'
  <2>1. /\ r \in DOMAIN copies
        /\ table' \in {table, Saved(CaughtCopy(i, r))}
        /\ UNCHANGED <<ledger, said>>
    BY <1>4 DEF Catch, CatchFails, copies
  <2>2. Grows
    BY <2>1 DEF Grows
  <2>3. Backed(said[r], Errored("validate", copies[r]))
    BY <1>1, <2>1, ErroredBacked DEF AllBacked, Kinds
  <2>4. AllBacked(said, CaughtCopy(i, r))
    BY <2>3 DEF AllBacked, CaughtCopy, copies
  <2>5. AllBacked(said', table')
    BY <2>1, <2>4, SavedBacked DEF ConsentInv
  <2>. DEFINE rest == [q \in DOMAIN copies \ {r} |-> copies[q]]
  <2>6. \E phase : To(i, "validate", phase, rest)
    BY <1>4 DEF Catch, CatchFails, Forget, copies
  <2>7. AllBacked(said', rest)
    BY <1>1, <2>1 DEF AllBacked
  <2>. HIDE DEF rest
  <2>8. CopiesBacked' /\ TransfersStarted'
    BY <2>2, <2>6, <2>7, ToBacked DEF ConsentInv, Kinds
  <2>. QED BY <2>1, <2>2, <2>5, <2>8, ConsentStays DEF ConsentInv
<1>5. CASE EndValidation(i)
  <2>1. To(i, "validate", "waiting", <<>>) /\ UNCHANGED <<table, ledger, said>> /\ Grows
    BY <1>5 DEF EndValidation, Finished, Grows
  <2>2. CopiesBacked' /\ TransfersStarted'
    BY <2>1, EmptyBacked, ToBacked DEF ConsentInv, Kinds
  <2>. QED BY <2>1, <2>2, ConsentStays DEF ConsentInv
<1>. QED BY <1>3, <1>4, <1>5 DEF Validating

\* Readings and answers from outside.
LEMMA OutsideKeepsConsent ==
  ASSUME Typed, ConsentInv, NEW i \in Instances, Outside(i)
  PROVE  ConsentInv'
<1>1. ASSUME NEW r \in Requests, NEW empty \in BOOLEAN, NEW same \in BOOLEAN,
             Reading(i, r, empty, same)
      PROVE  ConsentInv'
  <2>1. UNCHANGED <<ledger, said, tasks>> /\ Grows
    BY <1>1 DEF Reading, Grows
  <2>2. Backed(said[r], NewRow(empty, same))
    BY DEF NewRow, Backed, Approved
  <2>3. AllBacked(said', table')
    BY <1>1, <2>1, <2>2 DEF Reading, AllBacked, ConsentInv
  <2>4. CopiesBacked' /\ TransfersStarted'
    BY <2>1, RoundsStayBacked DEF ConsentInv
  <2>. QED BY <2>1, <2>3, <2>4, ConsentStays DEF ConsentInv
<1>2. ASSUME NEW r \in Requests, NEW v \in Validators, NEW answer \in Answers,
             Update(i, r, v, answer)
      PROVE  ConsentInv'
  <2>1. Grows /\ AllBacked(said', table') /\ UNCHANGED <<ledger, tasks>>
    BY <1>2, StoredBacked DEF Update
  <2>2. CopiesBacked' /\ TransfersStarted'
    BY <2>1, RoundsStayBacked DEF ConsentInv
  <2>. QED BY <2>1, <2>2, ConsentStays DEF ConsentInv
<1>. QED BY <1>1, <1>2 DEF Outside

\* What the seller uses otherwise has not moved to the buyer.
LEMMA SpendKeepsConsent ==
  ASSUME Typed, ConsentInv, NEW r \in Requests, Spend(r)
  PROVE  ConsentInv'
<1>1. PICK c \in DOMAIN ledger[r] : ledger' = [ledger EXCEPT ![r] = [@ EXCEPT ![c] = "spent"]]
  BY DEF Spend
<1>2. UNCHANGED <<table, said, tasks>> /\ Grows
  BY DEF Spend, Grows
<1>3. ASSUME NEW q \in Requests, HasMoved(q)' PROVE HasMoved(q)
  <2>1. PICK d \in DOMAIN ledger'[q] : ledger'[q][d] = "buyer"
    BY <1>3 DEF HasMoved
  <2>2. d \in DOMAIN ledger[q] /\ ledger[q][d] = "buyer"
    BY <1>1, <2>1 DEF Typed
  <2>. QED BY <2>2 DEF HasMoved
<1>4. ConsentBeforeTransfer'
  BY <1>2, <1>3 DEF ConsentInv, ConsentBeforeTransfer
<1>. QED BY <1>2, <1>4, RoundsStayBacked DEF ConsentInv

\* A restart forgets rounds; it writes nothing.
LEMMA CrashKeepsConsent ==
  ASSUME Typed, ConsentInv, NEW i \in Instances, Crash(i)
  PROVE  ConsentInv'
<1>1. UNCHANGED <<table, ledger, said>> /\ Grows
  BY DEF Crash, Grows
<1>2. \A ik \in Instances \X Kinds : tasks'[ik] \in {NoRound, tasks[ik]}
  BY DEF Crash, Typed, RoundsOK
<1>3. CopiesBacked'
  BY <1>1, <1>2, EmptyBacked DEF CopiesBacked, NoRound, ConsentInv
<1>4. TransfersStarted'
  <2>1. \A j \in Instances : <<j, "transfer">> \in Instances \X Kinds
    BY DEF Kinds
  <2>. QED BY <1>2, <2>1 DEF TransfersStarted, NoRound, ConsentInv
<1>. QED BY <1>1, <1>3, <1>4, ConsentStays DEF ConsentInv

\* At the beginning nothing has been answered or moved.
LEMMA InitConsents == PipelineInit => ConsentInv
<1>. SUFFICES ASSUME PipelineInit PROVE ConsentInv
  OBVIOUS
<1>1. AllBacked(said, table)
  BY EmptyBacked DEF PipelineInit
<1>2. CopiesBacked
  BY EmptyBacked DEF PipelineInit, CopiesBacked, NoRound
<1>3. TransfersStarted
  BY DEF PipelineInit, TransfersStarted, NoRound, Kinds
<1>4. ConsentBeforeTransfer
  BY EmptyTable DEF PipelineInit, ConsentBeforeTransfer, HasMoved
<1>. QED BY <1>1, <1>2, <1>3, <1>4 DEF ConsentInv

\* Every step of the pipeline keeps the invariant.
LEMMA StepKeepsConsent ==
  Typed /\ ConsentInv /\ [PipelineNext]_pipelineVars => ConsentInv'
<1>. SUFFICES ASSUME Typed, ConsentInv, [PipelineNext]_pipelineVars
              PROVE  ConsentInv'
  OBVIOUS
<1>1. CASE UNCHANGED pipelineVars
  <2>1. UNCHANGED <<table, ledger, said, tasks>> /\ Grows
    BY <1>1 DEF pipelineVars, Grows
  <2>. QED BY <2>1, RoundsStayBacked, ConsentStays DEF ConsentInv
<1>2. ASSUME NEW i \in Instances, Serving(i) PROVE ConsentInv'
  BY <1>2, RoundKeepsConsent, BatchKeepsConsent, ValidatingKeepsConsent, CrashKeepsConsent
     DEF Serving
<1>. QED BY <1>1, <1>2, OutsideKeepsConsent, SpendKeepsConsent DEF PipelineNext

\* For any number of instances that work on the same table, any rejected
\* saves, lost answers and restarts: no certificate moves to the buyer unless
\* every validator's stored answer was "valid" at some time, although tasks
\* save rows that they read before (validate.service.ts, transfer.service.ts).
THEOREM ConsentAlways == PipelineSpec => []ConsentBeforeTransfer
<1>1. PipelineSpec => []Typed
  BY InitTyped, StepKeepsTypes, PTL DEF PipelineSpec
<1>2. PipelineSpec => []ConsentInv
  BY <1>1, InitConsents, StepKeepsConsent, PTL DEF PipelineSpec
<1>3. ConsentInv => ConsentBeforeTransfer
  BY DEF ConsentInv
<1>. QED BY <1>2, <1>3, PTL

-----------------------------------------------------------------------------
(* One instance of the application, for any number of requests and          *)
(* validators, any batch size, lost answers, failed saves and restarts      *)

-----------------------------------------------------------------------------
(* Issuance *)

\* A row that the issuance would still take up.
Open(row) == row.state = "IssuanceAwaiting"

\* The issuance has no certificate yet for what it will issue, and what it
\* issues now it would not find again.  What a task will save is never open.
RoundIssues(kind, round, rows, held) ==
  \A r \in DOMAIN round.copies :
    /\ ~Open(round.copies[r])
    /\ kind = "issue" /\ round.phase \in {"starting", "acting"} => Len(held[r]) = 0
    /\ kind = "issue" /\ round.phase = "acting" => ~Open(rows[r])

\* A request has no certificate until its row is closed, and at most one.
IssuanceInv ==
  /\ \A r \in Requests :
       r \notin DOMAIN table \/ Open(table[r]) => Len(ledger[r]) = 0
  /\ \A i \in Instances, kind \in Kinds :
       RoundIssues(kind, tasks[<<i, kind>>], table, ledger)
  /\ IssuedOnce

\* No row is opened again, or lost, and no certificate is issued.
Closes ==
  /\ DOMAIN table' = DOMAIN table
  /\ \A r \in DOMAIN table : Open(table'[r]) => Open(table[r])
  /\ \A r \in Requests : Len(ledger'[r]) = Len(ledger[r])

\* Rounds that do not move stay as they should be.
LEMMA RoundsKeepIssuing ==
  ASSUME Typed, IssuanceInv, Closes
  PROVE  \A i \in Instances, kind \in Kinds :
           RoundIssues(kind, tasks[<<i, kind>>], table', ledger')
<1>1. ASSUME NEW i \in Instances, NEW kind \in Kinds
      PROVE  RoundIssues(kind, tasks[<<i, kind>>], table', ledger')
  <2>1. DOMAIN tasks[<<i, kind>>].copies \subseteq DOMAIN table
    BY DEF Typed, RoundsOK
  <2>2. DOMAIN table \subseteq Requests
    BY TableRows DEF Typed
  <2>3. RoundIssues(kind, tasks[<<i, kind>>], table, ledger)
    BY DEF IssuanceInv
  <2>4. ASSUME NEW r \in DOMAIN tasks[<<i, kind>>].copies
        PROVE  Len(ledger'[r]) = Len(ledger[r]) /\ (Open(table'[r]) => Open(table[r]))
    BY <2>1, <2>2 DEF Closes
  <2>. QED BY <2>3, <2>4 DEF RoundIssues
<1>. QED BY <1>1

\* What every step without an issuance keeps, but for the rounds.
LEMMA ClosesKeeps ==
  ASSUME IssuanceInv, Closes
  PROVE  /\ \A r \in Requests :
              r \notin DOMAIN table' \/ Open(table'[r]) => Len(ledger'[r]) = 0
         /\ IssuedOnce'
BY DEF IssuanceInv, Closes, IssuedOnce

\* A step that moves no round.
LEMMA RestKeeps ==
  ASSUME Typed, IssuanceInv, Closes, UNCHANGED tasks
  PROVE  IssuanceInv'
<1>1. \A i \in Instances, kind \in Kinds :
        RoundIssues(kind, tasks'[<<i, kind>>], table', ledger')
  BY RoundsKeepIssuing
<1>. QED BY <1>1, ClosesKeeps DEF IssuanceInv

\* A step that moves one round.
LEMMA MoveKeeps ==
  ASSUME Typed, IssuanceInv, Closes, NEW i \in Instances, NEW kind \in Kinds,
         NEW phase, NEW copies, To(i, kind, phase, copies),
         RoundIssues(kind, [phase |-> phase, copies |-> copies], table', ledger')
  PROVE  IssuanceInv'
<1>1. ASSUME NEW j \in Instances, NEW k \in Kinds
      PROVE  RoundIssues(k, tasks'[<<j, k>>], table', ledger')
  <2>1. tasks'[<<j, k>>] = IF <<j, k>> = <<i, kind>>
                           THEN [phase |-> phase, copies |-> copies] ELSE tasks[<<j, k>>]
    BY DEF To, Typed, RoundsOK
  <2>2. RoundIssues(k, tasks[<<j, k>>], table', ledger')
    BY RoundsKeepIssuing
  <2>. QED BY <2>1, <2>2
<1>. QED BY <1>1, ClosesKeeps DEF IssuanceInv

\* No copies, no obligations.
LEMMA NothingIssues ==
  ASSUME NEW kind, NEW round, round.copies = <<>>, NEW rows, NEW held
  PROVE  RoundIssues(kind, round, rows, held)
BY EmptyTable DEF RoundIssues

\* Saving copies opens nothing.
LEMMA SavedCloses ==
  ASSUME IssuanceInv, NEW i \in Instances, NEW kind \in Kinds,
         table' \in {table, Saved(CopiesOf(i, kind))}, UNCHANGED ledger
  PROVE  Closes
BY DEF IssuanceInv, RoundIssues, CopiesOf, Saved, Closes

\* Nor do answers.
LEMMA AnswerCloses ==
  ASSUME Typed, NEW r, NEW v \in Validators, NEW answer \in Answers,
         table' \in {table, StoredAnswer(r, v, answer)}, UNCHANGED ledger
  PROVE  Closes
<1>1. table = [q \in DOMAIN table |-> table[q]] /\ \A q \in DOMAIN table : table[q] \in Rows
  BY TableRows DEF Typed
<1>2. ASSUME NEW row \in Rows, Open(Answered(row, v, answer)) PROVE Open(row)
  BY <1>2 DEF Answered, Open, Outcome, Rows
<1>3. DOMAIN table' = DOMAIN table
  BY <1>1 DEF StoredAnswer
<1>4. \A q \in DOMAIN table : Open(table'[q]) => Open(table[q])
  BY <1>1, <1>2 DEF StoredAnswer
<1>. QED BY <1>3, <1>4 DEF Closes

\* What a task starts, finishes, or fails with is closed.
LEMMA ChangedIsClosed ==
  ASSUME NEW kind \in Kinds, NEW row \in Rows
  PROVE  /\ ~Open(Started(kind, row))
         /\ ~Open(Errored(kind, row))
         /\ \A cert : ~Open(Persisted(row, cert))
BY DEF Started, Errored, Failure, Persisted, Open, Kinds, Rows

\* One step of a task: the issuance takes up open rows only, and closes them
\* before it issues.
LEMMA RoundKeepsIssuance ==
  ASSUME Typed, IssuanceInv, NEW i \in Instances, NEW kind \in Kinds, Round(i, kind)
  PROVE  IssuanceInv'
<1>. DEFINE copies == CopiesOf(i, kind)
<1>1. copies \in Tables /\ DOMAIN copies \subseteq DOMAIN table /\ DOMAIN table \subseteq Requests
  BY CopiesTyped, TableRows DEF Typed
<1>2. RoundIssues(kind, tasks[<<i, kind>>], table, ledger)
  BY DEF IssuanceInv
<1>3. \A r \in DOMAIN copies : ~Open(copies[r]) /\ copies[r] \in Rows
  BY <1>1, <1>2, TableRows DEF RoundIssues, CopiesOf
<1>4. UNCHANGED ledger
  BY DEF Round, Proceed, Find, FindNothing, SaveStarted, SaveFinished, RepositoryFails
<1>5. UNCHANGED table \/ table' \in {table, Saved(copies)}
  BY DEF Round, Proceed, Find, FindNothing, SaveStarted, SaveFinished, RepositoryFails
<1>6. Closes
  BY <1>4, <1>5, SavedCloses
<1>7. CASE Find(i, kind)
  <2>1. PICK b \in Batches(kind) : To(i, kind, "starting", [r \in b |-> Started(kind, table[r])])
    BY <1>7 DEF Find
  <2>. DEFINE round == [phase |-> "starting", copies |-> [r \in b |-> Started(kind, table[r])]]
  <2>2. \A r \in b : /\ r \in Requests /\ r \in DOMAIN table /\ table[r] \in Rows
                     /\ kind = "issue" => Open(table[r])
    BY <1>1, TableRows DEF Batches, Ready, Typed, Open, Awaiting
  <2>3. \A r \in b : ~Open(round.copies[r]) /\ (kind = "issue" => Len(ledger'[r]) = 0)
    BY <1>4, <2>2, ChangedIsClosed DEF IssuanceInv
  <2>4. RoundIssues(kind, round, table', ledger')
    BY <2>3 DEF RoundIssues
  <2>. QED BY <1>6, <2>1, <2>4, MoveKeeps
<1>8. CASE FindNothing(i, kind)
  BY <1>6, <1>8, MoveKeeps, NothingIssues DEF FindNothing, Finished
<1>9. CASE SaveStarted(i, kind)
  <2>1. CASE To(i, kind, "waiting", <<>>)
    BY <1>6, <2>1, MoveKeeps, NothingIssues
  <2>2. CASE To(i, kind, "acting", copies)
    <3>. DEFINE round == [phase |-> "acting", copies |-> copies]
    <3>1. \A r \in DOMAIN copies : table'[r] = copies[r]
      BY <1>1, <1>9 DEF SaveStarted, Saved
    <3>2. \A r \in DOMAIN copies : kind = "issue" => Len(ledger'[r]) = 0
      BY <1>2, <1>4, <1>9 DEF SaveStarted, At, RoundIssues, CopiesOf
    <3>3. RoundIssues(kind, round, table', ledger')
      BY <1>3, <3>1, <3>2 DEF RoundIssues
    <3>. QED BY <1>6, <2>2, <3>3, MoveKeeps
  <2>. QED BY <1>9, <2>1, <2>2 DEF SaveStarted, Finished
<1>10. CASE SaveFinished(i, kind)
  BY <1>6, <1>10, MoveKeeps, NothingIssues DEF SaveFinished, Finished
<1>11. CASE RepositoryFails(i, kind)
  <2>. DEFINE errored == [r \in DOMAIN copies |-> Errored(kind, copies[r])]
  <2>1. RoundIssues(kind, [phase |-> "failing", copies |-> errored], table', ledger')
    BY <1>3, ChangedIsClosed DEF RoundIssues
  <2>2. To(i, kind, "failing", errored) \/ To(i, kind, "dead", <<>>)
    BY <1>11 DEF RepositoryFails
  <2>. QED BY <1>6, <2>1, <2>2, MoveKeeps, NothingIssues
<1>. QED BY <1>7, <1>8, <1>9, <1>10, <1>11 DEF Round, Proceed

\* The service issues once what had no certificate; its only other user is
\* the transfer, which issues nothing.
LEMMA BatchKeepsIssuance ==
  ASSUME Typed, IssuanceInv, NEW i, Instances = {i},
         \/ BatchIssue(i) \/ BatchIssueFails(i)
         \/ BatchTransfer(i) \/ BatchTransferFails(i)
  PROVE  IssuanceInv'
<1>. DEFINE issued == CopiesOf(i, "issue")
            moved  == CopiesOf(i, "transfer")
<1>1. /\ issued \in Tables /\ DOMAIN issued \subseteq DOMAIN table
      /\ moved \in Tables /\ DOMAIN moved \subseteq Requests
      /\ DOMAIN table \subseteq Requests
  BY CopiesTyped, TableRows DEF Kinds, Typed
<1>2. /\ \A r \in DOMAIN issued : issued[r] \in Rows
      /\ \A r \in DOMAIN moved : moved[r] \in Rows /\ ~Open(moved[r])
  BY <1>1, TableRows DEF IssuanceInv, RoundIssues, CopiesOf, Kinds
<1>3. UNCHANGED table
  BY DEF BatchIssue, BatchIssueFails, BatchTransfer, BatchTransferFails
<1>4. "issue" \in Kinds /\ "transfer" \in Kinds
  BY DEF Kinds
<1>5. ASSUME NEW phase \in {"finishing", "failing"}, NEW rows,
             BatchIssue(i) \/ BatchIssueFails(i), To(i, "issue", phase, rows),
             DOMAIN rows = DOMAIN issued, \A r \in DOMAIN rows : ~Open(rows[r]),
             ledger' \in {ledger, Issued(issued)}
      PROVE  IssuanceInv'
  <2>1. \A r \in DOMAIN issued : Len(ledger[r]) = 0 /\ ~Open(table[r])
    BY <1>4, <1>5 DEF BatchIssue, BatchIssueFails, At, IssuanceInv, RoundIssues, CopiesOf
  <2>2. \A r \in Requests :
          /\ r \in DOMAIN issued => Len(ledger'[r]) \in {0, 1}
          /\ r \notin DOMAIN issued => Len(ledger'[r]) = Len(ledger[r])
    <3>1. CASE ledger' = ledger
      BY <2>1, <3>1
    <3>2. CASE ledger' = Issued(issued)
      <4>1. \A r \in Requests : ledger[r] \in Seq(Holders)
        BY DEF Typed
      <4>2. \A r \in Requests :
              ledger'[r] = IF r \in DOMAIN issued THEN Append(ledger[r], "seller") ELSE ledger[r]
        BY <3>2 DEF Issued
      <4>3. \A r \in Requests : Len(Append(ledger[r], "seller")) = Len(ledger[r]) + 1
        BY <4>1, AppendProperties DEF Holders
      <4>. HIDE DEF issued
      <4>4. ASSUME NEW r \in Requests, r \in DOMAIN issued PROVE Len(ledger'[r]) = 1
        <5>1. Len(ledger[r]) = 0
          BY <2>1, <4>4
        <5>2. ledger'[r] = Append(ledger[r], "seller")
          BY <4>2, <4>4
        <5>. QED BY <4>3, <5>1, <5>2
      <4>5. ASSUME NEW r \in Requests, r \notin DOMAIN issued PROVE Len(ledger'[r]) = Len(ledger[r])
        BY <4>2, <4>5
      <4>. QED BY <4>4, <4>5
    <3>. QED BY <1>5, <3>1, <3>2
  <2>3. \A r \in Requests : r \notin DOMAIN table' \/ Open(table'[r]) => Len(ledger'[r]) = 0
    BY <1>1, <1>3, <2>1, <2>2 DEF IssuanceInv
  <2>4. IssuedOnce'
    <3>1. \A r \in Requests : Len(ledger[r]) <= 1
      BY DEF IssuanceInv, IssuedOnce
    <3>2. ASSUME NEW r \in Requests PROVE Len(ledger'[r]) <= 1
      <4>1. CASE r \in DOMAIN issued
        <5>1. Len(ledger'[r]) \in {0, 1}
          BY <2>2, <4>1
        <5>2. \A n : n \in {0, 1} => n <= 1
          OBVIOUS
        <5>. QED BY <5>1, <5>2
      <4>2. CASE r \notin DOMAIN issued
        BY <2>2, <3>1, <4>2
      <4>. QED BY <4>1, <4>2
    <3>. QED BY <3>2 DEF IssuedOnce
  <2>5. ASSUME NEW j \in Instances, NEW k \in Kinds
        PROVE  RoundIssues(k, tasks'[<<j, k>>], table', ledger')
    <3>1. j = i
      BY <2>5
    <3>2. tasks'[<<j, k>>] = IF k = "issue" THEN [phase |-> phase, copies |-> rows]
                             ELSE tasks[<<j, k>>]
      BY <1>4, <1>5, <3>1 DEF To, Typed, RoundsOK
    <3>3. RoundIssues(k, tasks[<<j, k>>], table, ledger)
      BY DEF IssuanceInv
    <3>. QED BY <1>3, <1>5, <3>2, <3>3 DEF RoundIssues
  <2>. QED BY <2>3, <2>4, <2>5 DEF IssuanceInv
<1>6. CASE BatchIssue(i)
  <2>. DEFINE rows == [r \in DOMAIN issued |-> Persisted(issued[r], Len(ledger[r]) + 1)]
  <2>1. \A r \in DOMAIN issued : ~Open(rows[r])
    BY <1>2, <1>4, ChangedIsClosed
  <2>2. To(i, "issue", "finishing", rows) /\ ledger' = Issued(issued)
    BY <1>6 DEF BatchIssue
  <2>. QED BY <1>5, <1>6, <2>1, <2>2
<1>7. CASE BatchIssueFails(i)
  <2>. DEFINE rows == [r \in DOMAIN issued |-> Errored("issue", issued[r])]
  <2>1. \A r \in DOMAIN issued : ~Open(rows[r])
    BY <1>2, <1>4, ChangedIsClosed
  <2>2. To(i, "issue", "failing", rows) /\ ledger' \in {ledger, Issued(issued)}
    BY <1>7 DEF BatchIssueFails
  <2>. QED BY <1>5, <1>7, <2>1, <2>2
<1>8. CASE BatchTransfer(i) \/ BatchTransferFails(i)
  <2>1. ledger' = ledger \/ (Accepted(moved) /\ ledger' = Moved(moved))
    BY <1>8 DEF BatchTransfer, BatchTransferFails
  <2>2. ASSUME NEW r \in Requests PROVE Len(ledger'[r]) = Len(ledger[r])
    <3>1. ledger[r] \in Seq(Holders)
      BY DEF Typed
    <3>2. ledger'[r] = ledger[r] \/ ledger'[r] = [ledger[r] EXCEPT ![moved[r].cert] = "buyer"]
      BY <2>1 DEF Moved
    <3>. QED BY <3>1, <3>2
  <2>3. Closes
    BY <1>3, <2>2 DEF Closes
  <2>4. PICK rows : /\ To(i, "transfer", "finishing", rows)
                    /\ DOMAIN rows = DOMAIN moved
                    /\ \A r \in DOMAIN rows : rows[r].state \in {"Transferred", "TransferError"}
    <3>1. CASE BatchTransfer(i)
      <4>. DEFINE new == [r \in DOMAIN moved |-> [moved[r] EXCEPT !.state = "Transferred"]]
      <4>1. \A r \in DOMAIN new : new[r].state = "Transferred"
        BY <1>2 DEF Rows
      <4>2. To(i, "transfer", "finishing", new) /\ DOMAIN new = DOMAIN moved
        BY <3>1 DEF BatchTransfer
      <4>. HIDE DEF new
      <4>. QED BY <4>1, <4>2
    <3>2. CASE BatchTransferFails(i)
      <4>1. \A r \in DOMAIN moved : Errored("transfer", moved[r]).state = "TransferError"
        BY <1>2 DEF Rows, Errored, Failure
      <4>. QED BY <3>2, <4>1 DEF BatchTransferFails
    <3>. QED BY <1>8, <3>1, <3>2
  <2>5. RoundIssues("transfer", [phase |-> "finishing", copies |-> rows], table', ledger')
    BY <2>4 DEF RoundIssues, Open
  <2>. QED BY <1>4, <2>3, <2>4, <2>5, MoveKeeps
<1>. QED BY <1>6, <1>7, <1>8

\* Answers, and the copies that a catch writes back.
LEMMA ValidatingKeepsIssuance ==
  ASSUME Typed, IssuanceInv, NEW i \in Instances, Validating(i)
  PROVE  IssuanceInv'
<1>. DEFINE copies == CopiesOf(i, "validate")
<1>1. "validate" \in Kinds
  BY DEF Kinds
<1>2. \A r \in DOMAIN copies : copies[r] \in Rows /\ ~Open(copies[r])
  BY <1>1, CopiesTyped, TableRows DEF IssuanceInv, RoundIssues, CopiesOf
<1>3. ASSUME NEW r \in Requests, NEW v \in Validators, NEW answer \in Answers,
             Answer(i, r, v, answer) \/ AnswerFails(i, r, v, answer)
      PROVE  IssuanceInv'
  <2>1. table' \in {table, StoredAnswer(r, v, answer)} /\ UNCHANGED <<ledger, tasks>>
    BY <1>3 DEF Answer, AnswerFails
  <2>. QED BY <2>1, AnswerCloses, RestKeeps
<1>4. ASSUME NEW r \in Requests, Catch(i, r) \/ CatchFails(i, r)
      PROVE  IssuanceInv'
  <2>1. /\ r \in DOMAIN copies
        /\ table' \in {table, Saved(CaughtCopy(i, r))}
        /\ UNCHANGED ledger
    BY <1>4 DEF Catch, CatchFails
  <2>2. ~Open(Errored("validate", copies[r]))
    BY <1>1, <1>2, <2>1, ChangedIsClosed
  <2>3. Closes
    BY <2>1, <2>2 DEF CaughtCopy, Saved, Closes
  <2>. DEFINE rest == [q \in DOMAIN copies \ {r} |-> copies[q]]
  <2>4. PICK phase : To(i, "validate", phase, rest)
    BY <1>4 DEF Catch, CatchFails, Forget
  <2>5. RoundIssues("validate", [phase |-> phase, copies |-> rest], table', ledger')
    BY <1>2 DEF RoundIssues
  <2>. QED BY <1>1, <2>3, <2>4, <2>5, MoveKeeps
<1>5. CASE EndValidation(i)
  BY <1>1, <1>5, MoveKeeps, NothingIssues DEF EndValidation, Finished, Closes
<1>. QED BY <1>3, <1>4, <1>5 DEF Validating

\* A reading opens a row that did not exist, and so had no certificate.
LEMMA OutsideKeepsIssuance ==
  ASSUME Typed, IssuanceInv, NEW i \in Instances, Outside(i)
  PROVE  IssuanceInv'
<1>1. ASSUME NEW r \in Requests, NEW empty \in BOOLEAN, NEW same \in BOOLEAN,
             Reading(i, r, empty, same)
      PROVE  IssuanceInv'
  <2>1. /\ r \notin DOMAIN table
        /\ DOMAIN table' = DOMAIN table \cup {r}
        /\ \A q \in DOMAIN table : table'[q] = table[q]
        /\ UNCHANGED <<ledger, tasks>>
    BY <1>1 DEF Reading
  <2>2. ASSUME NEW j \in Instances, NEW k \in Kinds
        PROVE  RoundIssues(k, tasks'[<<j, k>>], table', ledger')
    <3>1. DOMAIN tasks[<<j, k>>].copies \subseteq DOMAIN table
      BY DEF Typed, RoundsOK
    <3>. QED BY <2>1, <3>1 DEF IssuanceInv, RoundIssues
  <2>. QED BY <2>1, <2>2 DEF IssuanceInv, IssuedOnce
<1>2. ASSUME NEW r \in Requests, NEW v \in Validators, NEW answer \in Answers,
             Update(i, r, v, answer)
      PROVE  IssuanceInv'
  <2>1. table' = StoredAnswer(r, v, answer) /\ UNCHANGED <<ledger, tasks>>
    BY <1>2 DEF Update
  <2>. QED BY <2>1, AnswerCloses, RestKeeps
<1>. QED BY <1>1, <1>2 DEF Outside

\* Every step keeps the invariant, when there is one instance.
LEMMA StepKeepsIssuance ==
  ASSUME NEW i, Instances = {i}, Typed, IssuanceInv, [PipelineNext]_pipelineVars
  PROVE  IssuanceInv'
<1>1. CASE UNCHANGED pipelineVars
  BY <1>1, RestKeeps DEF pipelineVars, Closes
<1>2. CASE Crash(i)
  <2>1. Closes
    BY <1>2 DEF Crash, Closes
  <2>2. ASSUME NEW j \in Instances, NEW k \in Kinds
        PROVE  RoundIssues(k, tasks'[<<j, k>>], table', ledger')
    <3>1. tasks'[<<j, k>>] = NoRound
      BY <1>2 DEF Crash, Typed, RoundsOK
    <3>. QED BY <3>1, NothingIssues DEF NoRound
  <2>. QED BY <2>1, <2>2, ClosesKeeps DEF IssuanceInv
<1>3. CASE Serving(i)
  BY <1>2, <1>3, RoundKeepsIssuance, BatchKeepsIssuance, ValidatingKeepsIssuance DEF Serving
<1>4. ASSUME NEW r \in Requests, Spend(r) PROVE IssuanceInv'
  <2>1. UNCHANGED <<table, tasks>> /\ \A q \in Requests : Len(ledger'[q]) = Len(ledger[q])
    BY <1>4 DEF Spend, Typed
  <2>. QED BY <2>1, RestKeeps DEF Closes
<1>. QED BY <1>1, <1>3, <1>4, OutsideKeepsIssuance DEF PipelineNext

\* One instance never issues a second certificate for a request, whatever
\* answers of the service are lost, whatever saves fail, and wherever it is
\* restarted: the row is closed before the service is called
\* (issue.service.ts).
THEOREM IssuedOnceByOneInstance ==
  ASSUME NEW i, Instances = {i}
  PROVE  PipelineSpec => []IssuedOnce
<1>1. PipelineSpec => []Typed
  BY InitTyped, StepKeepsTypes, PTL DEF PipelineSpec
<1>2. PipelineInit => IssuanceInv
  <2>1. SUFFICES ASSUME PipelineInit PROVE IssuanceInv
    OBVIOUS
  <2>2. \A j \in Instances, k \in Kinds : tasks[<<j, k>>] = NoRound
    BY <2>1 DEF PipelineInit
  <2>3. \A r \in Requests : Len(ledger[r]) = 0
    BY <2>1 DEF PipelineInit
  <2>4. \A j \in Instances, k \in Kinds : RoundIssues(k, tasks[<<j, k>>], table, ledger)
    BY <2>2, NothingIssues DEF NoRound
  <2>. QED BY <2>3, <2>4 DEF IssuanceInv, IssuedOnce
<1>3. Typed /\ IssuanceInv /\ [PipelineNext]_pipelineVars => IssuanceInv'
  BY StepKeepsIssuance
<1>4. PipelineSpec => []IssuanceInv
  BY <1>1, <1>2, <1>3, PTL DEF PipelineSpec
<1>5. IssuanceInv => IssuedOnce
  BY DEF IssuanceInv
<1>. QED BY <1>4, <1>5, PTL

-----------------------------------------------------------------------------
(* What a row says, and what is under way for it, agree *)

Certified == {"ValidationAwaiting", "ValidationSkipped", "ValidationInProgress",
              "TransferAwaiting", "TransferInProgress", "Transferred"}
Unvalidated == {"Skipped", "IssuanceAwaiting", "IssuanceInProgress",
                "ValidationAwaiting", "ValidationSkipped"}
CanHaveMoved == {"TransferInProgress", "Transferred", "TransferError",
                 "ValidationError", "IssuanceError"}

\* Somebody bought a certificate of a request; held is its part of the ledger.
Bought(held) == \E c \in DOMAIN held : held[c] = "buyer"

\* What a row or a copy says of its certificate is so.
Truthful(row, held) ==
  /\ row.state \in Certified => row.cert \in DOMAIN held
  /\ row.state = "Transferred" => Bought(held)

\* A row that was not validated yet has no answers, and one whose validation
\* is in progress has all that were stored.
RowTrue(row, held, answers) ==
  /\ \A va \in answers : va[2] # "pending"
  /\ Truthful(row, held)
  /\ Bought(held) => row.state \in CanHaveMoved
  /\ row.state \in Unvalidated => answers = {} /\ row.record = <<>>
  /\ row.state = "ValidationInProgress" =>
       \A va \in answers : va[1] \in DOMAIN row.record /\ row.record[va[1]] = va[2]

\* Nobody but the issuance touches a row that it has taken up, until its last
\* save was rejected.
IssueStage(phase, copy, row, held) ==
  /\ Truthful(copy, held)
  /\ copy.record = <<>>
  /\ \/ phase = "starting" /\ copy.state = "IssuanceInProgress" /\ row.state = "IssuanceAwaiting"
     \/ phase = "acting" /\ copy.state = "IssuanceInProgress" /\ row.state = "IssuanceInProgress"
     \/ /\ phase = "finishing"
        /\ copy.state \in {"ValidationAwaiting", "ValidationSkipped"}
        /\ row.state = "IssuanceInProgress"
     \/ phase = "failing" /\ copy.state = "IssuanceError"

\* A validation starts before the request is transferred, with no answers.
ValidateStage(phase, copy, row, held, answers) ==
  \/ /\ phase = "starting"
     /\ Truthful(copy, held)
     /\ copy.state = IF Validators = {} THEN "TransferAwaiting" ELSE "ValidationInProgress"
     /\ row.state \in {"ValidationAwaiting", "IssuanceError"}
     /\ row.record = <<>> /\ answers = {}
     /\ ~Bought(held)
  \/ phase \in {"acting", "dead"} /\ row.state \notin Unvalidated

\* While a transfer is under way its row can only become an error.
TransferStage(phase, copy, row, held) ==
  /\ Truthful(copy, held)
  /\ row.state \in {"TransferAwaiting", "TransferInProgress", "ValidationError", "IssuanceError"}
  /\ \/ phase = "starting" /\ copy.state = "TransferInProgress" /\ ~Bought(held)
     \/ /\ phase = "acting" /\ copy.state = "TransferInProgress"
        /\ row.state # "TransferAwaiting"
     \/ /\ phase = "finishing" /\ copy.state \in {"Transferred", "TransferError"}
        /\ row.state # "TransferAwaiting"

\* All this of one request.
RequestTrue(r, row, held, answers, issue, validate, transfer) ==
  /\ RowTrue(row, held, answers)
  /\ r \in DOMAIN issue.copies => IssueStage(issue.phase, issue.copies[r], row, held)
  /\ r \in DOMAIN validate.copies =>
       ValidateStage(validate.phase, validate.copies[r], row, held, answers)
  /\ r \in DOMAIN transfer.copies =>
       TransferStage(transfer.phase, transfer.copies[r], row, held)
  /\ r \in DOMAIN transfer.copies /\ r \in DOMAIN validate.copies => validate.phase # "starting"

\* With one instance i, of every request; and validators are only asked
\* about requests that exist.
Stages(i) ==
  /\ \A r \in DOMAIN table :
       RequestTrue(r, table[r], ledger[r], said[r], tasks[<<i, "issue">>],
                   tasks[<<i, "validate">>], tasks[<<i, "transfer">>])
  /\ \A r \in Requests \ DOMAIN table : ~Bought(ledger[r]) /\ said[r] = {}
  /\ \A r \in Requests, v \in Validators : lanes[i][<<r, v>>] # "idle" => r \in DOMAIN table

\* What the steps of a task do to the fields of a row.
LEMMA StartedFields ==
  ASSUME NEW row \in Rows
  PROVE  /\ \A kind \in Kinds : Started(kind, row).cert = row.cert
         /\ Started("issue", row).state = "IssuanceInProgress"
         /\ Started("issue", row).record = row.record
         /\ Started("validate", row).state =
              IF Validators = {} THEN "TransferAwaiting" ELSE "ValidationInProgress"
         /\ Started("transfer", row).state = "TransferInProgress"
BY DEF Started, Rows, Kinds

\* Failures keep all but the state.
LEMMA ErroredFields ==
  ASSUME NEW row \in Rows
  PROVE  /\ Errored("issue", row).state = "IssuanceError"
         /\ Errored("validate", row).state = "ValidationError"
         /\ Errored("transfer", row).state = "TransferError"
         /\ \A kind : Errored(kind, row).record = row.record
BY DEF Errored, Failure, Rows

\* An issued row has its certificate.
LEMMA PersistedFields ==
  ASSUME NEW row \in Rows, NEW cert
  PROVE  /\ Persisted(row, cert).state \in {"ValidationAwaiting", "ValidationSkipped"}
         /\ Persisted(row, cert).cert = cert
         /\ Persisted(row, cert).record = row.record
BY DEF Persisted, Rows

\* The rounds after a step of one of them.
LEMMA ToRounds ==
  ASSUME Typed, NEW i \in Instances, NEW kind \in Kinds,
         NEW phase, NEW copies, To(i, kind, phase, copies)
  PROVE  \A k \in Kinds : tasks'[<<i, k>>] = IF k = kind THEN [phase |-> phase, copies |-> copies]
                                             ELSE tasks[<<i, k>>]
BY DEF To, Typed, RoundsOK

\* The rows after a save.
LEMMA SavedRows ==
  ASSUME Typed, NEW copies, table' \in {table, Saved(copies)}
  PROVE  /\ DOMAIN table' = DOMAIN table
         /\ \/ \A r \in DOMAIN table : table'[r] = table[r]
            \/ \A r \in DOMAIN table : table'[r] = IF r \in DOMAIN copies THEN copies[r] ELSE table[r]
BY DEF Saved

\* Saving a copy of the issuance: what is under way for the request is not
\* disturbed, and the round goes on.
LEMMA IssueSaved ==
  ASSUME NEW row, NEW held, NEW answers, NEW phase, NEW copy \in Rows,
         RowTrue(row, held, answers), IssueStage(phase, copy, row, held)
  PROVE  /\ RowTrue(copy, held, answers)
         /\ \A p, c : ValidateStage(p, c, row, held, answers)
                        => ValidateStage(p, c, copy, held, answers)
         /\ \A p, c : TransferStage(p, c, row, held) => TransferStage(p, c, copy, held)
         /\ phase = "starting" => IssueStage("acting", copy, copy, held)
<1>1. RowTrue(copy, held, answers)
  BY DEF RowTrue, IssueStage, Truthful, Certified, Unvalidated, CanHaveMoved
<1>2. \A p, c : ValidateStage(p, c, row, held, answers) => ValidateStage(p, c, copy, held, answers)
  BY DEF IssueStage, ValidateStage, Unvalidated
<1>3. \A p, c : TransferStage(p, c, row, held) => TransferStage(p, c, copy, held)
  BY DEF IssueStage, TransferStage
<1>. QED BY <1>1, <1>2, <1>3 DEF IssueStage

\* Saving a copy of a validation that starts.
LEMMA ValidateSaved ==
  ASSUME NEW row, NEW held, NEW answers, NEW copy,
         RowTrue(row, held, answers), ValidateStage("starting", copy, row, held, answers)
  PROVE  /\ RowTrue(copy, held, answers)
         /\ \A p, c : IssueStage(p, c, row, held) => IssueStage(p, c, copy, held)
         /\ ValidateStage("acting", copy, copy, held, answers)
<1>1. RowTrue(copy, held, answers)
  BY DEF RowTrue, ValidateStage, Truthful, Certified, Unvalidated, CanHaveMoved
<1>2. \A p, c : IssueStage(p, c, row, held) => IssueStage(p, c, copy, held)
  BY DEF IssueStage, ValidateStage
<1>. QED BY <1>1, <1>2 DEF ValidateStage, Unvalidated

\* Saving a request that a validation has caught.
LEMMA CaughtSaved ==
  ASSUME NEW row, NEW held, NEW answers, NEW copy, NEW caught, caught.state = "ValidationError",
         NEW phase \in {"acting", "dead"},
         RowTrue(row, held, answers), ValidateStage(phase, copy, row, held, answers)
  PROVE  /\ RowTrue(caught, held, answers)
         /\ \A p, c : IssueStage(p, c, row, held) => IssueStage(p, c, caught, held)
         /\ \A p, c : TransferStage(p, c, row, held) => TransferStage(p, c, caught, held)
<1>1. RowTrue(caught, held, answers)
  BY DEF RowTrue, Truthful, Certified, Unvalidated, CanHaveMoved
<1>2. \A p, c : IssueStage(p, c, row, held) => IssueStage(p, c, caught, held)
  BY DEF IssueStage, ValidateStage, Unvalidated
<1>3. \A p, c : TransferStage(p, c, row, held) => TransferStage(p, c, caught, held)
  BY DEF TransferStage
<1>. QED BY <1>1, <1>2, <1>3

\* Saving a copy of the transfer.
LEMMA TransferSaved ==
  ASSUME NEW row, NEW held, NEW answers, NEW phase, NEW copy,
         RowTrue(row, held, answers), TransferStage(phase, copy, row, held)
  PROVE  /\ RowTrue(copy, held, answers)
         /\ \A p, c : IssueStage(p, c, row, held) => IssueStage(p, c, copy, held)
         /\ \A p, c : p # "starting" /\ ValidateStage(p, c, row, held, answers)
                        => ValidateStage(p, c, copy, held, answers)
         /\ phase = "starting" => TransferStage("acting", copy, copy, held)
<1>1. RowTrue(copy, held, answers)
  BY DEF RowTrue, TransferStage, Truthful, Certified, Unvalidated, CanHaveMoved
<1>2. \A p, c : IssueStage(p, c, row, held) => IssueStage(p, c, copy, held)
  BY DEF IssueStage, TransferStage
<1>3. \A p, c : p # "starting" /\ ValidateStage(p, c, row, held, answers)
                  => ValidateStage(p, c, copy, held, answers)
  BY DEF ValidateStage, TransferStage, Unvalidated
<1>. QED BY <1>1, <1>2, <1>3 DEF TransferStage

\* Storing an answer to a validator's pending question.
LEMMA AnswerSaved ==
  ASSUME NEW row \in Rows, NEW held, NEW answers \in SUBSET (Validators \X Answers),
         NEW v \in Validators, NEW answer \in Answers, NEW more,
         v \in DOMAIN row.record, row.record[v] = "pending",
         more = IF answer = "pending" THEN answers ELSE answers \cup {<<v, answer>>},
         RowTrue(row, held, answers)
  PROVE  /\ RowTrue(Answered(row, v, answer), held, more)
         /\ \A p, c : IssueStage(p, c, row, held)
                        => IssueStage(p, c, Answered(row, v, answer), held)
         /\ \A p, c : ValidateStage(p, c, row, held, answers)
                        => ValidateStage(p, c, Answered(row, v, answer), held, more)
         /\ \A p, c : TransferStage(p, c, row, held)
                        => TransferStage(p, c, Answered(row, v, answer), held)
<1>. DEFINE record == [row.record EXCEPT ![v] = answer]
            given  == {record[w] : w \in DOMAIN record}
            state  == IF row.state = "ValidationInProgress" THEN Outcome(given) ELSE row.state
            new    == Answered(row, v, answer)
<1>1. new.record = record /\ new.state = state /\ new.cert = row.cert
  BY DEF Answered, Rows
<1>2. /\ Outcome(given) \in {"ValidationError", "ValidationInvalid", "TransferAwaiting",
                             "ValidationInProgress"}
      /\ row.record # <<>> /\ row.state \notin Unvalidated
      /\ DOMAIN record = DOMAIN row.record
  BY EmptyTable DEF Outcome, RowTrue
<1>. HIDE DEF new, given
<1>3. /\ new.state \notin Unvalidated
      /\ new.state # row.state => row.state = "ValidationInProgress"
      /\ new.state \in {row.state, "ValidationError", "ValidationInvalid", "TransferAwaiting",
                        "ValidationInProgress"}
  BY <1>1, <1>2 DEF Unvalidated
<1>4. RowTrue(new, held, more)
  <2>1. \A va \in more : va[2] # "pending"
    BY DEF RowTrue
  <2>2. Truthful(new, held)
    BY <1>1, <1>3 DEF RowTrue, Truthful, Certified
  <2>3. Bought(held) => new.state \in CanHaveMoved
    BY <1>3 DEF RowTrue, CanHaveMoved
  <2>4. ASSUME new.state = "ValidationInProgress", NEW va \in more
        PROVE  va[1] \in DOMAIN record /\ record[va[1]] = va[2]
    <3>1. row.state = "ValidationInProgress"
      BY <1>3, <2>4
    <3>2. CASE va \in answers
      <4>1. va[1] \in DOMAIN row.record /\ row.record[va[1]] = va[2] /\ va[2] # "pending"
        BY <3>1, <3>2 DEF RowTrue
      <4>. QED BY <1>2, <4>1
    <3>3. CASE va = <<v, answer>>
      BY <1>2, <3>3
    <3>. QED BY <3>2, <3>3
  <2>. QED BY <1>1, <1>3, <2>1, <2>2, <2>3, <2>4 DEF RowTrue
<1>5. \A p, c : IssueStage(p, c, row, held) => IssueStage(p, c, new, held)
  BY <1>2 DEF IssueStage, Unvalidated
<1>6. \A p, c : ValidateStage(p, c, row, held, answers) => ValidateStage(p, c, new, held, more)
  BY <1>2, <1>3 DEF ValidateStage
<1>7. \A p, c : TransferStage(p, c, row, held) => TransferStage(p, c, new, held)
  BY <1>3 DEF TransferStage
<1>. QED BY <1>4, <1>5, <1>6, <1>7 DEF new

\* A failed issuance asks nothing of the row.
LEMMA IssueErrored ==
  ASSUME NEW row, NEW held, NEW phase, NEW copy \in Rows, IssueStage(phase, copy, row, held)
  PROVE  \A any : IssueStage("failing", Errored("issue", copy), any, held)
BY ErroredFields DEF IssueStage, Truthful, Certified

\* A new round of one task, given what it means for each request.
LEMMA RoundKeepsStages ==
  ASSUME Typed, NEW i \in Instances, Stages(i), NEW kind \in Kinds, NEW phase, NEW copies,
         To(i, kind, phase, copies),
         \A r \in Requests \ DOMAIN table : ledger'[r] = ledger[r] /\ said'[r] = said[r],
         DOMAIN table' = DOMAIN table,
         \A r \in Requests, v \in Validators :
           lanes'[i][<<r, v>>] \in {"idle", lanes[i][<<r, v>>]} \/ r \in DOMAIN table,
         \A r \in DOMAIN table :
           RequestTrue(r, table'[r], ledger'[r], said'[r],
             IF kind = "issue" THEN [phase |-> phase, copies |-> copies] ELSE tasks[<<i, "issue">>],
             IF kind = "validate" THEN [phase |-> phase, copies |-> copies]
                                  ELSE tasks[<<i, "validate">>],
             IF kind = "transfer" THEN [phase |-> phase, copies |-> copies]
                                  ELSE tasks[<<i, "transfer">>])
  PROVE  Stages(i)'
<1>. DEFINE next(k) == IF kind = k THEN [phase |-> phase, copies |-> copies] ELSE tasks[<<i, k>>]
<1>1. \A k \in Kinds : tasks'[<<i, k>>] = next(k)
  BY ToRounds
<1>2. /\ tasks'[<<i, "issue">>] = next("issue")
      /\ tasks'[<<i, "validate">>] = next("validate")
      /\ tasks'[<<i, "transfer">>] = next("transfer")
  BY <1>1 DEF Kinds
<1>. QED BY <1>2 DEF Stages

\* The issuance takes up rows that wait for it, marks them, and leaves them
\* with a certificate or an error.
LEMMA IssuanceKeepsStages ==
  ASSUME Typed, NEW i \in Instances, Stages(i), Round(i, "issue")
  PROVE  Stages(i)'
<1>. DEFINE round    == tasks[<<i, "issue">>]
            copies   == round.copies
            validate == tasks[<<i, "validate">>]
            transfer == tasks[<<i, "transfer">>]
<1>1. /\ UNCHANGED <<ledger, said, lanes>> /\ "issue" \in Kinds
      /\ copies = CopiesOf(i, "issue")
  BY DEF Round, Proceed, Find, FindNothing, SaveStarted, SaveFinished, RepositoryFails, Kinds,
         CopiesOf
<1>2. /\ DOMAIN copies \subseteq DOMAIN table /\ DOMAIN table \subseteq Requests
      /\ \A r \in DOMAIN table : table[r] \in Rows
      /\ \A r \in DOMAIN copies : copies[r] \in Rows
  BY <1>1, CopiesTyped, TableRows DEF Typed
<1>3. DOMAIN table' = DOMAIN table
  BY SavedRows DEF Round, Proceed, Find, FindNothing, SaveStarted, SaveFinished, RepositoryFails
<1>4. \A r \in DOMAIN table :
        RequestTrue(r, table[r], ledger[r], said[r], round, validate, transfer)
  BY DEF Stages
<1>. DEFINE After(r, phase, rows) ==
       RequestTrue(r, table'[r], ledger[r], said[r], [phase |-> phase, copies |-> rows],
                   validate, transfer)
<1>5. ASSUME NEW phase, NEW rows, To(i, "issue", phase, rows),
             \A r \in DOMAIN table : After(r, phase, rows)
      PROVE  Stages(i)'
  BY <1>1, <1>3, <1>5, RoundKeepsStages
<1>. HIDE DEF round, validate, transfer
\* What is saved is in order, whatever becomes of the round.
<1>6. ASSUME table' \in {table, Saved(copies)}, NEW phase, NEW rows, NEW r \in DOMAIN table,
             r \in DOMAIN rows => IssueStage(phase, rows[r], table'[r], ledger[r])
      PROVE  After(r, phase, rows)
  <2>1. CASE table'[r] = table[r]
    BY <1>4, <1>6, <2>1 DEF RequestTrue
  <2>2. CASE r \in DOMAIN copies /\ table'[r] = copies[r]
    BY <1>2, <1>4, <1>6, <2>2, IssueSaved DEF RequestTrue
  <2>. QED BY <1>6, <2>1, <2>2 DEF Saved
<1>7. CASE Find(i, "issue")
  <2>. DEFINE rows(b) == [r \in b |-> Started("issue", table[r])]
  <2>1. PICK b \in Batches("issue") : To(i, "issue", "starting", rows(b))
    BY <1>7 DEF Find
  <2>2. table' = table
    BY <1>7 DEF Find
  <2>3. ASSUME NEW r \in b
        PROVE  IssueStage("starting", Started("issue", table[r]), table[r], ledger[r])
    <3>1. r \in DOMAIN table /\ table[r].state = "IssuanceAwaiting"
      BY DEF Batches, Ready, Awaiting
    <3>2. table[r].record = <<>>
      BY <1>4, <3>1 DEF RequestTrue, RowTrue, Unvalidated
    <3>. QED BY <1>2, <3>1, <3>2, StartedFields DEF IssueStage, Truthful, Certified
  <2>4. ASSUME NEW r \in DOMAIN table PROVE After(r, "starting", rows(b))
    <3>1. r \in DOMAIN rows(b) => IssueStage("starting", rows(b)[r], table'[r], ledger[r])
      BY <2>2, <2>3
    <3>. QED BY <1>6, <2>2, <3>1
  <2>. QED BY <1>5, <2>1, <2>4
<1>8. ASSUME table' \in {table, Saved(copies)}, NEW phase, To(i, "issue", phase, <<>>)
      PROVE  Stages(i)'
  BY <1>5, <1>6, <1>8, EmptyTable
<1>9. CASE FindNothing(i, "issue")
  BY <1>8, <1>9 DEF FindNothing, Finished
<1>10. CASE SaveStarted(i, "issue")
  <2>1. To(i, "issue", "acting", copies) /\ round.phase = "starting" /\ table' = Saved(copies)
    BY <1>1, <1>10 DEF SaveStarted, At, round
  <2>2. ASSUME NEW r \in DOMAIN copies
        PROVE  IssueStage("acting", copies[r], table'[r], ledger[r])
    <3>1. table'[r] = copies[r] /\ r \in DOMAIN table
      BY <1>2, <2>1 DEF Saved
    <3>2. /\ RowTrue(table[r], ledger[r], said[r])
          /\ IssueStage("starting", copies[r], table[r], ledger[r])
      BY <1>4, <2>1, <3>1 DEF RequestTrue
    <3>. QED BY <1>2, <3>1, <3>2, IssueSaved
  <2>. QED BY <1>5, <1>6, <2>1, <2>2
<1>11. CASE SaveFinished(i, "issue")
  BY <1>1, <1>8, <1>11 DEF SaveFinished, Finished
<1>12. CASE RepositoryFails(i, "issue")
  <2>. DEFINE rows == [r \in DOMAIN copies |-> Errored("issue", copies[r])]
  <2>1. /\ table' \in {table, Saved(copies)}
        /\ To(i, "issue", "dead", <<>>) \/ To(i, "issue", "failing", rows)
    BY <1>1, <1>12 DEF RepositoryFails
  <2>2. ASSUME NEW r \in DOMAIN copies
        PROVE  IssueStage("failing", Errored("issue", copies[r]), table'[r], ledger[r])
    BY <1>2, <1>4, IssueErrored DEF RequestTrue
  <2>3. \A r \in DOMAIN table : After(r, "failing", rows)
    <3>1. ASSUME NEW r \in DOMAIN table PROVE After(r, "failing", rows)
      <4>1. r \in DOMAIN rows => IssueStage("failing", rows[r], table'[r], ledger[r])
        BY <2>2
      <4>. QED BY <1>6, <2>1, <4>1
    <3>. QED BY <3>1
  <2>. QED BY <1>5, <1>8, <2>1, <2>3
<1>. QED BY <1>7, <1>9, <1>10, <1>11, <1>12 DEF Round, Proceed

\* A validation takes up rows that no transfer has, marks them, and then
\* leaves them to the answers.
LEMMA ValidationKeepsStages ==
  ASSUME Typed, NEW i \in Instances, Stages(i), Round(i, "validate")
  PROVE  Stages(i)'
<1>. DEFINE round    == tasks[<<i, "validate">>]
            copies   == round.copies
            issue    == tasks[<<i, "issue">>]
            transfer == tasks[<<i, "transfer">>]
<1>1. /\ UNCHANGED <<ledger, said>> /\ "validate" \in Kinds
      /\ copies = CopiesOf(i, "validate")
  BY DEF Round, Proceed, Find, FindNothing, SaveStarted, SaveFinished, RepositoryFails, Kinds,
         CopiesOf
<1>2. /\ DOMAIN copies \subseteq DOMAIN table /\ DOMAIN table \subseteq Requests
      /\ \A r \in DOMAIN table : table[r] \in Rows
      /\ \A r \in DOMAIN copies : copies[r] \in Rows
  BY <1>1, CopiesTyped, TableRows DEF Typed
<1>3. DOMAIN table' = DOMAIN table
  BY SavedRows DEF Round, Proceed, Find, FindNothing, SaveStarted, SaveFinished, RepositoryFails
<1>4. \A r \in DOMAIN table :
        RequestTrue(r, table[r], ledger[r], said[r], issue, round, transfer)
  BY DEF Stages
<1>5. \A r \in Requests, v \in Validators :
        lanes'[i][<<r, v>>] \in {"idle", lanes[i][<<r, v>>]} \/ r \in DOMAIN table
  <2>1. CASE lanes' = lanes
    BY <2>1
  <2>2. CASE lanes' = [lanes EXCEPT ![i] = [rv \in DOMAIN @ |->
                        IF rv[1] \in DOMAIN copies THEN "asked" ELSE @[rv]]]
    BY <1>2, <2>2 DEF Typed
  <2>. QED BY <1>1, <2>1, <2>2 DEF Round, Proceed, Find, FindNothing, SaveStarted, SaveFinished,
                                   RepositoryFails
<1>6. round.phase \notin {"acting", "dead"}
  BY DEF Round, Proceed, Find, FindNothing, SaveStarted, SaveFinished, RepositoryFails, At
<1>. DEFINE After(r, phase, rows) ==
       RequestTrue(r, table'[r], ledger[r], said[r], issue,
                   [phase |-> phase, copies |-> rows], transfer)
<1>7. ASSUME NEW phase, NEW rows, To(i, "validate", phase, rows),
             \A r \in DOMAIN table : After(r, phase, rows)
      PROVE  Stages(i)'
  BY <1>1, <1>3, <1>5, <1>7, RoundKeepsStages
<1>. HIDE DEF round, issue, transfer
<1>8. ASSUME table' \in {table, Saved(copies)}, NEW phase, NEW rows, NEW r \in DOMAIN table,
             r \in DOMAIN rows =>
               /\ ValidateStage(phase, rows[r], table'[r], ledger[r], said[r])
               /\ r \in DOMAIN transfer.copies => phase # "starting"
      PROVE  After(r, phase, rows)
  <2>1. CASE table'[r] = table[r]
    BY <1>4, <1>8, <2>1 DEF RequestTrue
  <2>2. CASE r \in DOMAIN copies /\ table'[r] = copies[r]
    <3>1. /\ ValidateStage(round.phase, copies[r], table[r], ledger[r], said[r])
          /\ RowTrue(table[r], ledger[r], said[r])
      BY <1>4, <2>2 DEF RequestTrue
    <3>2. round.phase = "starting"
      BY <1>6, <3>1 DEF ValidateStage
    <3>. QED BY <1>4, <1>8, <2>2, <3>1, <3>2, ValidateSaved DEF RequestTrue
  <2>. QED BY <1>8, <2>1, <2>2 DEF Saved
<1>9. CASE Find(i, "validate")
  <2>. DEFINE rows(b) == [r \in b |-> Started("validate", table[r])]
  <2>1. PICK b \in Batches("validate") : To(i, "validate", "starting", rows(b))
    BY <1>9 DEF Find
  <2>2. table' = table
    BY <1>9 DEF Find
  <2>3. ASSUME NEW r \in b
        PROVE  /\ ValidateStage("starting", Started("validate", table[r]), table[r],
                                ledger[r], said[r])
               /\ r \notin DOMAIN transfer.copies
    <3>1. r \in DOMAIN table /\ table[r].state = "ValidationAwaiting"
      BY DEF Batches, Ready, Awaiting
    <3>2. RowTrue(table[r], ledger[r], said[r])
      BY <1>4, <3>1 DEF RequestTrue
    <3>3. /\ table[r].record = <<>> /\ said[r] = {} /\ ~Bought(ledger[r])
          /\ table[r].cert \in DOMAIN ledger[r]
      BY <3>1, <3>2 DEF RowTrue, Truthful, Certified, Unvalidated, CanHaveMoved
    <3>4. /\ Started("validate", table[r]).cert = table[r].cert
          /\ Started("validate", table[r]).state =
               IF Validators = {} THEN "TransferAwaiting" ELSE "ValidationInProgress"
      BY <1>1, <1>2, <3>1, StartedFields
    <3>5. r \notin DOMAIN transfer.copies
      BY <1>4, <3>1 DEF RequestTrue, TransferStage
    <3>. QED BY <3>1, <3>3, <3>4, <3>5 DEF ValidateStage, Truthful
  <2>4. ASSUME NEW r \in DOMAIN table PROVE After(r, "starting", rows(b))
    <3>1. r \in DOMAIN rows(b) =>
            /\ ValidateStage("starting", rows(b)[r], table'[r], ledger[r], said[r])
            /\ r \notin DOMAIN transfer.copies
      BY <2>2, <2>3
    <3>. QED BY <1>8, <2>2, <3>1
  <2>. QED BY <1>7, <2>1, <2>4
<1>10. ASSUME table' \in {table, Saved(copies)}, NEW phase, To(i, "validate", phase, <<>>)
       PROVE  Stages(i)'
  BY <1>7, <1>8, <1>10, EmptyTable
<1>11. CASE FindNothing(i, "validate")
  BY <1>10, <1>11 DEF FindNothing, Finished
<1>12. CASE SaveStarted(i, "validate")
  <2>1. round.phase = "starting" /\ table' = Saved(copies)
    BY <1>1, <1>12 DEF SaveStarted, At, round
  <2>2. CASE To(i, "validate", "waiting", <<>>)
    BY <1>10, <2>1, <2>2
  <2>3. CASE To(i, "validate", "acting", copies)
    <3>1. ASSUME NEW r \in DOMAIN copies
          PROVE  ValidateStage("acting", copies[r], table'[r], ledger[r], said[r])
      <4>1. table'[r] = copies[r] /\ r \in DOMAIN table
        BY <1>2, <2>1 DEF Saved
      <4>2. /\ RowTrue(table[r], ledger[r], said[r])
            /\ ValidateStage("starting", copies[r], table[r], ledger[r], said[r])
        BY <1>4, <2>1, <4>1 DEF RequestTrue
      <4>. QED BY <4>1, <4>2, ValidateSaved
    <3>2. ASSUME NEW r \in DOMAIN table PROVE After(r, "acting", copies)
      BY <1>8, <2>1, <3>1
    <3>. QED BY <1>7, <2>3, <3>2
  <2>. QED BY <1>1, <1>12, <2>2, <2>3 DEF SaveStarted, Finished
<1>13. CASE SaveFinished(i, "validate")
  BY <1>1, <1>10, <1>13 DEF SaveFinished, Finished
<1>14. CASE RepositoryFails(i, "validate")
  BY <1>1, <1>10, <1>14 DEF RepositoryFails
<1>. QED BY <1>9, <1>11, <1>12, <1>13, <1>14 DEF Round, Proceed

\* A transfer takes up rows that were validated and not yet moved.
LEMMA TransfersKeepStages ==
  ASSUME Typed, NEW i \in Instances, Stages(i), Round(i, "transfer")
  PROVE  Stages(i)'
<1>. DEFINE round    == tasks[<<i, "transfer">>]
            copies   == round.copies
            issue    == tasks[<<i, "issue">>]
            validate == tasks[<<i, "validate">>]
<1>1. /\ UNCHANGED <<ledger, said, lanes>> /\ "transfer" \in Kinds
      /\ copies = CopiesOf(i, "transfer")
  BY DEF Round, Proceed, Find, FindNothing, SaveStarted, SaveFinished, RepositoryFails, Kinds,
         CopiesOf
<1>2. /\ DOMAIN copies \subseteq DOMAIN table /\ DOMAIN table \subseteq Requests
      /\ \A r \in DOMAIN table : table[r] \in Rows
      /\ \A r \in DOMAIN copies : copies[r] \in Rows
  BY <1>1, CopiesTyped, TableRows DEF Typed
<1>3. DOMAIN table' = DOMAIN table
  BY SavedRows DEF Round, Proceed, Find, FindNothing, SaveStarted, SaveFinished, RepositoryFails
<1>4. \A r \in DOMAIN table :
        RequestTrue(r, table[r], ledger[r], said[r], issue, validate, round)
  BY DEF Stages
<1>. DEFINE After(r, phase, rows) ==
       RequestTrue(r, table'[r], ledger[r], said[r], issue, validate,
                   [phase |-> phase, copies |-> rows])
<1>5. ASSUME NEW phase, NEW rows, To(i, "transfer", phase, rows),
             \A r \in DOMAIN table : After(r, phase, rows)
      PROVE  Stages(i)'
  BY <1>1, <1>3, <1>5, RoundKeepsStages
<1>. HIDE DEF round, issue, validate
<1>6. ASSUME table' \in {table, Saved(copies)}, NEW phase, NEW rows, NEW r \in DOMAIN table,
             r \in DOMAIN rows =>
               /\ TransferStage(phase, rows[r], table'[r], ledger[r])
               /\ r \in DOMAIN validate.copies => validate.phase # "starting"
      PROVE  After(r, phase, rows)
  <2>1. CASE table'[r] = table[r]
    BY <1>4, <1>6, <2>1 DEF RequestTrue
  <2>2. CASE r \in DOMAIN copies /\ table'[r] = copies[r]
    <3>1. /\ TransferStage(round.phase, copies[r], table[r], ledger[r])
          /\ RowTrue(table[r], ledger[r], said[r])
          /\ r \in DOMAIN validate.copies => validate.phase # "starting"
      BY <1>4, <2>2 DEF RequestTrue
    <3>. QED BY <1>4, <1>6, <2>2, <3>1, TransferSaved DEF RequestTrue
  <2>. QED BY <1>6, <2>1, <2>2 DEF Saved
<1>7. CASE Find(i, "transfer")
  <2>. DEFINE rows(b) == [r \in b |-> Started("transfer", table[r])]
  <2>1. PICK b \in Batches("transfer") : To(i, "transfer", "starting", rows(b))
    BY <1>7 DEF Find
  <2>2. table' = table
    BY <1>7 DEF Find
  <2>3. ASSUME NEW r \in b
        PROVE  /\ TransferStage("starting", Started("transfer", table[r]), table[r], ledger[r])
               /\ r \in DOMAIN validate.copies => validate.phase # "starting"
    <3>1. r \in DOMAIN table /\ table[r].state = "TransferAwaiting"
      BY DEF Batches, Ready, Awaiting
    <3>2. RowTrue(table[r], ledger[r], said[r])
      BY <1>4, <3>1 DEF RequestTrue
    <3>3. ~Bought(ledger[r]) /\ table[r].cert \in DOMAIN ledger[r]
      BY <3>1, <3>2 DEF RowTrue, Truthful, Certified, CanHaveMoved
    <3>4. /\ Started("transfer", table[r]).cert = table[r].cert
          /\ Started("transfer", table[r]).state = "TransferInProgress"
      BY <1>1, <1>2, <3>1, StartedFields
    <3>5. r \in DOMAIN validate.copies => validate.phase # "starting"
      BY <1>4, <3>1 DEF RequestTrue, ValidateStage
    <3>. QED BY <3>1, <3>3, <3>4, <3>5 DEF TransferStage, Truthful
  <2>4. ASSUME NEW r \in DOMAIN table PROVE After(r, "starting", rows(b))
    <3>1. r \in DOMAIN rows(b) =>
            /\ TransferStage("starting", rows(b)[r], table'[r], ledger[r])
            /\ r \in DOMAIN validate.copies => validate.phase # "starting"
      BY <2>2, <2>3
    <3>. QED BY <1>6, <2>2, <3>1
  <2>. QED BY <1>5, <2>1, <2>4
<1>8. ASSUME table' \in {table, Saved(copies)}, NEW phase, To(i, "transfer", phase, <<>>)
      PROVE  Stages(i)'
  BY <1>5, <1>6, <1>8, EmptyTable
<1>9. CASE FindNothing(i, "transfer")
  BY <1>8, <1>9 DEF FindNothing, Finished
<1>10. CASE SaveStarted(i, "transfer")
  <2>1. To(i, "transfer", "acting", copies) /\ round.phase = "starting" /\ table' = Saved(copies)
    BY <1>1, <1>10 DEF SaveStarted, At, round
  <2>2. ASSUME NEW r \in DOMAIN copies
        PROVE  /\ TransferStage("acting", copies[r], table'[r], ledger[r])
               /\ r \in DOMAIN validate.copies => validate.phase # "starting"
    <3>1. table'[r] = copies[r] /\ r \in DOMAIN table
      BY <1>2, <2>1 DEF Saved
    <3>2. /\ RowTrue(table[r], ledger[r], said[r])
          /\ TransferStage("starting", copies[r], table[r], ledger[r])
          /\ r \in DOMAIN validate.copies => validate.phase # "starting"
      BY <1>4, <2>1, <3>1 DEF RequestTrue
    <3>. QED BY <3>1, <3>2, TransferSaved
  <2>. QED BY <1>5, <1>6, <2>1, <2>2
<1>11. CASE SaveFinished(i, "transfer")
  BY <1>1, <1>8, <1>11 DEF SaveFinished, Finished
<1>12. CASE RepositoryFails(i, "transfer")
  BY <1>1, <1>8, <1>12 DEF RepositoryFails
<1>. QED BY <1>7, <1>9, <1>10, <1>11, <1>12 DEF Round, Proceed

\* A certificate more, or one that is spent, changes nothing for the rows.
LEMMA HeldStages ==
  ASSUME NEW held, NEW more, DOMAIN held \subseteq DOMAIN more, Bought(more) <=> Bought(held)
  PROVE  /\ \A row : Truthful(row, held) => Truthful(row, more)
         /\ \A row, answers : RowTrue(row, held, answers) => RowTrue(row, more, answers)
         /\ \A p, c, row : IssueStage(p, c, row, held) => IssueStage(p, c, row, more)
         /\ \A p, c, row, answers :
              ValidateStage(p, c, row, held, answers) => ValidateStage(p, c, row, more, answers)
         /\ \A p, c, row : TransferStage(p, c, row, held) => TransferStage(p, c, row, more)
<1>1. \A row : Truthful(row, held) => Truthful(row, more)
  BY DEF Truthful
<1>. QED BY <1>1 DEF RowTrue, IssueStage, ValidateStage, TransferStage

\* What a transfer moves may have moved.
LEMMA MovedStages ==
  ASSUME NEW held, NEW more, DOMAIN held \subseteq DOMAIN more, Bought(more),
         NEW row, NEW copy, NEW answers, TransferStage("acting", copy, row, held)
  PROVE  /\ RowTrue(row, held, answers) => RowTrue(row, more, answers)
         /\ \A p, c : IssueStage(p, c, row, held) => IssueStage(p, c, row, more)
         /\ \A p, c : p # "starting" /\ ValidateStage(p, c, row, held, answers)
                        => ValidateStage(p, c, row, more, answers)
         /\ Truthful(copy, more)
         /\ row.state # "TransferAwaiting"
<1>1. row.state \in CanHaveMoved /\ row.state # "Transferred"
  BY DEF TransferStage, CanHaveMoved
<1>2. \A any : Truthful(any, held) => Truthful(any, more)
  BY DEF Truthful
<1>3. RowTrue(row, held, answers) => RowTrue(row, more, answers)
  BY <1>1, <1>2 DEF RowTrue
<1>4. \A p, c : IssueStage(p, c, row, held) => IssueStage(p, c, row, more)
  BY <1>2 DEF IssueStage
<1>5. \A p, c : p # "starting" /\ ValidateStage(p, c, row, held, answers)
                  => ValidateStage(p, c, row, more, answers)
  BY DEF ValidateStage
<1>. QED BY <1>2, <1>3, <1>4, <1>5 DEF TransferStage

\* The next certificate, at the seller.
LEMMA AppendedHeld ==
  ASSUME NEW held \in Seq(Holders)
  PROVE  /\ DOMAIN held \subseteq DOMAIN Append(held, "seller")
         /\ Len(held) + 1 \in DOMAIN Append(held, "seller")
         /\ Bought(Append(held, "seller")) <=> Bought(held)
<1>. DEFINE more == Append(held, "seller")
<1>1. /\ Len(held) \in Nat /\ DOMAIN held = 1..Len(held)
      /\ Len(more) = Len(held) + 1 /\ DOMAIN more = 1..Len(more)
      /\ more[Len(held) + 1] = "seller"
      /\ \A c \in 1..Len(held) : more[c] = held[c]
  BY AppendProperties, LenProperties, "seller" \in Holders DEF Holders
<1>. HIDE DEF more
<1>2. DOMAIN held \subseteq DOMAIN more /\ Len(held) + 1 \in DOMAIN more
  BY <1>1
<1>3. Bought(more) <=> Bought(held)
  <2>1. \A c \in DOMAIN more : c \in DOMAIN held \/ c = Len(held) + 1
    BY <1>1
  <2>2. \A c \in DOMAIN held : more[c] = held[c]
    BY <1>1
  <2>. QED BY <1>1, <1>2, <2>1, <2>2 DEF Bought
<1>. QED BY <1>2, <1>3 DEF more

\* One that changes hands.
LEMMA ReplacedHeld ==
  ASSUME NEW held \in Seq(Holders), NEW c \in DOMAIN held, NEW holder \in Holders,
         NEW more, more = [held EXCEPT ![c] = holder]
  PROVE  /\ DOMAIN more = DOMAIN held
         /\ holder = "buyer" => Bought(more)
         /\ holder # "buyer" /\ held[c] # "buyer" => (Bought(more) <=> Bought(held))
BY DEF Bought

\* An issuance that answers or fails.
LEMMA IssuingKeepsStages ==
  ASSUME Typed, NEW i \in Instances, Stages(i), BatchIssue(i) \/ BatchIssueFails(i)
  PROVE  Stages(i)'
<1>. DEFINE round    == tasks[<<i, "issue">>]
            copies   == round.copies
            validate == tasks[<<i, "validate">>]
            transfer == tasks[<<i, "transfer">>]
            issued   == [r \in DOMAIN copies |-> Persisted(copies[r], Len(ledger[r]) + 1)]
            errored  == [r \in DOMAIN copies |-> Errored("issue", copies[r])]
<1>1. /\ UNCHANGED <<table, said, lanes>> /\ "issue" \in Kinds
      /\ copies = CopiesOf(i, "issue") /\ round.phase = "acting"
      /\ ledger' \in {ledger, Issued(copies)}
      /\ \/ To(i, "issue", "finishing", issued) /\ ledger' = Issued(copies)
         \/ To(i, "issue", "failing", errored)
  BY DEF BatchIssue, BatchIssueFails, Kinds, CopiesOf, At
<1>2. /\ DOMAIN copies \subseteq DOMAIN table /\ DOMAIN table \subseteq Requests
      /\ \A r \in DOMAIN copies : copies[r] \in Rows
      /\ \A r \in Requests : ledger[r] \in Seq(Holders)
  BY <1>1, CopiesTyped, TableRows DEF Typed
<1>3. \A r \in DOMAIN table :
        RequestTrue(r, table[r], ledger[r], said[r], round, validate, transfer)
  BY DEF Stages
<1>. HIDE DEF round, validate, transfer
<1>4. ASSUME NEW r \in Requests
      PROVE  /\ DOMAIN ledger[r] \subseteq DOMAIN ledger'[r]
             /\ Bought(ledger'[r]) <=> Bought(ledger[r])
             /\ r \notin DOMAIN copies => ledger'[r] = ledger[r]
             /\ ledger' = Issued(copies) /\ r \in DOMAIN copies
                  => Len(ledger[r]) + 1 \in DOMAIN ledger'[r]
  <2>1. ledger'[r] \in {ledger[r], Append(ledger[r], "seller")}
    BY <1>1 DEF Issued
  <2>2. /\ r \notin DOMAIN copies => ledger'[r] = ledger[r]
        /\ ledger' = Issued(copies) /\ r \in DOMAIN copies => ledger'[r] = Append(ledger[r], "seller")
    BY <1>1 DEF Issued
  <2>. QED BY <1>2, <2>1, <2>2, AppendedHeld
<1>5. ASSUME NEW phase, NEW rows, To(i, "issue", phase, rows),
             \A r \in DOMAIN table :
               RequestTrue(r, table[r], ledger'[r], said[r],
                           [phase |-> phase, copies |-> rows], validate, transfer)
      PROVE  Stages(i)'
  BY <1>1, <1>2, <1>4, <1>5, RoundKeepsStages DEF validate, transfer
<1>6. ASSUME NEW phase, NEW rows, NEW r \in DOMAIN table, DOMAIN rows = DOMAIN copies,
             r \in DOMAIN rows => IssueStage(phase, rows[r], table[r], ledger'[r])
      PROVE  RequestTrue(r, table[r], ledger'[r], said[r],
                         [phase |-> phase, copies |-> rows], validate, transfer)
  <2>1. DOMAIN ledger[r] \subseteq DOMAIN ledger'[r] /\ (Bought(ledger'[r]) <=> Bought(ledger[r]))
    BY <1>2, <1>4
  <2>. QED BY <1>3, <1>6, <2>1, HeldStages DEF RequestTrue
<1>7. CASE To(i, "issue", "finishing", issued) /\ ledger' = Issued(copies)
  <2>1. ASSUME NEW r \in DOMAIN copies
        PROVE  IssueStage("finishing", issued[r], table[r], ledger'[r])
    <3>1. IssueStage("acting", copies[r], table[r], ledger[r])
      BY <1>1, <1>2, <1>3 DEF RequestTrue
    <3>2. Len(ledger[r]) + 1 \in DOMAIN ledger'[r]
      BY <1>2, <1>4, <1>7
    <3>. QED BY <1>2, <3>1, <3>2, PersistedFields DEF IssueStage, Truthful
  <2>. HIDE DEF issued
  <2>2. ASSUME NEW r \in DOMAIN table
        PROVE  RequestTrue(r, table[r], ledger'[r], said[r],
                           [phase |-> "finishing", copies |-> issued], validate, transfer)
    BY <1>6, <2>1 DEF issued
  <2>. QED BY <1>5, <1>7, <2>2
<1>8. CASE To(i, "issue", "failing", errored)
  <2>1. ASSUME NEW r \in DOMAIN copies
        PROVE  IssueStage("failing", errored[r], table[r], ledger'[r])
    <3>1. IssueStage("acting", copies[r], table[r], ledger[r])
      BY <1>1, <1>2, <1>3 DEF RequestTrue
    <3>. QED BY <1>2, <1>4, <3>1, IssueErrored, HeldStages
  <2>. HIDE DEF errored
  <2>2. ASSUME NEW r \in DOMAIN table
        PROVE  RequestTrue(r, table[r], ledger'[r], said[r],
                           [phase |-> "failing", copies |-> errored], validate, transfer)
    BY <1>6, <2>1 DEF errored
  <2>. QED BY <1>5, <1>8, <2>2
<1>. QED BY <1>1, <1>7, <1>8

\* A transfer that answers or fails.
LEMMA TransferringKeepsStages ==
  ASSUME Typed, NEW i \in Instances, Stages(i), BatchTransfer(i) \/ BatchTransferFails(i)
  PROVE  Stages(i)'
<1>. DEFINE round    == tasks[<<i, "transfer">>]
            copies   == round.copies
            issue    == tasks[<<i, "issue">>]
            validate == tasks[<<i, "validate">>]
            done     == [r \in DOMAIN copies |-> [copies[r] EXCEPT !.state = "Transferred"]]
            errored  == [r \in DOMAIN copies |-> Errored("transfer", copies[r])]
<1>1. /\ UNCHANGED <<table, said, lanes>> /\ "transfer" \in Kinds
      /\ copies = CopiesOf(i, "transfer") /\ round.phase = "acting"
      /\ ledger' = ledger \/ (Accepted(copies) /\ ledger' = Moved(copies))
      /\ \/ To(i, "transfer", "finishing", done) /\ Accepted(copies) /\ ledger' = Moved(copies)
         \/ To(i, "transfer", "finishing", errored)
  <2>1. "transfer" \in Kinds
    BY DEF Kinds
  <2>2. CASE BatchTransfer(i)
    BY <2>1, <2>2 DEF BatchTransfer, CopiesOf, At
  <2>3. CASE BatchTransferFails(i)
    <3>1. UNCHANGED <<table, said, lanes>> /\ round.phase = "acting"
      BY <2>3 DEF BatchTransferFails, At
    <3>2. ledger' = ledger \/ (Accepted(copies) /\ ledger' = Moved(copies))
      BY <2>3 DEF BatchTransferFails, CopiesOf
    <3>3. To(i, "transfer", "finishing", errored) /\ copies = CopiesOf(i, "transfer")
      BY <2>3 DEF BatchTransferFails, CopiesOf
    <3>. QED BY <2>1, <3>1, <3>2, <3>3
  <2>. QED BY <2>2, <2>3
<1>2. /\ DOMAIN copies \subseteq DOMAIN table /\ DOMAIN table \subseteq Requests
      /\ \A r \in DOMAIN copies : copies[r] \in Rows
      /\ \A r \in Requests : ledger[r] \in Seq(Holders)
  BY <1>1, CopiesTyped, TableRows DEF Typed
<1>3. \A r \in DOMAIN table :
        RequestTrue(r, table[r], ledger[r], said[r], issue, validate, round)
  BY DEF Stages
<1>. HIDE DEF round, issue, validate
<1>4. ASSUME NEW r \in Requests
      PROVE  /\ \/ ledger'[r] = ledger[r]
                \/ DOMAIN ledger[r] \subseteq DOMAIN ledger'[r] /\ Bought(ledger'[r])
             /\ ledger' = Moved(copies) /\ Accepted(copies) /\ r \in DOMAIN copies
                  => Bought(ledger'[r])
             /\ r \notin DOMAIN copies => ledger'[r] = ledger[r]
  <2>1. CASE ledger' = Moved(copies) /\ Accepted(copies) /\ r \in DOMAIN copies
    <3>1. /\ ledger'[r] = [ledger[r] EXCEPT ![copies[r].cert] = "buyer"]
          /\ copies[r].cert \in DOMAIN ledger[r]
      BY <2>1 DEF Moved, Accepted
    <3>. QED BY <1>2, <2>1, <3>1, ReplacedHeld DEF Holders
  <2>2. CASE ledger' = Moved(copies) /\ r \notin DOMAIN copies
    BY <2>2 DEF Moved
  <2>3. CASE ledger' = ledger /\ ~(ledger' = Moved(copies) /\ Accepted(copies))
    BY <2>3
  <2>. QED BY <1>1, <2>1, <2>2, <2>3
<1>5. ASSUME NEW rows, To(i, "transfer", "finishing", rows), DOMAIN rows = DOMAIN copies,
             \A r \in DOMAIN rows :
               /\ rows[r].state \in {"Transferred", "TransferError"}
               /\ rows[r].cert = copies[r].cert
               /\ rows[r].state = "Transferred" => Accepted(copies) /\ ledger' = Moved(copies)
      PROVE  Stages(i)'
  <2>1. ASSUME NEW r \in DOMAIN table
        PROVE  RequestTrue(r, table[r], ledger'[r], said[r], issue, validate,
                           [phase |-> "finishing", copies |-> rows])
    <3>1. RequestTrue(r, table[r], ledger[r], said[r], issue, validate, round)
      BY <1>3
    <3>2. CASE r \notin DOMAIN copies
      <4>1. ledger'[r] = ledger[r]
        BY <1>2, <1>4, <3>2
      <4>. QED BY <1>5, <3>1, <3>2, <4>1 DEF RequestTrue
    <3>3. CASE r \in DOMAIN copies
      <4>1. /\ TransferStage("acting", copies[r], table[r], ledger[r])
            /\ r \in DOMAIN validate.copies => validate.phase # "starting"
        BY <1>1, <3>1, <3>3 DEF RequestTrue
      <4>2. CASE ledger'[r] = ledger[r]
        <5>1. rows[r].state = "Transferred" => Bought(ledger'[r])
          BY <1>2, <1>4, <1>5, <3>3
        <5>2. TransferStage("finishing", rows[r], table[r], ledger[r])
          BY <1>5, <3>3, <4>1, <4>2, <5>1 DEF TransferStage, Truthful, Certified
        <5>. QED BY <3>1, <4>1, <4>2, <5>2 DEF RequestTrue
      <4>3. CASE Bought(ledger'[r]) /\ DOMAIN ledger[r] \subseteq DOMAIN ledger'[r]
        <5>1. /\ RowTrue(table[r], ledger'[r], said[r])
              /\ \A p, c : IssueStage(p, c, table[r], ledger[r])
                             => IssueStage(p, c, table[r], ledger'[r])
              /\ \A p, c : p # "starting" /\ ValidateStage(p, c, table[r], ledger[r], said[r])
                             => ValidateStage(p, c, table[r], ledger'[r], said[r])
              /\ Truthful(copies[r], ledger'[r])
              /\ table[r].state # "TransferAwaiting"
          BY <3>1, <4>1, <4>3, MovedStages DEF RequestTrue
        <5>2. TransferStage("finishing", rows[r], table[r], ledger'[r])
          BY <1>5, <3>3, <4>1, <4>3, <5>1 DEF TransferStage, Truthful, Certified
        <5>. QED BY <3>1, <4>1, <5>1, <5>2 DEF RequestTrue
      <4>. QED BY <1>2, <1>4, <3>3, <4>2, <4>3
    <3>. QED BY <3>2, <3>3
  <2>. QED BY <1>1, <1>2, <1>4, <1>5, <2>1, RoundKeepsStages DEF issue, validate, Moved
<1>6. CASE To(i, "transfer", "finishing", done) /\ Accepted(copies) /\ ledger' = Moved(copies)
  <2>1. \A r \in DOMAIN done : done[r].state = "Transferred" /\ done[r].cert = copies[r].cert
    BY <1>2 DEF Rows
  <2>. HIDE DEF done
  <2>2. DOMAIN done = DOMAIN copies
    BY DEF done
  <2>. QED BY <1>5, <1>6, <2>1, <2>2
<1>7. CASE To(i, "transfer", "finishing", errored)
  <2>1. \A r \in DOMAIN errored :
          errored[r].state = "TransferError" /\ errored[r].cert = copies[r].cert
    BY <1>2 DEF Rows, Errored, Failure
  <2>. HIDE DEF errored
  <2>2. DOMAIN errored = DOMAIN copies
    BY DEF errored
  <2>. QED BY <1>5, <1>7, <2>1, <2>2
<1>. QED BY <1>1, <1>6, <1>7

\* A step that moves no round.
LEMMA RestKeepsStages ==
  ASSUME Typed, NEW i \in Instances, Stages(i), UNCHANGED tasks, DOMAIN table' = DOMAIN table,
         \A r \in Requests, v \in Validators :
           lanes'[i][<<r, v>>] = lanes[i][<<r, v>>] \/ r \in DOMAIN table,
         \A r \in Requests \ DOMAIN table : ~Bought(ledger'[r]) /\ said'[r] = {},
         \A r \in DOMAIN table :
           RequestTrue(r, table'[r], ledger'[r], said'[r], tasks[<<i, "issue">>],
                       tasks[<<i, "validate">>], tasks[<<i, "transfer">>])
  PROVE  Stages(i)'
BY DEF Stages

\* Storing an answer, or not.
LEMMA AnswersKeepStages ==
  ASSUME Typed, NEW i \in Instances, Stages(i), NEW r \in DOMAIN table,
         NEW v \in Validators, v \in DOMAIN table[r].record, NEW answer \in Answers,
         \/ UNCHANGED <<table, said>>
         \/ table' = StoredAnswer(r, v, answer) /\ said' = SaidNow(r, v, answer),
         \A q \in Requests, w \in Validators :
           lanes'[i][<<q, w>>] = lanes[i][<<q, w>>] \/ q \in DOMAIN table,
         UNCHANGED <<ledger, tasks>>
  PROVE  Stages(i)'
<1>. DEFINE issue    == tasks[<<i, "issue">>]
            validate == tasks[<<i, "validate">>]
            transfer == tasks[<<i, "transfer">>]
<1>1. /\ \A q \in DOMAIN table :
           RequestTrue(q, table[q], ledger[q], said[q], issue, validate, transfer)
      /\ \A q \in Requests \ DOMAIN table : ~Bought(ledger[q]) /\ said[q] = {}
  BY DEF Stages
<1>2. /\ table[r] \in Rows /\ r \in Requests
      /\ table = [q \in DOMAIN table |-> table[q]]
      /\ said \in [Requests -> SUBSET (Validators \X Answers)]
  BY TableRows DEF Typed
<1>. HIDE DEF issue, validate, transfer
<1>3. CASE UNCHANGED <<table, said>>
  BY <1>1, <1>3, RestKeepsStages DEF issue, validate, transfer
<1>4. CASE /\ table[r].record[v] = "pending"
           /\ table' = StoredAnswer(r, v, answer) /\ said' = SaidNow(r, v, answer)
  <2>. DEFINE new  == Answered(table[r], v, answer)
              more == IF answer = "pending" THEN said[r] ELSE said[r] \cup {<<v, answer>>}
  <2>1. /\ DOMAIN table' = DOMAIN table
        /\ \A q \in DOMAIN table : table'[q] = IF q = r THEN new ELSE table[q]
    BY <1>2, <1>4 DEF StoredAnswer
  <2>2. \A q \in Requests : said'[q] = IF q = r THEN more ELSE said[q]
    BY <1>2, <1>4 DEF SaidNow
  <2>. HIDE DEF new
  <2>3. /\ RowTrue(new, ledger[r], more)
        /\ \A p, c : IssueStage(p, c, table[r], ledger[r]) => IssueStage(p, c, new, ledger[r])
        /\ \A p, c : ValidateStage(p, c, table[r], ledger[r], said[r])
                       => ValidateStage(p, c, new, ledger[r], more)
        /\ \A p, c : TransferStage(p, c, table[r], ledger[r])
                       => TransferStage(p, c, new, ledger[r])
    <3>1. RowTrue(table[r], ledger[r], said[r]) /\ said[r] \in SUBSET (Validators \X Answers)
      BY <1>1, <1>2 DEF RequestTrue
    <3>. QED BY <1>2, <1>4, <3>1, AnswerSaved DEF new
  <2>. HIDE DEF more
  <2>4. RequestTrue(r, new, ledger[r], more, issue, validate, transfer)
    BY <1>1, <2>3 DEF RequestTrue
  <2>5. ASSUME NEW q \in DOMAIN table
        PROVE  RequestTrue(q, table'[q], ledger'[q], said'[q], issue, validate, transfer)
    <3>1. q \in Requests
      BY TableRows DEF Typed
    <3>. QED BY <1>1, <2>1, <2>2, <2>4, <3>1
  <2>6. \A q \in Requests \ DOMAIN table : ~Bought(ledger'[q]) /\ said'[q] = {}
    BY <1>1, <2>2
  <2>. QED BY <2>1, <2>5, <2>6, RestKeepsStages DEF issue, validate, transfer
<1>5. CASE table[r].record[v] # "pending"
  BY <1>3, <1>5 DEF StoredAnswer, SaidNow
<1>. QED BY <1>3, <1>4, <1>5

\* Answers, and the copies that a catch writes back.
LEMMA ValidatingKeepsStages ==
  ASSUME Typed, NEW i \in Instances, Stages(i), Validating(i)
  PROVE  Stages(i)'
<1>. DEFINE round    == tasks[<<i, "validate">>]
            copies   == round.copies
            issue    == tasks[<<i, "issue">>]
            transfer == tasks[<<i, "transfer">>]
<1>1. /\ copies = CopiesOf(i, "validate") /\ "validate" \in Kinds
      /\ DOMAIN table \subseteq Requests
  BY TableRows DEF CopiesOf, Kinds, Typed
<1>2. \A r \in DOMAIN copies : copies[r] \in Rows /\ r \in DOMAIN table
  BY <1>1, CopiesTyped, TableRows
<1>3. /\ \A r \in DOMAIN table :
           RequestTrue(r, table[r], ledger[r], said[r], issue, round, transfer)
      /\ \A r \in Requests, v \in Validators : lanes[i][<<r, v>>] # "idle" => r \in DOMAIN table
  BY DEF Stages
<1>4. ASSUME NEW r \in Requests, NEW v \in Validators, NEW answer \in Answers,
             Answer(i, r, v, answer) \/ AnswerFails(i, r, v, answer)
      PROVE  Stages(i)'
  <2>1. r \in DOMAIN table
    BY <1>3, <1>4 DEF Answer, AnswerFails
  <2>2. UNCHANGED <<ledger, tasks>>
    BY <1>4 DEF Answer, AnswerFails
  <2>3. \A q \in Requests, w \in Validators :
          lanes'[i][<<q, w>>] = lanes[i][<<q, w>>] \/ q \in DOMAIN table
    BY <1>4, <2>1 DEF Answer, AnswerFails, Lane, Typed
  <2>4. \/ UNCHANGED <<table, said>>
        \/ /\ v \in DOMAIN table[r].record
           /\ table' = StoredAnswer(r, v, answer) /\ said' = SaidNow(r, v, answer)
    BY <1>4 DEF Answer, AnswerFails
  <2>5. CASE UNCHANGED <<table, said>>
    BY <2>2, <2>3, <2>5, RestKeepsStages DEF Stages
  <2>. QED BY <2>1, <2>2, <2>3, <2>4, <2>5, AnswersKeepStages
<1>. DEFINE After(r, phase, rows) ==
       RequestTrue(r, table'[r], ledger[r], said[r], issue,
                   [phase |-> phase, copies |-> rows], transfer)
<1>5. ASSUME NEW phase, NEW rows, To(i, "validate", phase, rows),
             UNCHANGED <<ledger, said, lanes>>, DOMAIN table' = DOMAIN table,
             \A r \in DOMAIN table : After(r, phase, rows)
      PROVE  Stages(i)'
  BY <1>1, <1>5, RoundKeepsStages
<1>. HIDE DEF round, issue, transfer
<1>6. ASSUME NEW r \in Requests, Catch(i, r) \/ CatchFails(i, r)
      PROVE  Stages(i)'
  <2>. DEFINE rest   == [q \in DOMAIN copies \ {r} |-> copies[q]]
              caught == Errored("validate", copies[r])
  <2>1. /\ r \in DOMAIN copies /\ round.phase \in {"acting", "dead"}
        /\ table' \in {table, Saved(CaughtCopy(i, r))}
        /\ UNCHANGED <<ledger, said, lanes>>
    BY <1>1, <1>6 DEF Catch, CatchFails, round
  <2>2. PICK phase \in {"acting", "dead"} : To(i, "validate", phase, rest)
    BY <1>1, <1>6, <2>1 DEF Catch, CatchFails, Forget, round
  <2>3. /\ DOMAIN table' = DOMAIN table
        /\ \A q \in DOMAIN table : table'[q] = table[q] \/ (q = r /\ table'[q] = caught)
    BY <1>1, <2>1 DEF Saved, CaughtCopy
  <2>4. caught.state = "ValidationError"
    BY <1>2, <2>1, ErroredFields
  <2>. HIDE DEF caught
  <2>5. ASSUME NEW q \in DOMAIN table PROVE After(q, phase, rest)
    <3>1. RequestTrue(q, table[q], ledger[q], said[q], issue, round, transfer)
      BY <1>3
    <3>2. CASE table'[q] = table[q]
      BY <2>1, <3>1, <3>2 DEF RequestTrue, ValidateStage
    <3>3. CASE q = r /\ table'[q] = caught
      <4>1. /\ ValidateStage(round.phase, copies[r], table[r], ledger[r], said[r])
            /\ RowTrue(table[r], ledger[r], said[r])
        BY <1>2, <1>3, <2>1 DEF RequestTrue
      <4>. QED BY <2>1, <2>4, <3>1, <3>3, <4>1, CaughtSaved DEF RequestTrue
    <3>. QED BY <2>3, <3>2, <3>3
  <2>. QED BY <1>5, <2>1, <2>2, <2>3, <2>5
<1>7. CASE EndValidation(i)
  <2>1. /\ To(i, "validate", "waiting", <<>>)
        /\ UNCHANGED <<table, ledger, said, lanes>>
    BY <1>7 DEF EndValidation, Finished
  <2>2. \A r \in DOMAIN table : After(r, "waiting", <<>>)
    BY <1>3, <2>1, EmptyTable DEF RequestTrue
  <2>. QED BY <1>5, <2>1, <2>2
<1>. QED BY <1>4, <1>6, <1>7 DEF Validating

\* A new request has no answers and no certificate.
LEMMA OutsideKeepsStages ==
  ASSUME Typed, NEW i, Instances = {i}, Stages(i), Outside(i)
  PROVE  Stages(i)'
<1>1. ASSUME NEW r \in Requests, NEW empty \in BOOLEAN, NEW same \in BOOLEAN,
             Reading(i, r, empty, same)
      PROVE  Stages(i)'
  <2>1. /\ r \notin DOMAIN table
        /\ DOMAIN table' = DOMAIN table \cup {r}
        /\ \A q \in DOMAIN table' : table'[q] = IF q = r THEN NewRow(empty, same) ELSE table[q]
        /\ UNCHANGED <<ledger, said, tasks, lanes>>
    BY <1>1 DEF Reading
  <2>2. \A k \in Kinds : DOMAIN tasks[<<i, k>>].copies \subseteq DOMAIN table
    BY DEF Typed, RoundsOK
  <2>3. RowTrue(NewRow(empty, same), ledger[r], said[r])
    BY <2>1 DEF Stages, RowTrue, Truthful, NewRow, Certified, Unvalidated
  <2>4. RequestTrue(r, NewRow(empty, same), ledger[r], said[r], tasks[<<i, "issue">>],
                    tasks[<<i, "validate">>], tasks[<<i, "transfer">>])
    BY <2>1, <2>2, <2>3 DEF RequestTrue, Kinds
  <2>5. \A q \in DOMAIN table' :
          RequestTrue(q, table'[q], ledger[q], said[q], tasks[<<i, "issue">>],
                      tasks[<<i, "validate">>], tasks[<<i, "transfer">>])
    BY <2>1, <2>4 DEF Stages
  <2>6. /\ \A q \in Requests \ DOMAIN table' : ~Bought(ledger[q]) /\ said[q] = {}
        /\ \A q \in Requests, v \in Validators :
             lanes[i][<<q, v>>] # "idle" => q \in DOMAIN table'
    BY <2>1 DEF Stages
  <2>. QED BY <2>1, <2>5, <2>6 DEF Stages
<1>2. ASSUME NEW r \in Requests, NEW v \in Validators, NEW answer \in Answers,
             Update(i, r, v, answer)
      PROVE  Stages(i)'
  BY <1>2, AnswersKeepStages DEF Update
<1>. QED BY <1>1, <1>2 DEF Outside

\* A restart forgets every round and every question.
LEMMA CrashKeepsStages ==
  ASSUME Typed, NEW i, Instances = {i}, Stages(i), Crash(i)
  PROVE  Stages(i)'
<1>1. UNCHANGED <<table, ledger, said>>
  BY DEF Crash
<1>2. \A k \in Kinds : tasks'[<<i, k>>] = NoRound
  BY DEF Crash, Typed, RoundsOK
<1>3. /\ tasks'[<<i, "issue">>].copies = <<>> /\ tasks'[<<i, "validate">>].copies = <<>>
      /\ tasks'[<<i, "transfer">>].copies = <<>>
  BY <1>2 DEF NoRound, Kinds
<1>4. \A r \in Requests, v \in Validators : lanes'[i][<<r, v>>] = "idle"
  BY DEF Crash, NoLanes, Typed
<1>5. \A r \in DOMAIN table :
        RequestTrue(r, table[r], ledger[r], said[r], tasks'[<<i, "issue">>],
                    tasks'[<<i, "validate">>], tasks'[<<i, "transfer">>])
  BY <1>3, EmptyTable DEF Stages, RequestTrue
<1>. QED BY <1>1, <1>4, <1>5 DEF Stages

\* A certificate that the seller uses elsewhere.
LEMMA SpendKeepsStages ==
  ASSUME Typed, NEW i \in Instances, Stages(i), NEW r \in Requests, Spend(r)
  PROVE  Stages(i)'
<1>1. UNCHANGED <<table, said, tasks, lanes>>
  BY DEF Spend
<1>2. ASSUME NEW q \in Requests
      PROVE  DOMAIN ledger'[q] = DOMAIN ledger[q] /\ (Bought(ledger'[q]) <=> Bought(ledger[q]))
  <2>1. ledger \in [Requests -> Seq(Holders)] /\ "spent" \in Holders
    BY DEF Typed, Holders
  <2>2. PICK c \in DOMAIN ledger[r] : /\ ledger[r][c] = "seller"
                                      /\ ledger' = [ledger EXCEPT ![r] = [@ EXCEPT ![c] = "spent"]]
    BY DEF Spend
  <2>3. CASE q = r
    <3>1. /\ ledger[r] \in Seq(Holders) /\ "spent" # "buyer" /\ ledger[r][c] # "buyer"
          /\ ledger'[r] = [ledger[r] EXCEPT ![c] = "spent"]
      BY <2>1, <2>2
    <3>. QED BY <2>1, <2>3, <3>1, ReplacedHeld
  <2>4. CASE q # r
    BY <2>1, <2>2, <2>4
  <2>. QED BY <2>3, <2>4
<1>3. DOMAIN table \subseteq Requests
  BY TableRows DEF Typed
<1>4. \A q \in DOMAIN table :
        RequestTrue(q, table[q], ledger'[q], said[q], tasks[<<i, "issue">>],
                    tasks[<<i, "validate">>], tasks[<<i, "transfer">>])
  BY <1>2, <1>3, HeldStages DEF Stages, RequestTrue
<1>5. \A q \in Requests \ DOMAIN table : ~Bought(ledger'[q]) /\ said'[q] = {}
  BY <1>1, <1>2 DEF Stages
<1>. QED BY <1>1, <1>4, <1>5, RestKeepsStages

\* Every step keeps the stages, when there is one instance.
LEMMA StepKeepsStages ==
  ASSUME NEW i, Instances = {i}, Typed, Stages(i), [PipelineNext]_pipelineVars
  PROVE  Stages(i)'
<1>1. CASE UNCHANGED pipelineVars
  BY <1>1 DEF pipelineVars, Stages
<1>2. CASE Serving(i)
  BY <1>2, IssuanceKeepsStages, ValidationKeepsStages, TransfersKeepStages, IssuingKeepsStages,
     TransferringKeepsStages, ValidatingKeepsStages, CrashKeepsStages DEF Serving, Kinds
<1>. QED BY <1>1, <1>2, OutsideKeepsStages, SpendKeepsStages DEF PipelineNext

\* They hold from the start.
LEMMA InitStages ==
  ASSUME NEW i, Instances = {i}, PipelineInit
  PROVE  Stages(i)
<1>1. DOMAIN table = {}
  BY EmptyTable DEF PipelineInit
<1>2. \A r \in Requests : ~Bought(ledger[r]) /\ said[r] = {}
  BY EmptyTable DEF PipelineInit, Bought
<1>3. \A r \in Requests, v \in Validators : lanes[i][<<r, v>>] = "idle"
  BY DEF PipelineInit, NoLanes
<1>. QED BY <1>1, <1>2, <1>3 DEF Stages

\* With one instance the rows say the truth about their certificates, and
\* none that moved is taken up again, whatever of a transfer, its answer or
\* its saves is lost (transfer.service.ts: "verified by transferStarted
\* state").
THEOREM RowsTellTheLedger ==
  ASSUME NEW i, Instances = {i}
  PROVE  PipelineSpec => []RowsMatchLedger
<1>1. PipelineSpec => []Typed
  BY InitTyped, StepKeepsTypes, PTL DEF PipelineSpec
<1>2. PipelineInit => Stages(i)
  BY InitStages
<1>3. Typed /\ Stages(i) /\ [PipelineNext]_pipelineVars => Stages(i)'
  BY StepKeepsStages
<1>4. PipelineSpec => []Stages(i)
  BY <1>1, <1>2, <1>3, PTL DEF PipelineSpec
<1>5. Stages(i) => RowsMatchLedger
  <2>1. \A r : HasMoved(r) <=> Bought(ledger[r])
    BY DEF HasMoved, Bought
  <2>. QED BY <2>1 DEF Stages, RequestTrue, RowTrue, Truthful, Certified, CanHaveMoved,
                       RowsMatchLedger
<1>. QED BY <1>4, <1>5, PTL

-----------------------------------------------------------------------------
(* Refusals *)

Refused(answers) ==
  \E v \in Validators : {<<v, "invalid">>, <<v, "error">>} \cap answers # {}

\* The action of RefusalsStick.
Sticks ==
  \A r \in DOMAIN table :
    Refused(said[r]) /\ table[r].state # "TransferAwaiting"
      => table'[r].state # "TransferAwaiting"

\* A row whose validation is in progress has the refusal in its record, and
\* no later answer outvotes it.
LEMMA AnswersStick ==
  ASSUME NEW row \in Rows, NEW held, NEW answers, RowTrue(row, held, answers), Refused(answers),
         NEW v \in Validators, NEW answer \in Answers,
         v \in DOMAIN row.record, row.record[v] = "pending", row.state # "TransferAwaiting"
  PROVE  Answered(row, v, answer).state # "TransferAwaiting"
<1>. DEFINE record == [row.record EXCEPT ![v] = answer]
            given  == {record[w] : w \in DOMAIN record}
<1>1. Answered(row, v, answer).state =
        IF row.state = "ValidationInProgress" THEN Outcome(given) ELSE row.state
  BY DEF Answered, Rows
<1>2. CASE row.state = "ValidationInProgress"
  <2>1. PICK w \in Validators : <<w, "invalid">> \in answers \/ <<w, "error">> \in answers
    BY DEF Refused
  <2>2. w \in DOMAIN row.record /\ row.record[w] \in {"invalid", "error"}
    BY <1>2, <2>1 DEF RowTrue
  <2>3. record[w] = row.record[w] /\ w \in DOMAIN record
    BY <2>2
  <2>4. given # {"valid"}
    BY <2>2, <2>3
  <2>. QED BY <1>1, <1>2, <2>4 DEF Outcome
<1>. QED BY <1>1, <1>2

\* What an answer does to the table.
LEMMA StoredAnswerSticks ==
  ASSUME Typed, NEW i, Stages(i), NEW r \in DOMAIN table, NEW v \in Validators,
         v \in DOMAIN table[r].record, NEW answer \in Answers,
         table' \in {table, StoredAnswer(r, v, answer)}
  PROVE  Sticks
<1>1. /\ \A q \in DOMAIN table : table[q] \in Rows /\ RowTrue(table[q], ledger[q], said[q])
      /\ table = [q \in DOMAIN table |-> table[q]]
  BY TableRows DEF Typed, Stages, RequestTrue
<1>2. CASE /\ table[r].record[v] = "pending"
           /\ table' = [table EXCEPT ![r] = Answered(@, v, answer)]
  <2>1. \A q \in DOMAIN table :
          table'[q] = IF q = r THEN Answered(table[r], v, answer) ELSE table[q]
    BY <1>1, <1>2
  <2>. QED BY <1>1, <1>2, <2>1, AnswersStick DEF Sticks
<1>3. CASE table' = table
  BY <1>3 DEF Sticks
<1>. QED BY <1>2, <1>3 DEF StoredAnswer

\* A round saves nothing that waits for a transfer, but for a validation
\* without validators, which takes up rows without answers.
LEMMA RoundSticks ==
  ASSUME Typed, NEW i \in Instances, Stages(i), NEW kind \in Kinds, Round(i, kind)
  PROVE  Sticks
<1>. DEFINE copies == CopiesOf(i, kind)
<1>1. table' \in {table, Saved(copies)} /\ (kind = "validate" => ~At(i, kind, "acting")
                                                                 /\ ~At(i, kind, "dead"))
  BY DEF Round, Proceed, Find, FindNothing, SaveStarted, SaveFinished, RepositoryFails, At
<1>2. ASSUME NEW r \in DOMAIN table, r \in DOMAIN copies, Refused(said[r])
      PROVE  copies[r].state # "TransferAwaiting"
  <2>1. RequestTrue(r, table[r], ledger[r], said[r], tasks[<<i, "issue">>],
                    tasks[<<i, "validate">>], tasks[<<i, "transfer">>])
    BY DEF Stages
  <2>2. CASE kind = "issue"
    BY <1>2, <2>1, <2>2 DEF RequestTrue, IssueStage, CopiesOf
  <2>3. CASE kind = "transfer"
    BY <1>2, <2>1, <2>3 DEF RequestTrue, TransferStage, CopiesOf
  <2>4. CASE kind = "validate"
    <3>1. ValidateStage(tasks[<<i, "validate">>].phase, copies[r], table[r], ledger[r], said[r])
      BY <1>2, <2>1, <2>4 DEF RequestTrue, CopiesOf
    <3>2. said[r] = {}
      BY <1>1, <2>4, <3>1 DEF ValidateStage, At
    <3>. QED BY <1>2, <3>2 DEF Refused
  <2>. QED BY <2>2, <2>3, <2>4 DEF Kinds
<1>. QED BY <1>1, <1>2 DEF Saved, Sticks

\* No step makes a refused request ready, when there is one instance.
LEMMA StepSticks ==
  ASSUME NEW i, Instances = {i}, Typed, Stages(i), [PipelineNext]_pipelineVars
  PROVE  Sticks
<1>1. CASE UNCHANGED table
  BY <1>1 DEF Sticks
<1>2. ASSUME NEW kind \in Kinds, Round(i, kind) PROVE Sticks
  BY <1>2, RoundSticks
<1>3. CASE Validating(i)
  <2>1. ASSUME NEW r \in Requests, NEW v \in Validators, NEW answer \in Answers,
               Answer(i, r, v, answer) \/ AnswerFails(i, r, v, answer)
        PROVE  Sticks
    <3>1. r \in DOMAIN table
      BY <2>1 DEF Answer, AnswerFails, Stages
    <3>2. \/ table' = table
          \/ v \in DOMAIN table[r].record /\ table' \in {table, StoredAnswer(r, v, answer)}
      BY <2>1 DEF Answer, AnswerFails
    <3>. QED BY <1>1, <3>1, <3>2, StoredAnswerSticks
  <2>2. ASSUME NEW r \in Requests, Catch(i, r) \/ CatchFails(i, r)
        PROVE  Sticks
    <3>1. CopiesOf(i, "validate")[r] \in Rows
      BY <2>2, CopiesTyped, TableRows DEF Kinds, Catch, CatchFails
    <3>2. \A q \in DOMAIN table :
            \/ table'[q] = table[q]
            \/ table'[q] = Errored("validate", CopiesOf(i, "validate")[r])
      BY <2>2 DEF Catch, CatchFails, Saved, CaughtCopy
    <3>. QED BY <3>1, <3>2, ErroredFields DEF Sticks
  <2>. QED BY <1>1, <1>3, <2>1, <2>2 DEF Validating, EndValidation
<1>4. CASE Outside(i)
  <2>1. ASSUME NEW r \in Requests, NEW empty \in BOOLEAN, NEW same \in BOOLEAN,
               Reading(i, r, empty, same)
        PROVE  Sticks
    BY <2>1 DEF Reading, Sticks
  <2>2. ASSUME NEW r \in Requests, NEW v \in Validators, NEW answer \in Answers,
               Update(i, r, v, answer)
        PROVE  Sticks
    BY <2>2, StoredAnswerSticks DEF Update
  <2>. QED BY <1>4, <2>1, <2>2 DEF Outside
<1>5. CASE \/ BatchIssue(i) \/ BatchIssueFails(i) \/ BatchTransfer(i) \/ BatchTransferFails(i)
           \/ Crash(i) \/ \E r \in Requests : Spend(r)
  BY <1>1, <1>5 DEF BatchIssue, BatchIssueFails, BatchTransfer, BatchTransferFails, Crash, Spend
<1>6. CASE UNCHANGED pipelineVars
  BY <1>1, <1>6 DEF pipelineVars
<1>. QED BY <1>2, <1>3, <1>4, <1>5, <1>6 DEF PipelineNext, Serving

\* With one instance a refusal that was stored is never forgotten: whatever
\* row is written over it, no step makes the request ready for transfer
\* (validate.service.ts).
THEOREM RefusalsAreFinal ==
  ASSUME NEW i, Instances = {i}
  PROVE  PipelineSpec => RefusalsStick
<1>1. PipelineSpec => []Typed
  BY InitTyped, StepKeepsTypes, PTL DEF PipelineSpec
<1>2. PipelineInit => Stages(i)
  BY InitStages
<1>3. Typed /\ Stages(i) /\ [PipelineNext]_pipelineVars => Stages(i)'
  BY StepKeepsStages
<1>4. Typed /\ Stages(i) /\ [PipelineNext]_pipelineVars
        => [\A r \in DOMAIN table :
              /\ \E v \in Validators : {<<v, "invalid">>, <<v, "error">>} \cap said[r] # {}
              /\ table[r].state # "TransferAwaiting"
              => table'[r].state # "TransferAwaiting"]_pipelineVars
  BY StepSticks DEF Sticks, Refused
<1>. QED BY <1>1, <1>2, <1>3, <1>4, PTL DEF PipelineSpec, RefusalsStick

-----------------------------------------------------------------------------
(* Answers, as long as nothing fails *)

Registered(row, answers) ==
  \A va \in answers : va[1] \in DOMAIN row.record /\ row.record[va[1]] = va[2]

\* The validators of a request that was given to the transfer have answered.
Decided == {"TransferAwaiting", "TransferInProgress", "Transferred", "TransferError"}
NobodyAsked(row) == \A v \in DOMAIN row.record : row.record[v] # "pending"

\* The transfer's copy of a row has the answers that the row has, and a
\* validation starts from none.
RequestKept(r, row, answers, issue, validate, transfer) ==
  /\ Registered(row, answers)
  /\ row.state \in Decided => NobodyAsked(row)
  /\ r \in DOMAIN issue.copies => issue.phase # "failing"
  /\ r \in DOMAIN validate.copies /\ validate.phase = "starting" =>
       validate.copies[r].record =
         IF Validators = {} THEN <<>> ELSE [v \in Validators |-> "pending"]
  /\ r \in DOMAIN transfer.copies =>
       /\ transfer.copies[r].record = row.record
       /\ row.state \in Decided

\* No question to a validator goes wrong, because its row has a place for it.
LanesKept(i) ==
  \A r \in Requests, v \in Validators :
    /\ lanes[i][<<r, v>>] # "failed"
    /\ lanes[i][<<r, v>>] = "asked" => v \in DOMAIN table[r].record

AnswersKept(i) ==
  failures = 0 =>
    /\ \A r \in DOMAIN table :
         RequestKept(r, table[r], said[r], tasks[<<i, "issue">>],
                     tasks[<<i, "validate">>], tasks[<<i, "transfer">>])
    /\ LanesKept(i)

\* Nothing has failed before if nothing has now.
LEMMA NoFault ==
  ASSUME Typed, failures' = 0
  PROVE  ~Fault
BY TransferAssumption DEF Typed, Fault

\* What a started row records.
LEMMA StartedRecord ==
  ASSUME NEW row \in Rows, row.record = <<>>
  PROVE  Started("validate", row).record =
           IF Validators = {} THEN <<>> ELSE [v \in Validators |-> "pending"]
BY DEF Started, Rows

\* A round without failures: what it saves loses no answer.
LEMMA RoundKeepsAnswers ==
  ASSUME Typed, NEW i \in Instances, Stages(i), AnswersKept(i), NEW kind \in Kinds,
         Proceed(i, kind), failures = 0
  PROVE  AnswersKept(i)'
<1>. DEFINE round(k) == tasks[<<i, k>>]
            copies   == CopiesOf(i, kind)
<1>1. /\ UNCHANGED <<ledger, said>>
      /\ table' = table \/ table' = Saved(copies)
  BY DEF Proceed, Find, FindNothing, SaveStarted, SaveFinished
<1>2. /\ DOMAIN copies \subseteq DOMAIN table /\ DOMAIN table \subseteq Requests
      /\ \A r \in DOMAIN table : table[r] \in Rows
      /\ \A r \in DOMAIN copies : copies[r] \in Rows
  BY CopiesTyped, TableRows DEF Typed
<1>3. /\ \A r \in DOMAIN table :
           /\ RequestTrue(r, table[r], ledger[r], said[r], round("issue"), round("validate"),
                          round("transfer"))
           /\ RequestKept(r, table[r], said[r], round("issue"), round("validate"),
                          round("transfer"))
      /\ LanesKept(i)
  BY DEF Stages, AnswersKept
<1>4. DOMAIN table' = DOMAIN table
  BY <1>1 DEF Saved
\* A row that is saved keeps its answers, and its questions their places.
<1>5. ASSUME NEW r \in DOMAIN table, r \in DOMAIN copies, table'[r] = copies[r],
             table' = Saved(copies), kind = "validate" => round(kind).phase = "starting"
      PROVE  /\ Registered(copies[r], said[r])
             /\ copies[r].state \in Decided => NobodyAsked(copies[r])
             /\ kind = "issue" => table[r].record = <<>> /\ r \notin DOMAIN round("transfer").copies
             /\ kind = "transfer" =>
                  copies[r].record = table[r].record /\ copies[r].state \in Decided
             /\ kind = "validate" =>
                  /\ \A v \in Validators : v \in DOMAIN copies[r].record
                  /\ r \notin DOMAIN round("transfer").copies
  <2>1. CASE kind = "issue"
    <3>1. /\ IssueStage(round("issue").phase, copies[r], table[r], ledger[r])
          /\ round("issue").phase # "failing"
      BY <1>3, <1>5, <2>1 DEF RequestTrue, RequestKept, CopiesOf
    <3>2. /\ table[r].state \in {"IssuanceAwaiting", "IssuanceInProgress"}
          /\ copies[r].state \notin Decided
      BY <3>1 DEF IssueStage, Decided
    <3>3. said[r] = {} /\ table[r].record = <<>> /\ r \notin DOMAIN round("transfer").copies
      BY <1>3, <3>2 DEF RequestTrue, RowTrue, Unvalidated, TransferStage
    <3>. QED BY <2>1, <3>2, <3>3 DEF Registered
  <2>2. CASE kind = "validate"
    <3>1. /\ ValidateStage("starting", copies[r], table[r], ledger[r], said[r])
          /\ copies[r].record =
               IF Validators = {} THEN <<>> ELSE [v \in Validators |-> "pending"]
          /\ r \notin DOMAIN round("transfer").copies
      BY <1>3, <1>5, <2>2 DEF RequestTrue, RequestKept, CopiesOf
    <3>2. said[r] = {}
      BY <3>1 DEF ValidateStage
    <3>3. copies[r].state \in Decided => NobodyAsked(copies[r])
      BY <3>1, EmptyTable DEF ValidateStage, Decided, NobodyAsked
    <3>4. \A v \in Validators : v \in DOMAIN copies[r].record
      BY <3>1
    <3>. QED BY <2>2, <3>1, <3>2, <3>3, <3>4 DEF Registered
  <2>3. CASE kind = "transfer"
    <3>1. /\ TransferStage(round("transfer").phase, copies[r], table[r], ledger[r])
          /\ copies[r].record = table[r].record /\ table[r].state \in Decided
          /\ Registered(table[r], said[r]) /\ NobodyAsked(table[r])
      BY <1>3, <1>5, <2>3 DEF RequestTrue, RequestKept, CopiesOf
    <3>2. copies[r].state \in Decided
      BY <3>1 DEF TransferStage, Decided
    <3>. QED BY <2>3, <3>1, <3>2 DEF Registered, NobodyAsked
  <2>. QED BY <2>1, <2>2, <2>3 DEF Kinds
<1>6. table' = Saved(copies) /\ table' # table /\ kind = "validate" => round(kind).phase = "starting"
  <2>1. ASSUME SaveFinished(i, "validate"), NEW r \in DOMAIN table, r \in DOMAIN copies,
               kind = "validate"
        PROVE  FALSE
    <3>1. ValidateStage(round("validate").phase, copies[r], table[r], ledger[r], said[r])
      BY <1>3, <2>1 DEF RequestTrue, CopiesOf
    <3>. QED BY <2>1, <3>1 DEF ValidateStage, SaveFinished, At
  <2>2. table = [r \in DOMAIN table |-> table[r]]
    BY TableRows DEF Typed
  <2>3. ASSUME SaveFinished(i, "validate"), kind = "validate", table' = Saved(copies)
        PROVE  table' = table
    BY <2>1, <2>2, <2>3 DEF Saved
  <2>. QED BY <2>3 DEF Proceed, Find, FindNothing, SaveStarted, At
<1>7. ASSUME NEW r \in DOMAIN table
      PROVE  \/ table'[r] = table[r]
             \/ /\ r \in DOMAIN copies /\ table'[r] = copies[r]
                /\ table' = Saved(copies)
                /\ kind = "validate" => round(kind).phase = "starting"
  BY <1>1, <1>6 DEF Saved
<1>8. LanesKept(i)'
  <2>1. ASSUME NEW r \in Requests, NEW v \in Validators
        PROVE  /\ lanes'[i][<<r, v>>] # "failed"
               /\ lanes'[i][<<r, v>>] = "asked" => v \in DOMAIN table'[r].record
    <3>1. CASE lanes'[i][<<r, v>>] = lanes[i][<<r, v>>]
      <4>1. /\ lanes[i][<<r, v>>] # "failed"
            /\ lanes[i][<<r, v>>] = "asked" => v \in DOMAIN table[r].record /\ r \in DOMAIN table
        BY <1>3 DEF LanesKept, Stages
      <4>2. r \in DOMAIN table /\ v \in DOMAIN table[r].record => v \in DOMAIN table'[r].record
        BY <1>5, <1>7, EmptyTable DEF Kinds
      <4>. QED BY <3>1, <4>1, <4>2
    <3>2. CASE /\ kind = "validate" /\ r \in DOMAIN copies /\ table' = Saved(copies)
               /\ lanes'[i][<<r, v>>] = "asked" /\ At(i, kind, "starting")
      <4>1. r \in DOMAIN table /\ table'[r] = copies[r]
        BY <1>2, <3>2 DEF Saved
      <4>. QED BY <1>5, <3>2, <4>1 DEF At
    <3>3. \/ lanes'[i][<<r, v>>] = lanes[i][<<r, v>>]
          \/ /\ kind = "validate" /\ r \in DOMAIN copies /\ table' = Saved(copies)
             /\ lanes'[i][<<r, v>>] = "asked" /\ At(i, kind, "starting")
      <4>1. CASE SaveStarted(i, kind)
        BY <4>1 DEF SaveStarted, Typed
      <4>. QED BY <4>1 DEF Proceed, Find, FindNothing, SaveFinished
    <3>. QED BY <3>1, <3>2, <3>3
  <2>. QED BY <2>1 DEF LanesKept
\* The rounds after the step.
<1>9. PICK phase, rows :
        /\ To(i, kind, phase, rows)
        /\ \/ rows = <<>>
           \/ phase = "acting" /\ rows = copies /\ table' = Saved(copies)
           \/ /\ phase = "starting" /\ table' = table
              /\ \E b \in Batches(kind) : rows = [r \in b |-> Started(kind, table[r])]
  <2>1. CASE Find(i, kind)
    BY <2>1 DEF Find
  <2>2. CASE SaveStarted(i, kind)
    BY <2>2 DEF SaveStarted, Finished
  <2>3. CASE FindNothing(i, kind) \/ SaveFinished(i, kind)
    BY <2>3 DEF FindNothing, SaveFinished, Finished
  <2>. QED BY <2>1, <2>2, <2>3 DEF Proceed
<1>10. \A k \in Kinds : tasks'[<<i, k>>] = IF k = kind THEN [phase |-> phase, copies |-> rows]
                                            ELSE round(k)
  BY <1>9, ToRounds
<1>. HIDE DEF round
<1>11. ASSUME NEW r \in DOMAIN table
       PROVE  RequestKept(r, table'[r], said[r], tasks'[<<i, "issue">>],
                          tasks'[<<i, "validate">>], tasks'[<<i, "transfer">>])
  <2>1. Registered(table'[r], said[r]) /\ (table'[r].state \in Decided => NobodyAsked(table'[r]))
    BY <1>3, <1>5, <1>7 DEF RequestKept
  <2>2. /\ tasks'[<<i, "issue">>] = IF kind = "issue" THEN [phase |-> phase, copies |-> rows]
                                    ELSE round("issue")
        /\ tasks'[<<i, "validate">>] = IF kind = "validate"
                                       THEN [phase |-> phase, copies |-> rows]
                                       ELSE round("validate")
        /\ tasks'[<<i, "transfer">>] = IF kind = "transfer"
                                       THEN [phase |-> phase, copies |-> rows]
                                       ELSE round("transfer")
    BY <1>10 DEF Kinds
  <2>3. r \in DOMAIN tasks'[<<i, "issue">>].copies => tasks'[<<i, "issue">>].phase # "failing"
    BY <1>3, <1>9, <2>2, EmptyTable DEF RequestKept
  <2>4. ASSUME r \in DOMAIN tasks'[<<i, "validate">>].copies,
               tasks'[<<i, "validate">>].phase = "starting"
        PROVE  tasks'[<<i, "validate">>].copies[r].record =
                 IF Validators = {} THEN <<>> ELSE [v \in Validators |-> "pending"]
    <3>1. CASE kind # "validate"
      BY <1>3, <2>2, <2>4, <3>1 DEF RequestKept
    <3>2. CASE kind = "validate"
      <4>1. PICK b \in Batches("validate") : rows = [q \in b |-> Started("validate", table[q])]
        BY <1>9, <2>2, <2>4, <3>2, EmptyTable
      <4>2. r \in b /\ table[r].state = "ValidationAwaiting"
        BY <2>2, <2>4, <3>2, <4>1 DEF Batches, Ready, Awaiting
      <4>3. table[r].record = <<>>
        BY <1>3, <4>2 DEF RequestTrue, RowTrue, Unvalidated
      <4>. QED BY <1>2, <2>2, <3>2, <4>1, <4>2, <4>3, StartedRecord
    <3>. QED BY <3>1, <3>2
  <2>5. ASSUME r \in DOMAIN tasks'[<<i, "transfer">>].copies
        PROVE  /\ tasks'[<<i, "transfer">>].copies[r].record = table'[r].record
               /\ table'[r].state \in Decided
    <3>1. CASE kind # "transfer"
      <4>1. r \in DOMAIN round("transfer").copies
        BY <2>2, <2>5, <3>1
      <4>2. table'[r] = table[r]
        BY <1>5, <1>7, <3>1, <4>1 DEF Kinds
      <4>. QED BY <1>3, <2>2, <3>1, <4>1, <4>2 DEF RequestKept
    <3>2. CASE kind = "transfer" /\ phase = "acting" /\ rows = copies /\ table' = Saved(copies)
      <4>1. table'[r] = copies[r] /\ r \in DOMAIN copies
        BY <2>2, <2>5, <3>2 DEF Saved
      <4>. QED BY <1>5, <2>2, <3>2, <4>1
    <3>3. CASE /\ kind = "transfer" /\ table' = table
               /\ \E b \in Batches(kind) : rows = [q \in b |-> Started(kind, table[q])]
      <4>1. PICK b \in Batches("transfer") : rows = [q \in b |-> Started("transfer", table[q])]
        BY <3>3
      <4>2. r \in b /\ table[r].state = "TransferAwaiting"
        BY <2>2, <2>5, <3>3, <4>1 DEF Batches, Ready, Awaiting
      <4>3. Started("transfer", table[r]).record = table[r].record
        BY <1>2 DEF Started, Rows
      <4>. QED BY <2>2, <3>3, <4>1, <4>2, <4>3 DEF Decided
    <3>. QED BY <1>9, <2>2, <2>5, <3>1, <3>2, <3>3, EmptyTable
  <2>. QED BY <2>1, <2>3, <2>4, <2>5 DEF RequestKept
<1>. QED BY <1>1, <1>4, <1>8, <1>11 DEF AnswersKept

\* An answer is registered where its question had a place, and completes the
\* answers of no row that the transfer already has.
LEMMA AnswerKept ==
  ASSUME Typed, NEW i \in Instances, Stages(i), AnswersKept(i), failures = 0,
         NEW r \in DOMAIN table, NEW v \in Validators, v \in DOMAIN table[r].record,
         NEW answer \in Answers,
         table' = StoredAnswer(r, v, answer), said' = SaidNow(r, v, answer),
         \A q \in Requests, w \in Validators :
           lanes'[i][<<q, w>>] \in {"done", lanes[i][<<q, w>>]},
         UNCHANGED tasks
  PROVE  AnswersKept(i)'
<1>. DEFINE issue    == tasks[<<i, "issue">>]
            validate == tasks[<<i, "validate">>]
            transfer == tasks[<<i, "transfer">>]
            new      == Answered(table[r], v, answer)
            more     == IF answer = "pending" THEN said[r] ELSE said[r] \cup {<<v, answer>>}
<1>1. /\ \A q \in DOMAIN table :
           RequestKept(q, table[q], said[q], issue, validate, transfer)
      /\ LanesKept(i) /\ RowTrue(table[r], ledger[r], said[r])
      /\ \A q \in Requests, w \in Validators : lanes[i][<<q, w>>] # "idle" => q \in DOMAIN table
  BY DEF AnswersKept, Stages, RequestTrue
<1>2. /\ table[r] \in Rows /\ DOMAIN table \subseteq Requests
      /\ table = [q \in DOMAIN table |-> table[q]]
      /\ said \in [Requests -> SUBSET (Validators \X Answers)]
  BY TableRows DEF Typed
<1>. HIDE DEF issue, validate, transfer, new
<1>3. CASE table[r].record[v] # "pending"
  <2>1. table' = table /\ said' = said
    BY <1>3 DEF StoredAnswer, SaidNow
  <2>2. LanesKept(i)'
    BY <1>1, <2>1 DEF LanesKept
  <2>. QED BY <1>1, <2>1, <2>2 DEF AnswersKept, issue, validate, transfer
<1>4. CASE table[r].record[v] = "pending"
  <2>1. /\ DOMAIN table' = DOMAIN table
        /\ \A q \in DOMAIN table : table'[q] = IF q = r THEN new ELSE table[q]
    BY <1>2, <1>4 DEF StoredAnswer, new
  <2>2. \A q \in Requests : said'[q] = IF q = r THEN more ELSE said[q]
    BY <1>2, <1>4 DEF SaidNow
  <2>. DEFINE record == [table[r].record EXCEPT ![v] = answer]
              given  == {record[w] : w \in DOMAIN record}
  <2>3. /\ new.record = record
        /\ new.state = IF table[r].state = "ValidationInProgress" THEN Outcome(given)
                       ELSE table[r].state
        /\ DOMAIN record = DOMAIN table[r].record
    BY <1>2 DEF Answered, Rows, new
  <2>4. Registered(new, more)
    <3>1. \A va \in said[r] : va[2] # "pending" /\ va[1] \in DOMAIN table[r].record
                              /\ table[r].record[va[1]] = va[2]
      BY <1>1 DEF RowTrue, RequestKept, Registered
    <3>2. \A va \in said[r] : va[1] \in DOMAIN record /\ record[va[1]] = va[2]
      BY <1>4, <2>3, <3>1
    <3>3. v \in DOMAIN record /\ record[v] = answer
      BY <2>3
    <3>. QED BY <2>3, <3>2, <3>3 DEF Registered
  <2>5. table[r].state \notin Decided /\ r \notin DOMAIN transfer.copies
    BY <1>1, <1>4 DEF RequestKept, NobodyAsked
  <2>6. new.state \in Decided => NobodyAsked(new)
    <3>1. ASSUME new.state \in Decided PROVE given = {"valid"}
      BY <2>3, <2>5, <3>1 DEF Outcome, Decided
    <3>2. given = {"valid"} => \A w \in DOMAIN record : record[w] # "pending"
      OBVIOUS
    <3>. QED BY <2>3, <3>1, <3>2 DEF NobodyAsked
  <2>7. RequestKept(r, new, more, issue, validate, transfer)
    BY <1>1, <2>4, <2>5, <2>6 DEF RequestKept
  <2>. HIDE DEF more
  <2>8. \A q \in DOMAIN table :
          RequestKept(q, table'[q], said'[q], issue, validate, transfer)
    BY <1>1, <1>2, <2>1, <2>2, <2>7
  <2>9. LanesKept(i)'
    <3>1. \A q \in DOMAIN table : DOMAIN table'[q].record = DOMAIN table[q].record
      BY <2>1, <2>3
    <3>. QED BY <1>1, <3>1 DEF LanesKept
  <2>. QED BY <2>1, <2>8, <2>9 DEF AnswersKept, issue, validate, transfer
<1>. QED BY <1>3, <1>4

\* The three tasks.
LEMMA KindsAre == "issue" \in Kinds /\ "validate" \in Kinds /\ "transfer" \in Kinds
BY DEF Kinds

\* An issuance or a transfer that the service answers.
LEMMA ServiceKeepsAnswers ==
  ASSUME Typed, NEW i \in Instances, Stages(i), AnswersKept(i), failures = 0, failures' = 0,
         \/ BatchIssue(i) \/ BatchIssueFails(i)
         \/ BatchTransfer(i) \/ BatchTransferFails(i)
  PROVE  AnswersKept(i)'
<1>1. /\ \A r \in DOMAIN table :
           RequestKept(r, table[r], said[r], tasks[<<i, "issue">>], tasks[<<i, "validate">>],
                       tasks[<<i, "transfer">>])
      /\ LanesKept(i)
      /\ UNCHANGED <<table, said, lanes>>
  BY DEF AnswersKept, BatchIssue, BatchIssueFails, BatchTransfer, BatchTransferFails
<1>2. LanesKept(i)'
  BY <1>1 DEF LanesKept
<1>3. CASE BatchIssue(i)
  <2>1. PICK rows : To(i, "issue", "finishing", rows)
    BY <1>3 DEF BatchIssue
  <2>2. \A k \in Kinds : tasks'[<<i, k>>] = IF k = "issue" THEN [phase |-> "finishing", copies |-> rows]
                                             ELSE tasks[<<i, k>>]
    BY <2>1, KindsAre, ToRounds
  <2>3. /\ tasks'[<<i, "issue">>].phase = "finishing"
        /\ tasks'[<<i, "validate">>] = tasks[<<i, "validate">>]
        /\ tasks'[<<i, "transfer">>] = tasks[<<i, "transfer">>]
    BY <2>2 DEF Kinds
  <2>. QED BY <1>1, <1>2, <2>3 DEF AnswersKept, RequestKept
<1>4. CASE BatchTransfer(i) \/ BatchTransferFails(i)
  <2>. DEFINE copies == CopiesOf(i, "transfer")
  <2>1. PICK rows : /\ To(i, "transfer", "finishing", rows)
                    /\ DOMAIN rows = DOMAIN copies
                    /\ \A r \in DOMAIN copies : rows[r].record = copies[r].record
    <3>1. \A r \in DOMAIN copies : copies[r] \in Rows
      BY CopiesTyped, TableRows DEF Kinds
    <3>2. CASE BatchTransfer(i)
      <4>. DEFINE rows == [r \in DOMAIN copies |-> [copies[r] EXCEPT !.state = "Transferred"]]
      <4>1. DOMAIN rows = DOMAIN copies /\ \A r \in DOMAIN copies : rows[r].record = copies[r].record
        BY <3>1 DEF Rows
      <4>2. To(i, "transfer", "finishing", rows)
        BY <3>2 DEF BatchTransfer
      <4>. HIDE DEF rows
      <4>. QED BY <4>1, <4>2
    <3>3. CASE BatchTransferFails(i)
      <4>. DEFINE rows == [r \in DOMAIN copies |-> Errored("transfer", copies[r])]
      <4>1. DOMAIN rows = DOMAIN copies /\ \A r \in DOMAIN copies : rows[r].record = copies[r].record
        BY <3>1, ErroredFields
      <4>2. To(i, "transfer", "finishing", rows)
        BY <3>3 DEF BatchTransferFails
      <4>. HIDE DEF rows
      <4>. QED BY <4>1, <4>2
    <3>. QED BY <1>4, <3>2, <3>3
  <2>2. \A k \in Kinds : tasks'[<<i, k>>] = IF k = "transfer" THEN [phase |-> "finishing", copies |-> rows]
                                             ELSE tasks[<<i, k>>]
    BY <2>1, KindsAre, ToRounds
  <2>3. /\ tasks'[<<i, "issue">>] = tasks[<<i, "issue">>]
        /\ tasks'[<<i, "validate">>] = tasks[<<i, "validate">>]
        /\ tasks'[<<i, "transfer">>].copies = rows
    BY <2>2 DEF Kinds
  <2>. QED BY <1>1, <1>2, <2>1, <2>3 DEF AnswersKept, RequestKept, CopiesOf
<1>5. ~BatchIssueFails(i)
  BY NoFault DEF BatchIssueFails
<1>. QED BY <1>3, <1>4, <1>5

\* Validations without failures.
LEMMA ValidatingKeepsAnswers ==
  ASSUME Typed, NEW i \in Instances, Stages(i), AnswersKept(i), failures = 0, failures' = 0,
         Validating(i)
  PROVE  AnswersKept(i)'
<1>1. LanesKept(i) /\ ~Fault
  BY NoFault DEF AnswersKept
<1>2. ASSUME NEW r \in Requests, NEW v \in Validators, NEW answer \in Answers,
             Answer(i, r, v, answer)
      PROVE  AnswersKept(i)'
  <2>1. r \in DOMAIN table
    BY <1>2 DEF Answer, Stages
  <2>2. \A q \in Requests, w \in Validators :
          lanes'[i][<<q, w>>] \in {"done", lanes[i][<<q, w>>]}
    BY <1>2 DEF Answer, Lane, Typed
  <2>. QED BY <1>2, <2>1, <2>2, AnswerKept DEF Answer
<1>3. ASSUME NEW r \in Requests, NEW v \in Validators, NEW answer \in Answers,
             AnswerFails(i, r, v, answer)
      PROVE  FALSE
  BY <1>1, <1>3 DEF AnswerFails, LanesKept
<1>4. ASSUME NEW r \in Requests, Catch(i, r) \/ CatchFails(i, r)
      PROVE  FALSE
  BY <1>1, <1>4 DEF Catch, CatchFails, LanesKept
<1>5. CASE EndValidation(i)
  <2>1. /\ To(i, "validate", "waiting", <<>>)
        /\ UNCHANGED <<table, said, lanes>>
    BY <1>5 DEF EndValidation, Finished
  <2>2. \A k \in Kinds : tasks'[<<i, k>>] = IF k = "validate" THEN [phase |-> "waiting", copies |-> <<>>]
                                             ELSE tasks[<<i, k>>]
    BY <2>1, KindsAre, ToRounds
  <2>3. /\ tasks'[<<i, "issue">>] = tasks[<<i, "issue">>]
        /\ tasks'[<<i, "validate">>].copies = <<>>
        /\ tasks'[<<i, "transfer">>] = tasks[<<i, "transfer">>]
    BY <2>2 DEF Kinds
  <2>4. LanesKept(i)'
    BY <1>1, <2>1 DEF LanesKept
  <2>. QED BY <2>1, <2>3, <2>4, EmptyTable DEF AnswersKept, RequestKept
<1>. QED BY <1>2, <1>3, <1>4, <1>5 DEF Validating

\* New requests and answers from outside.
LEMMA OutsideKeepsAnswers ==
  ASSUME Typed, NEW i \in Instances, Stages(i), AnswersKept(i), failures = 0, Outside(i)
  PROVE  AnswersKept(i)'
<1>1. ASSUME NEW r \in Requests, NEW empty \in BOOLEAN, NEW same \in BOOLEAN,
             Reading(i, r, empty, same)
      PROVE  AnswersKept(i)'
  <2>1. /\ r \notin DOMAIN table
        /\ DOMAIN table' = DOMAIN table \cup {r}
        /\ \A q \in DOMAIN table' : table'[q] = IF q = r THEN NewRow(empty, same) ELSE table[q]
        /\ UNCHANGED <<said, tasks, lanes>>
    BY <1>1 DEF Reading
  <2>2. \A k \in Kinds : DOMAIN tasks[<<i, k>>].copies \subseteq DOMAIN table
    BY DEF Typed, RoundsOK
  <2>3. RequestKept(r, NewRow(empty, same), said[r], tasks[<<i, "issue">>],
                    tasks[<<i, "validate">>], tasks[<<i, "transfer">>])
    BY <2>1, <2>2 DEF RequestKept, Stages, NewRow, Registered, Decided, Kinds
  <2>4. \A q \in DOMAIN table' :
          RequestKept(q, table'[q], said[q], tasks[<<i, "issue">>], tasks[<<i, "validate">>],
                      tasks[<<i, "transfer">>])
    BY <2>1, <2>3 DEF AnswersKept
  <2>5. LanesKept(i)'
    BY <2>1 DEF AnswersKept, LanesKept, Stages
  <2>. QED BY <2>1, <2>4, <2>5 DEF AnswersKept
<1>2. ASSUME NEW r \in Requests, NEW v \in Validators, NEW answer \in Answers,
             Update(i, r, v, answer)
      PROVE  AnswersKept(i)'
  BY <1>2, AnswerKept DEF Update
<1>. QED BY <1>1, <1>2 DEF Outside

\* Every step keeps the answers, when there is one instance.
LEMMA StepKeepsAnswers ==
  ASSUME NEW i, Instances = {i}, Typed, Stages(i), AnswersKept(i), [PipelineNext]_pipelineVars
  PROVE  AnswersKept(i)'
<1>. SUFFICES ASSUME failures' = 0 PROVE AnswersKept(i)'
  BY DEF AnswersKept
<1>1. ~Fault
  BY NoFault
<1>2. failures = 0
  <2>1. ASSUME NEW kind \in Kinds, Round(i, kind) PROVE failures' = failures
    BY <1>1, <2>1 DEF Round, Proceed, Find, FindNothing, SaveStarted, SaveFinished, RepositoryFails
  <2>2. CASE Validating(i)
    BY <1>1, <2>2 DEF Validating, Answer, AnswerFails, Catch, CatchFails, EndValidation
  <2>3. CASE Serving(i)
    BY <1>1, <2>1, <2>2, <2>3 DEF Serving, BatchIssue, BatchIssueFails, BatchTransfer,
                                  BatchTransferFails, Crash
  <2>4. CASE Outside(i)
    BY <2>4 DEF Outside, Reading, Update
  <2>. QED BY <2>3, <2>4 DEF PipelineNext, Spend, pipelineVars
<1>3. CASE UNCHANGED <<table, said, tasks, lanes>>
  BY <1>2, <1>3 DEF AnswersKept, LanesKept
<1>4. ASSUME NEW kind \in Kinds, Round(i, kind) PROVE AnswersKept(i)'
  BY <1>1, <1>2, <1>4, RoundKeepsAnswers DEF Round, RepositoryFails
<1>5. CASE Serving(i)
  BY <1>1, <1>2, <1>4, <1>5, ServiceKeepsAnswers, ValidatingKeepsAnswers DEF Serving, Crash
<1>. QED BY <1>2, <1>3, <1>5, OutsideKeepsAnswers DEF PipelineNext, Spend, pipelineVars

\* With one instance, and as long as nothing fails, every answer that was
\* stored stays in its row, although the tasks save whole rows that they read
\* before the answers came (EnergyTransferRequestPostgres.repository.ts: "all
\* will get properly registered").
THEOREM AnswersStayRegistered ==
  ASSUME NEW i, Instances = {i}
  PROVE  PipelineSpec => []AnswersRegistered
<1>1. PipelineSpec => []Typed
  BY InitTyped, StepKeepsTypes, PTL DEF PipelineSpec
<1>2. PipelineInit => Stages(i) /\ AnswersKept(i)
  <2>1. SUFFICES ASSUME PipelineInit PROVE Stages(i) /\ AnswersKept(i)
    OBVIOUS
  <2>2. DOMAIN table = {}
    BY <2>1, EmptyTable DEF PipelineInit
  <2>3. \A r \in Requests, v \in Validators : lanes[i][<<r, v>>] = "idle"
    BY <2>1 DEF PipelineInit, NoLanes
  <2>. QED BY <2>1, <2>2, <2>3, InitStages DEF AnswersKept, LanesKept
<1>3. Typed /\ Stages(i) /\ [PipelineNext]_pipelineVars => Stages(i)'
  BY StepKeepsStages
<1>4. Typed /\ Stages(i) /\ AnswersKept(i) /\ [PipelineNext]_pipelineVars => AnswersKept(i)'
  BY StepKeepsAnswers
<1>5. PipelineSpec => []AnswersKept(i)
  BY <1>1, <1>2, <1>3, <1>4, PTL DEF PipelineSpec
<1>6. AnswersKept(i) => AnswersRegistered
  BY DEF AnswersKept, RequestKept, Registered, AnswersRegistered
<1>. QED BY <1>5, <1>6, PTL
=============================================================================
