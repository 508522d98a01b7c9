-------------------------- MODULE ProofRequestsProofs --------------------------
(***************************************************************************)
(* Type correctness of the proof requests, that no reading is lost and     *)
(* that none is stored or announced that cannot be verified: for any       *)
(* number of instances, requests and devices, any batch size, and any      *)
(* calls that are refused, answered late or cut off by a crash.  That no   *)
(* row is left as being processed, as long as nothing fails.  And that an  *)
(* instance pays for the proof of a reading once, and once more for every  *)
(* fault.                                                                  *)
(***************************************************************************)
EXTENDS ProofRequests, TLAPS, SequenceTheorems, FiniteSetTheorems

-----------------------------------------------------------------------------
(* Types *)

States == {"absent", "pending", "processing", "processingError", "removed"}
Steps == {"rest", "dead", "mark", "send", "wait", "save", "store", "remove", "publish", "error"}
SentProof == [by: Instances, batch: SUBSET Requests, state: {"sent", "mined", "reverted"}]
Round == [step: Steps, batch: SUBSET Requests, proof: {0} \cup Hashes]

\* A round that has sent its proof knows which it is.
Proving(round) ==
  round.step \in {"wait", "save", "store", "remove", "publish"} => round.proof \in Hashes

\* ProofTypeOK with names for its parts.
Typed ==
  /\ table \in [Requests -> States]
  /\ deployed \in BOOLEAN
  /\ apps \in [Instances -> {"down", "deploying", "starting", "up"}]
  /\ due \subseteq Instances
  /\ rounds \in [Instances -> Round]
  /\ chain \in Seq(SentProof)
  /\ proofs \subseteq Hashes
  /\ readings \subseteq Requests \X Hashes
  /\ announced \subseteq Requests \X Hashes
  /\ faults \in 0..MaxFaults

\* It is the same formula.
LEMMA TypedIsTypeOK == Typed <=> ProofTypeOK
BY DEF Typed, ProofTypeOK, States, Steps, SentProof, Round

\* A fault more is still within the bound.
LEMMA FaultTyped ==
  ASSUME Typed, Fault \/ UNCHANGED faults
  PROVE  faults' \in 0..MaxFaults
BY ProofAssumption DEF ProofAssumption, Typed, Fault

\* An update of rows makes a table of a table, and brings no row back.
LEMMA UpdatedTyped ==
  ASSUME Typed, NEW batch, NEW state \in States
  PROVE  Updated(batch, state) \in [Requests -> States]
BY DEF Updated, Typed

\* A batch is a set of requests.
LEMMA FoundTyped == \A b \in Found : b \subseteq Requests
BY DEF Found, RowsOf, Stored

\* What a round looks like after a step.
LEMMA GoesTyped ==
  ASSUME Typed, NEW i \in Instances, NEW step \in Steps, Goes(i, step)
  PROVE  /\ rounds' \in [Instances -> Round]
         /\ rounds'[i].step = step
         /\ rounds'[i].batch = rounds[i].batch /\ rounds'[i].proof = rounds[i].proof
         /\ \A j \in Instances : j # i => rounds'[j] = rounds[j]
<1>1. rounds \in [Instances -> Round] /\ rounds' = [rounds EXCEPT ![i] = [@ EXCEPT !.step = step]]
  BY DEF Typed, Goes
<1>2. \A old \in Round : LET new == [old EXCEPT !.step = step]
                         IN  /\ new \in Round /\ new.step = step
                             /\ new.batch = old.batch /\ new.proof = old.proof
  BY DEF Round
<1>. QED BY <1>1, <1>2

\* A round that ends.
LEMMA RestTyped ==
  ASSUME Typed, NEW step \in {"rest", "dead"}
  PROVE  [NoRound EXCEPT !.step = step] \in Round /\ NoRound \in Round
BY DEF NoRound, Round, Steps

\* When no proof is sent, the types need to be shown only for what changes.
LEMMA SameHashes ==
  ASSUME UNCHANGED chain
  PROVE  Hashes' = Hashes /\ Round' = Round
BY DEF Hashes, Round

\* Starting, ending, and creating requests.
LEMMA OutsideTyped ==
  ASSUME Typed, NEW i \in Instances,
         \/ Starting(i) \/ Crash(i)
         \/ \E new \in (SUBSET Requests) \ {{}} : RequestReadingProof(i, new)
  PROVE  Typed'
<1>1. faults' \in 0..MaxFaults /\ Hashes' = Hashes /\ Round' = Round
      /\ UNCHANGED <<chain, proofs, readings, announced>>
  BY FaultTyped, SameHashes
     DEF Starting, Boot, Deployed, Bootstrap, Crash, RequestReadingProof, tables
<1>2. CASE Starting(i)
  <2>1. UNCHANGED <<table, rounds>> /\ deployed' \in BOOLEAN /\ due' \subseteq Instances
        /\ apps' \in [Instances -> {"down", "deploying", "starting", "up"}]
    BY <1>2 DEF Starting, Boot, Deployed, Bootstrap, tables, Typed
  <2>. QED BY <1>1, <2>1 DEF Typed
<1>3. CASE Crash(i)
  <2>1. rounds' \in [Instances -> Round]
    BY <1>3, RestTyped DEF Crash, Typed
  <2>2. UNCHANGED <<table, deployed>> /\ due' \subseteq Instances
        /\ apps' \in [Instances -> {"down", "deploying", "starting", "up"}]
    BY <1>3 DEF Crash, tables, Typed
  <2>. QED BY <1>1, <2>1, <2>2 DEF Typed
<1>4. ASSUME NEW new \in (SUBSET Requests) \ {{}}, RequestReadingProof(i, new)
      PROVE  Typed'
  <2>1. table' \in [Requests -> States] /\ due' \subseteq Instances
        /\ UNCHANGED <<deployed, apps, rounds>>
    BY <1>4 DEF RequestReadingProof, Typed, States
  <2>. QED BY <1>1, <2>1 DEF Typed
<1>. QED BY <1>2, <1>3, <1>4

\* A round begins, or finds nothing, or the stream ends.
LEMMA BeginTyped ==
  ASSUME Typed, NEW i \in Instances,
         Find(i) \/ FindNothing(i) \/ FindRejects(i) \/ SaveErrorRejects(i)
  PROVE  Typed'
<1>1. /\ faults' \in 0..MaxFaults /\ Hashes' = Hashes /\ Round' = Round
      /\ UNCHANGED <<chain, proofs, readings, announced, deployed, apps>>
      /\ due' \subseteq Instances
  BY FaultTyped, SameHashes
     DEF Find, FindNothing, FindRejects, SaveErrorRejects, tables, Typed
<1>2. table' \in [Requests -> States]
  BY UpdatedTyped DEF Find, FindNothing, FindRejects, SaveErrorRejects, tables, Typed, States
<1>3. rounds' \in [Instances -> Round]
  <2>1. CASE Find(i)
    <3>1. PICK b \in Found :
            rounds' = [rounds EXCEPT ![i] = [step |-> "mark", batch |-> b, proof |-> 0]]
      BY <2>1 DEF Find
    <3>2. [step |-> "mark", batch |-> b, proof |-> 0] \in Round
      BY FoundTyped DEF Round, Steps
    <3>. QED BY <3>1, <3>2 DEF Typed
  <2>2. CASE FindNothing(i)
    BY <2>2 DEF FindNothing, Typed
  <2>3. CASE FindRejects(i) \/ SaveErrorRejects(i)
    <3>1. rounds' = [rounds EXCEPT ![i] = [NoRound EXCEPT !.step = "dead"]]
      BY <2>3 DEF FindRejects, SaveErrorRejects
    <3>. QED BY <3>1, RestTyped DEF Typed
  <2>. QED BY <2>1, <2>2, <2>3
<1>. QED BY <1>1, <1>2, <1>3 DEF Typed

\* A call in a round, answered or refused.
LEMMA CallTyped ==
  ASSUME Typed, NEW i \in Instances, Proving(rounds[i]),
         \/ Mark(i) \/ Wait(i) \/ Save(i) \/ Store(i) \/ StoreThrows(i) \/ Remove(i)
         \/ Refused(i)
  PROVE  Typed'
<1>1. \E step \in Steps : Goes(i, step)
  BY DEF Mark, Wait, Save, Store, StoreThrows, Remove, Refused, Answered, Steps
<1>2. /\ faults' \in 0..MaxFaults /\ Hashes' = Hashes /\ Round' = Round
      /\ UNCHANGED <<chain, announced, deployed, apps, due>>
  BY FaultTyped, SameHashes
     DEF Mark, Wait, Save, Store, StoreThrows, Remove, Refused, Answered, tables
<1>3. rounds' \in [Instances -> Round]
  BY <1>1, GoesTyped
<1>4. table' \in [Requests -> States]
  BY UpdatedTyped
     DEF Mark, Wait, Save, Store, StoreThrows, Remove, Refused, tables, Typed, States
<1>5. proofs' \subseteq Hashes /\ readings' \subseteq Requests \X Hashes
  <2>1. CASE Save(i) \/ Store(i)
    <3>1. rounds[i].proof \in Hashes /\ rounds[i].batch \subseteq Requests
      BY <2>1 DEF Save, Store, At, Proving, Typed, Round
    <3>. QED BY <2>1, <3>1 DEF Save, Store, Batch, tables, Typed
  <2>2. CASE ~(Save(i) \/ Store(i))
    BY <2>2 DEF Mark, Wait, StoreThrows, Remove, Refused, tables, Typed
  <2>. QED BY <2>1, <2>2
<1>. QED BY <1>2, <1>3, <1>4, <1>5 DEF Typed

\* A proof is sent.
LEMMA SendTyped ==
  ASSUME Typed, NEW i \in Instances, Send(i)
  PROVE  /\ Typed'
         /\ Len(chain) \in Nat /\ Hashes = 1..Len(chain)
         /\ Hashes' = Hashes \cup {Len(chain) + 1}
         /\ \A p \in Hashes : chain'[p] = chain[p]
         /\ chain'[Len(chain) + 1] = [by |-> i, batch |-> Batch(i), state |-> "sent"]
<1>. DEFINE new == [by |-> i, batch |-> Batch(i), state |-> "sent"]
<1>1. rounds[i] \in Round /\ chain \in Seq(SentProof)
  BY DEF Typed
<1>2. new \in SentProof
  BY <1>1 DEF Round, Batch, SentProof
<1>3. chain' = Append(chain, new)
  BY DEF Send
<1>. HIDE DEF new
<1>4. /\ chain' \in Seq(SentProof) /\ Len(chain) \in Nat /\ Len(chain') = Len(chain) + 1
      /\ \A p \in 1..Len(chain) : chain'[p] = chain[p]
      /\ chain'[Len(chain) + 1] = new
  BY <1>1, <1>2, <1>3, AppendProperties, LenProperties
<1>5. Hashes = 1..Len(chain) /\ Hashes' = Hashes \cup {Len(chain) + 1}
  BY <1>4 DEF Hashes
<1>6. Round \subseteq Round'
  BY <1>5 DEF Round
<1>7. rounds' \in [Instances -> Round']
  <2>1. CASE Goes(i, "error")
    BY <1>6, <2>1, GoesTyped DEF Steps
  <2>2. CASE rounds' = [rounds EXCEPT ![i] = [@ EXCEPT !.step = "wait", !.proof = Len(chain) + 1]]
    <3>1. \A old \in Round : [old EXCEPT !.step = "wait", !.proof = Len(chain) + 1] \in Round'
      <4>1. Len(chain) + 1 \in {0} \cup Hashes'
        BY <1>5
      <4>2. Round' = [step: Steps, batch: SUBSET Requests, proof: {0} \cup Hashes']
        BY DEF Round
      <4>3. \A old \in Round : old \in Round'
        BY <1>6
      <4>. QED BY <4>1, <4>2, <4>3 DEF Steps
    <3>. QED BY <1>6, <2>2, <3>1 DEF Typed
  <2>. QED BY <2>1, <2>2 DEF Send
<1>8. UNCHANGED <<table, deployed, proofs, readings, apps, due, announced>>
      /\ faults' \in 0..MaxFaults
  BY FaultTyped DEF Send, tables
<1>9. Typed'
  BY <1>4, <1>5, <1>7, <1>8 DEF Typed
<1>. QED BY <1>4, <1>5, <1>9 DEF new

\* A round that found something ends with a trigger.
LEMMA EndTyped ==
  ASSUME Typed, NEW i \in Instances, Proving(rounds[i]), Publish(i) \/ SaveError(i)
  PROVE  Typed'
<1>1. /\ faults' \in 0..MaxFaults /\ Hashes' = Hashes /\ Round' = Round
      /\ UNCHANGED <<chain, proofs, readings, deployed, apps>>
  BY FaultTyped, SameHashes DEF Publish, SaveError, tables
<1>2. table' \in [Requests -> States]
  BY UpdatedTyped DEF Publish, SaveError, tables, Typed, States
<1>3. announced' \subseteq Requests \X Hashes
  <2>1. CASE Publish(i)
    <3>1. rounds[i].proof \in Hashes /\ rounds[i].batch \subseteq Requests
      BY <2>1 DEF Publish, At, Proving, Typed, Round
    <3>. QED BY <2>1, <3>1 DEF Publish, Batch, Typed
  <2>. QED BY <2>1 DEF SaveError, Typed
<1>4. rounds' \in [Instances -> Round] /\ due' \subseteq Instances
  BY RestTyped DEF Publish, SaveError, Again, Typed
<1>. QED BY <1>1, <1>2, <1>3, <1>4 DEF Typed

\* The chain mines a proof or reverts it, and what was mined stays.
LEMMA SettleTyped ==
  ASSUME Typed, NEW p \in Hashes, Settle(p)
  PROVE  /\ Typed' /\ Hashes' = Hashes
         /\ \A q \in Hashes : /\ chain'[q].batch = chain[q].batch /\ chain'[q].by = chain[q].by
                              /\ chain[q].state \in {"mined", "reverted"} =>
                                   chain'[q].state = chain[q].state
<1>1. chain \in Seq(SentProof) /\ chain[p] \in SentProof /\ chain[p].state = "sent"
  BY ElementOfSeq DEF Typed, Hashes, Settle
<1>2. PICK state \in {"mined", "reverted"} : chain' = [chain EXCEPT ![p] = [@ EXCEPT !.state = state]]
  BY DEF Settle
<1>3. /\ [chain[p] EXCEPT !.state = state] \in SentProof
      /\ [chain[p] EXCEPT !.state = state].batch = chain[p].batch
      /\ [chain[p] EXCEPT !.state = state].by = chain[p].by
  BY <1>1 DEF SentProof
<1>4. /\ chain' \in Seq(SentProof) /\ Hashes' = Hashes
      /\ \A q \in Hashes : q # p => chain'[q] = chain[q]
      /\ chain'[p] = [chain[p] EXCEPT !.state = state]
  BY <1>1, <1>2, <1>3, ExceptSeq DEF Hashes
<1>5. Round' = Round
  BY <1>4 DEF Round
<1>6. UNCHANGED <<table, deployed, proofs, readings, apps, due, rounds, announced, faults>>
  BY DEF Settle, tables
<1>7. Typed'
  BY <1>4, <1>5, <1>6 DEF Typed
<1>. QED BY <1>1, <1>3, <1>4, <1>7

-----------------------------------------------------------------------------
(* Rounds, and what they have done *)

\* A round that is at a step has done what comes before it: there is its
\* proof among those sent, recorded, and in the readings.
Backed(round, sent, saved, stored) ==
  /\ round.step \in {"wait", "save", "store", "remove", "publish"} =>
       round.proof \in 1..Len(sent) /\ sent[round.proof].batch = round.batch
  /\ round.step \in {"save", "store", "remove", "publish"} => sent[round.proof].state = "mined"
  /\ round.step \in {"store", "remove", "publish"} => round.proof \in saved
  /\ round.step \in {"remove", "publish"} => round.batch \X {round.proof} \subseteq stored

AllBacked == \A i \in Instances : Backed(rounds[i], chain, proofs, readings)

\* The inductive invariant.
ProofInv == Typed /\ AllBacked /\ NothingLost

\* Nothing that rounds rely on goes away.
Grows ==
  /\ Hashes \subseteq Hashes'
  /\ \A p \in Hashes : /\ chain'[p].batch = chain[p].batch
                       /\ chain[p].state = "mined" => chain'[p].state = "mined"
  /\ proofs \subseteq proofs'
  /\ readings \subseteq readings'

\* So a round that does not move stays backed.
LEMMA StaysBacked ==
  ASSUME Grows, NEW round, Backed(round, chain, proofs, readings)
  PROVE  Backed(round, chain', proofs', readings')
<1>1. \A p \in 1..Len(chain) : /\ p \in 1..Len(chain')
                               /\ chain'[p].batch = chain[p].batch
                               /\ chain[p].state = "mined" => chain'[p].state = "mined"
  BY DEF Grows, Hashes
<1>2. proofs \subseteq proofs' /\ readings \subseteq readings'
  BY DEF Grows
<1>3. round.batch \X {round.proof} \subseteq readings =>
        round.batch \X {round.proof} \subseteq readings'
  BY <1>2
<1>. HIDE DEF Grows
<1>. QED BY <1>1, <1>2, <1>3 DEF Backed

\* One round moves, or rests, or none does.
LEMMA OneMoves ==
  ASSUME Typed, AllBacked, Grows, NEW i \in Instances,
         Backed(rounds'[i], chain', proofs', readings'),
         \A j \in Instances : j # i => rounds'[j] = rounds[j]
  PROVE  AllBacked'
<1>1. ASSUME NEW j \in Instances PROVE Backed(rounds'[j], chain', proofs', readings')
  <2>1. CASE j = i
    BY <2>1
  <2>2. CASE j # i
    BY <2>2, StaysBacked DEF AllBacked
  <2>. QED BY <2>1, <2>2
<1>. QED BY <1>1 DEF AllBacked

\* A round at one of these steps relies on nothing.
LEMMA Unbacked ==
  ASSUME NEW round, round.step \in {"rest", "dead", "mark", "send", "error"},
         NEW sent, NEW saved, NEW stored
  PROVE  Backed(round, sent, saved, stored)
BY DEF Backed

\* A round that relies on its proof has one.
LEMMA BackedProves == AllBacked => \A i \in Instances : Proving(rounds[i])
BY DEF AllBacked, Backed, Proving, Hashes

\* What could be verified still can.
LEMMA StaysVerifiable ==
  ASSUME Grows
  PROVE  \A r, p : p \in Hashes /\ Verifiable(r, p) => Verifiable(r, p)'
BY DEF Grows, Verifiable

\* NothingLost, if nothing is removed, stored or announced.
LEMMA NothingMore ==
  ASSUME Typed, NothingLost, Grows, UNCHANGED <<readings, announced>>,
         \A r \in Requests : table'[r] = "removed" => table[r] = "removed"
  PROVE  NothingLost'
<1>1. ASSUME NEW r \in Requests, table'[r] = "removed"
      PROVE  \E p \in Hashes' : <<r, p>> \in readings'
  BY <1>1 DEF NothingLost, Grows
<1>2. ASSUME NEW x \in readings PROVE Verifiable(x[1], x[2])'
  BY StaysVerifiable DEF NothingLost, Typed
<1>. QED BY <1>1, <1>2 DEF NothingLost

\* Rows that are updated to another state than "removed".
LEMMA UpdatedRemoves ==
  ASSUME NEW batch, NEW state, state # "removed", table' = Updated(batch, state)
  PROVE  \A r \in Requests : table'[r] = "removed" => table[r] = "removed"
BY DEF Updated

\* The steps outside of rounds, and those that begin one or end a stream.
LEMMA OutsideKeeps ==
  ASSUME ProofInv, NEW i \in Instances,
         \/ Starting(i) \/ Crash(i)
         \/ \E new \in (SUBSET Requests) \ {{}} : RequestReadingProof(i, new)
  PROVE  ProofInv'
<1>1. Typed' /\ Typed
  BY OutsideTyped DEF ProofInv
<1>2. UNCHANGED <<chain, proofs, readings, announced>>
  BY DEF Starting, Boot, Deployed, Bootstrap, Crash, RequestReadingProof, tables
<1>3. Grows
  BY <1>2 DEF Grows, Hashes
<1>4. \A r \in Requests : table'[r] = "removed" => table[r] = "removed"
  BY DEF Starting, Boot, Deployed, Bootstrap, Crash, RequestReadingProof, tables
<1>5. NothingLost'
  BY <1>1, <1>2, <1>3, <1>4, NothingMore DEF ProofInv
<1>6. AllBacked'
  <2>1. rounds'[i] \in {NoRound, rounds[i]} /\ \A j \in Instances : j # i => rounds'[j] = rounds[j]
    BY <1>1 DEF Starting, Boot, Deployed, Bootstrap, Crash, RequestReadingProof, Typed
  <2>2. NoRound.step = "rest"
    BY DEF NoRound
  <2>3. Backed(NoRound, chain', proofs', readings')
    BY <2>2, Unbacked
  <2>4. Backed(rounds[i], chain', proofs', readings')
    BY <1>3, StaysBacked DEF ProofInv, AllBacked
  <2>. QED BY <1>1, <1>3, <2>1, <2>3, <2>4, OneMoves DEF ProofInv
<1>. QED BY <1>1, <1>5, <1>6 DEF ProofInv

\* Steps that read the table, or fail to.
LEMMA BeginKeeps ==
  ASSUME ProofInv, NEW i \in Instances,
         Find(i) \/ FindNothing(i) \/ FindRejects(i) \/ SaveErrorRejects(i)
  PROVE  ProofInv'
<1>1. Typed' /\ Typed
  BY BeginTyped DEF ProofInv
<1>2. UNCHANGED <<chain, proofs, readings, announced>>
  BY DEF Find, FindNothing, FindRejects, SaveErrorRejects, tables
<1>3. Grows
  BY <1>2 DEF Grows, Hashes
<1>4. \A r \in Requests : table'[r] = "removed" => table[r] = "removed"
  BY UpdatedRemoves DEF Find, FindNothing, FindRejects, SaveErrorRejects, tables
<1>5. NothingLost'
  BY <1>1, <1>2, <1>3, <1>4, NothingMore DEF ProofInv
<1>6. AllBacked'
  <2>1. rounds \in [Instances -> Round]
    BY <1>1 DEF Typed
  <2>2. CASE FindNothing(i)
    BY <1>2, <2>2 DEF FindNothing, ProofInv, AllBacked
  <2>3. CASE ~FindNothing(i)
    <3>1. PICK round : rounds' = [rounds EXCEPT ![i] = round] /\ round.step \in {"mark", "dead"}
      <4>1. CASE Find(i)
        <5>1. PICK b \in Found :
                rounds' = [rounds EXCEPT ![i] = [step |-> "mark", batch |-> b, proof |-> 0]]
          BY <4>1 DEF Find
        <5>2. [step |-> "mark", batch |-> b, proof |-> 0].step = "mark"
          OBVIOUS
        <5>. QED BY <5>1, <5>2
      <4>2. CASE FindRejects(i) \/ SaveErrorRejects(i)
        <5>1. [NoRound EXCEPT !.step = "dead"].step = "dead"
          BY DEF NoRound
        <5>. QED BY <4>2, <5>1 DEF FindRejects, SaveErrorRejects
      <4>. QED BY <2>3, <4>1, <4>2
    <3>2. Backed(round, chain', proofs', readings')
      BY <3>1, Unbacked
    <3>. QED BY <1>1, <1>3, <2>1, <3>1, <3>2, OneMoves DEF ProofInv
  <2>. QED BY <2>2, <2>3
<1>. QED BY <1>1, <1>5, <1>6 DEF ProofInv

\* A step that fails relies on nothing any more.
LEMMA ErrorBacked ==
  ASSUME Typed, AllBacked, Grows, NEW i \in Instances,
         NEW step \in {"send", "error"}, Goes(i, step)
  PROVE  AllBacked'
<1>1. /\ rounds'[i].step = step
      /\ \A j \in Instances : j # i => rounds'[j] = rounds[j]
  BY GoesTyped DEF Steps
<1>2. Backed(rounds'[i], chain', proofs', readings')
  BY <1>1, Unbacked
<1>. QED BY <1>1, <1>2, OneMoves

\* Calls that are refused, rows that are marked, values that are refused.
LEMMA RefusedKeeps ==
  ASSUME ProofInv, NEW i \in Instances, Refused(i) \/ Mark(i) \/ StoreThrows(i)
  PROVE  ProofInv'
<1>1. Typed' /\ Typed
  BY CallTyped, BackedProves DEF ProofInv
<1>2. UNCHANGED <<chain, proofs, readings, announced>>
  BY DEF Refused, Mark, StoreThrows, tables
<1>3. Grows
  BY <1>2 DEF Grows, Hashes
<1>4. \A r \in Requests : table'[r] = "removed" => table[r] = "removed"
  BY UpdatedRemoves DEF Refused, Mark, StoreThrows, tables
<1>5. \E step \in {"send", "error"} : Goes(i, step)
  BY DEF Refused, Mark, StoreThrows, Answered
<1>6. AllBacked'
  BY <1>1, <1>3, <1>5, ErrorBacked DEF ProofInv
<1>. QED BY <1>1, <1>2, <1>3, <1>4, <1>6, NothingMore DEF ProofInv

\* A proof is sent, with the batch of the round.
LEMMA SendKeeps ==
  ASSUME ProofInv, NEW i \in Instances, Send(i)
  PROVE  ProofInv'
<1>1. /\ Typed /\ Typed' /\ Len(chain) \in Nat /\ Hashes = 1..Len(chain)
      /\ Hashes' = Hashes \cup {Len(chain) + 1}
      /\ \A p \in Hashes : chain'[p] = chain[p]
      /\ chain'[Len(chain) + 1] = [by |-> i, batch |-> Batch(i), state |-> "sent"]
  BY SendTyped DEF ProofInv
<1>2. UNCHANGED <<table, proofs, readings, announced>>
  BY DEF Send, tables
<1>3. Grows
  BY <1>1, <1>2 DEF Grows
<1>4. NothingLost'
  BY <1>1, <1>2, <1>3, NothingMore DEF ProofInv
<1>5. AllBacked'
  <2>1. CASE Goes(i, "error")
    BY <1>1, <1>3, <2>1, ErrorBacked DEF ProofInv
  <2>2. CASE rounds' = [rounds EXCEPT ![i] = [@ EXCEPT !.step = "wait", !.proof = Len(chain) + 1]]
    <3>1. rounds[i] \in Round /\ \A j \in Instances : j # i => rounds'[j] = rounds[j]
      BY <1>1, <2>2 DEF Typed
    <3>2. rounds'[i] = [rounds[i] EXCEPT !.step = "wait", !.proof = Len(chain) + 1]
      BY <1>1, <2>2 DEF Typed
    <3>3. rounds'[i].step = "wait"
      BY <3>1, <3>2 DEF Round
    <3>4. rounds'[i].proof = Len(chain) + 1
      BY <3>1, <3>2 DEF Round
    <3>5. rounds'[i].batch = Batch(i)
      BY <3>1, <3>2 DEF Round, Batch
    <3>6. Len(chain) + 1 \in 1..Len(chain')
      BY <1>1 DEF Hashes
    <3>7. Backed(rounds'[i], chain', proofs', readings')
      BY <1>1, <3>3, <3>4, <3>5, <3>6 DEF Backed
    <3>. QED BY <1>1, <1>3, <3>1, <3>7, OneMoves DEF ProofInv
  <2>. QED BY <2>1, <2>2 DEF Send
<1>. QED BY <1>1, <1>4, <1>5 DEF ProofInv

\* A call in the round that was carried out: the round goes on, or fails.
LEMMA AnsweredBacked ==
  ASSUME Typed, AllBacked, Grows, NEW i \in Instances, NEW next \in Steps, Answered(i, next),
         rounds'[i].step = next => Backed(rounds'[i], chain', proofs', readings')
  PROVE  AllBacked'
<1>1. CASE Goes(i, "error")
  BY <1>1, ErrorBacked
<1>2. CASE Goes(i, next)
  <2>1. rounds'[i].step = next /\ \A j \in Instances : j # i => rounds'[j] = rounds[j]
    BY <1>2, GoesTyped
  <2>. QED BY <2>1, OneMoves
<1>. QED BY <1>1, <1>2 DEF Answered

\* What a round that moves on keeps of itself.
LEMMA AnsweredSame ==
  ASSUME Typed, NEW i \in Instances, NEW next \in Steps, Answered(i, next) \/ Goes(i, next)
  PROVE  rounds'[i].batch = rounds[i].batch /\ rounds'[i].proof = rounds[i].proof
BY GoesTyped DEF Answered, Steps

\* The receipt, and the record of the proof.
LEMMA WaitKeeps ==
  ASSUME ProofInv, NEW i \in Instances, Wait(i)
  PROVE  ProofInv'
<1>1. Typed' /\ Typed
  BY CallTyped, BackedProves DEF ProofInv
<1>2. UNCHANGED <<table, chain, proofs, readings, announced>>
  BY DEF Wait, tables
<1>3. Grows
  BY <1>2 DEF Grows, Hashes
<1>4. AllBacked'
  <2>1. CASE Goes(i, "error")
    BY <1>1, <1>3, <2>1, ErrorBacked DEF ProofInv
  <2>2. CASE Goes(i, "save") /\ chain[rounds[i].proof].state = "mined"
    <3>1. /\ rounds'[i].step = "save" /\ rounds'[i].batch = rounds[i].batch
          /\ rounds'[i].proof = rounds[i].proof
          /\ \A j \in Instances : j # i => rounds'[j] = rounds[j]
      BY <1>1, <2>2, GoesTyped DEF Steps
    <3>2. Backed(rounds[i], chain, proofs, readings) /\ rounds[i].step = "wait"
      BY DEF ProofInv, AllBacked, Wait, At
    <3>3. Backed(rounds'[i], chain', proofs', readings')
      BY <1>2, <2>2, <3>1, <3>2 DEF Backed
    <3>. QED BY <1>1, <1>3, <3>1, <3>3, OneMoves DEF ProofInv
  <2>. QED BY <2>1, <2>2 DEF Wait
<1>. QED BY <1>1, <1>2, <1>3, <1>4, NothingMore DEF ProofInv

\* The step that records the root hash of the proof.
LEMMA SaveKeeps ==
  ASSUME ProofInv, NEW i \in Instances, Save(i)
  PROVE  ProofInv'
<1>1. Typed' /\ Typed
  BY CallTyped, BackedProves DEF ProofInv
<1>2. UNCHANGED <<table, chain, readings, announced>> /\ proofs' = proofs \cup {rounds[i].proof}
  BY DEF Save
<1>3. Grows
  BY <1>2 DEF Grows, Hashes
<1>4. Answered(i, "store")
  BY DEF Save
<1>5. Backed(rounds[i], chain, proofs, readings) /\ rounds[i].step = "save"
  BY DEF ProofInv, AllBacked, Save, At
<1>6. rounds'[i].batch = rounds[i].batch /\ rounds'[i].proof = rounds[i].proof
  BY <1>1, <1>4, AnsweredSame DEF Steps
<1>7. rounds'[i].step = "store" => Backed(rounds'[i], chain', proofs', readings')
  BY <1>2, <1>5, <1>6 DEF Backed
<1>8. AllBacked'
  BY <1>1, <1>3, <1>4, <1>7, AnsweredBacked DEF ProofInv, Steps
<1>. QED BY <1>1, <1>2, <1>3, <1>8, NothingMore DEF ProofInv

\* Readings are stored with a proof that can be verified.
LEMMA StoreKeeps ==
  ASSUME ProofInv, NEW i \in Instances, Store(i)
  PROVE  ProofInv'
<1>1. Typed' /\ Typed
  BY CallTyped, BackedProves DEF ProofInv
<1>2. /\ UNCHANGED <<table, chain, proofs, announced>>
      /\ readings' = readings \cup (rounds[i].batch \X {rounds[i].proof})
  BY DEF Store, Batch
<1>3. Grows
  BY <1>2 DEF Grows, Hashes
<1>4. Answered(i, "remove")
  BY DEF Store
<1>5. Backed(rounds[i], chain, proofs, readings) /\ rounds[i].step = "store"
  BY DEF ProofInv, AllBacked, Store, At
<1>6. rounds'[i].batch = rounds[i].batch /\ rounds'[i].proof = rounds[i].proof
  BY <1>1, <1>4, AnsweredSame DEF Steps
<1>7. rounds'[i].step = "remove" => Backed(rounds'[i], chain', proofs', readings')
  BY <1>2, <1>5, <1>6 DEF Backed
<1>8. AllBacked'
  BY <1>1, <1>3, <1>4, <1>7, AnsweredBacked DEF ProofInv, Steps
<1>9. NothingLost'
  <2>1. ASSUME NEW r \in Requests, table'[r] = "removed"
        PROVE  \E p \in Hashes' : <<r, p>> \in readings'
    BY <1>2, <1>3, <2>1 DEF ProofInv, NothingLost, Grows
  <2>2. ASSUME NEW r \in rounds[i].batch PROVE Verifiable(r, rounds[i].proof)'
    <3>1. Verifiable(r, rounds[i].proof)
      BY <1>5 DEF Verifiable, Backed
    <3>2. rounds[i].proof \in proofs' /\ chain'[rounds[i].proof] = chain[rounds[i].proof]
      BY <1>2, <3>1 DEF Verifiable
    <3>3. rounds'[i].proof = rounds[i].proof
      BY <1>6
    <3>. QED BY <3>1, <3>2, <3>3 DEF Verifiable
  <2>3. ASSUME NEW x \in readings' PROVE Verifiable(x[1], x[2])'
    <3>1. CASE x \in readings
      BY <1>3, <3>1, StaysVerifiable DEF ProofInv, NothingLost, Typed
    <3>2. CASE x \in rounds[i].batch \X {rounds[i].proof}
      <4>1. x[1] \in rounds[i].batch /\ x[2] = rounds[i].proof
        BY <3>2
      <4>. QED BY <1>2, <1>5, <4>1 DEF Verifiable, Backed
    <3>. QED BY <1>2, <3>1, <3>2
  <2>4. announced' \subseteq readings'
    BY <1>2 DEF ProofInv, NothingLost
  <2>. QED BY <2>1, <2>3, <2>4 DEF NothingLost
<1>. QED BY <1>1, <1>8, <1>9 DEF ProofInv

\* Rows are removed whose readings are stored.
LEMMA RemoveKeeps ==
  ASSUME ProofInv, NEW i \in Instances, Remove(i)
  PROVE  ProofInv'
<1>1. Typed' /\ Typed
  BY CallTyped, BackedProves DEF ProofInv
<1>2. UNCHANGED <<chain, proofs, readings, announced>> /\ table' = Updated(Batch(i), "removed")
  BY DEF Remove
<1>3. Grows
  BY <1>2 DEF Grows, Hashes
<1>4. Answered(i, "publish")
  BY DEF Remove
<1>5. Backed(rounds[i], chain, proofs, readings) /\ rounds[i].step = "remove"
  BY DEF ProofInv, AllBacked, Remove, At
<1>6. rounds'[i].batch = rounds[i].batch /\ rounds'[i].proof = rounds[i].proof
  BY <1>1, <1>4, AnsweredSame DEF Steps
<1>7. rounds'[i].step = "publish" => Backed(rounds'[i], chain', proofs', readings')
  BY <1>2, <1>5, <1>6 DEF Backed
<1>8. AllBacked'
  BY <1>1, <1>3, <1>4, <1>7, AnsweredBacked DEF ProofInv, Steps
<1>9. NothingLost'
  <2>1. ASSUME NEW r \in Requests, table'[r] = "removed"
        PROVE  \E p \in Hashes' : <<r, p>> \in readings'
    <3>1. CASE table[r] = "removed"
      BY <1>2, <1>3, <3>1 DEF ProofInv, NothingLost, Grows
    <3>2. CASE table[r] # "removed"
      <4>1. r \in rounds[i].batch
        BY <1>2, <2>1, <3>2 DEF Updated, Batch
      <4>2. <<r, rounds[i].proof>> \in readings /\ rounds[i].proof \in Hashes
        BY <1>5, <4>1 DEF Backed, Hashes
      <4>. QED BY <1>2, <1>3, <4>2 DEF Grows
    <3>. QED BY <3>1, <3>2
  <2>2. ASSUME NEW x \in readings PROVE Verifiable(x[1], x[2])'
    BY <1>3, StaysVerifiable DEF ProofInv, NothingLost, Typed
  <2>. QED BY <1>2, <2>1, <2>2 DEF ProofInv, NothingLost
<1>. QED BY <1>1, <1>8, <1>9 DEF ProofInv

\* What is announced is stored; what failed is marked, and the stream goes on.
LEMMA EndKeeps ==
  ASSUME ProofInv, NEW i \in Instances, Publish(i) \/ SaveError(i)
  PROVE  ProofInv'
<1>1. Typed' /\ Typed
  BY EndTyped, BackedProves DEF ProofInv
<1>2. UNCHANGED <<chain, proofs, readings>> /\ rounds' = [rounds EXCEPT ![i] = NoRound]
  BY DEF Publish, SaveError, tables, Again
<1>3. Grows
  BY <1>2 DEF Grows, Hashes
<1>4. AllBacked'
  <2>1. NoRound.step = "rest"
    BY DEF NoRound
  <2>2. Backed(NoRound, chain', proofs', readings')
    BY <2>1, Unbacked
  <2>. QED BY <1>1, <1>2, <1>3, <2>2, OneMoves DEF ProofInv, Typed
<1>5. NothingLost'
  <2>1. CASE SaveError(i)
    <3>1. UNCHANGED announced /\ \A r \in Requests : table'[r] = "removed" => table[r] = "removed"
      BY <2>1, UpdatedRemoves DEF SaveError
    <3>. QED BY <1>1, <1>2, <1>3, <3>1, NothingMore DEF ProofInv
  <2>2. CASE Publish(i)
    <3>1. UNCHANGED table /\ announced' = announced \cup (rounds[i].batch \X {rounds[i].proof})
      BY <2>2 DEF Publish, tables, Batch
    <3>2. rounds[i].batch \X {rounds[i].proof} \subseteq readings
      BY <2>2 DEF Publish, At, ProofInv, AllBacked, Backed
    <3>3. announced' \subseteq readings'
      BY <1>2, <3>1, <3>2 DEF ProofInv, NothingLost
    <3>4. ASSUME NEW r \in Requests, table'[r] = "removed"
          PROVE  \E p \in Hashes' : <<r, p>> \in readings'
      BY <1>2, <1>3, <3>1, <3>4 DEF ProofInv, NothingLost, Grows
    <3>5. ASSUME NEW x \in readings PROVE Verifiable(x[1], x[2])'
      BY <1>3, StaysVerifiable DEF ProofInv, NothingLost, Typed
    <3>. QED BY <1>2, <3>3, <3>4, <3>5 DEF NothingLost
  <2>. QED BY <2>1, <2>2
<1>. QED BY <1>1, <1>4, <1>5 DEF ProofInv

\* A transaction that is mined or reverted.
LEMMA SettleKeeps ==
  ASSUME ProofInv, NEW p \in Hashes, Settle(p)
  PROVE  ProofInv'
<1>1. /\ Typed /\ Typed' /\ Hashes' = Hashes
      /\ \A q \in Hashes : /\ chain'[q].batch = chain[q].batch
                           /\ chain[q].state = "mined" => chain'[q].state = "mined"
  BY SettleTyped DEF ProofInv
<1>2. UNCHANGED <<table, proofs, readings, announced, rounds>>
  BY DEF Settle, tables
<1>3. Grows
  BY <1>1, <1>2 DEF Grows
<1>4. AllBacked'
  <2>1. ASSUME NEW i \in Instances PROVE Backed(rounds[i], chain', proofs', readings')
    BY <1>3, StaysBacked DEF ProofInv, AllBacked
  <2>. QED BY <1>2, <2>1 DEF AllBacked
<1>. QED BY <1>1, <1>2, <1>3, <1>4, NothingMore DEF ProofInv

\* The invariant holds at the start.
LEMMA InitKeeps == Init => ProofInv
<1>. SUFFICES ASSUME Init PROVE ProofInv
  OBVIOUS
<1>1. chain \in Seq(SentProof) /\ NoRound \in Round /\ NoRound.step = "rest"
  BY EmptySeq DEF Init, NoRound, Round, Steps
<1>2. Typed
  <2>1. table \in [Requests -> States] /\ rounds \in [Instances -> Round]
    BY <1>1 DEF Init, States
  <2>2. faults \in 0..MaxFaults
    BY ProofAssumption DEF ProofAssumption, Init
  <2>. QED BY <1>1, <2>1, <2>2 DEF Init, Typed
<1>3. AllBacked
  BY <1>1, Unbacked DEF Init, AllBacked
<1>4. NothingLost
  BY DEF Init, NothingLost
<1>. QED BY <1>2, <1>3, <1>4 DEF ProofInv

\* Every step keeps the invariant.
LEMMA StepKeeps == ProofInv /\ [Next]_vars => ProofInv'
<1>. SUFFICES ASSUME ProofInv, [Next]_vars PROVE ProofInv'
  OBVIOUS
<1>1. CASE UNCHANGED vars
  <2>1. Typed' /\ Hashes' = Hashes
    BY <1>1 DEF vars, tables, ProofInv, Typed, Hashes, Round
  <2>2. AllBacked' /\ NothingLost'
    BY <1>1, <2>1 DEF vars, tables, ProofInv, AllBacked, NothingLost, Verifiable
  <2>. QED BY <2>1, <2>2 DEF ProofInv
<1>2. ASSUME NEW i \in Instances, Processing(i) PROVE ProofInv'
  BY <1>2, BeginKeeps, RefusedKeeps, SendKeeps, WaitKeeps, SaveKeeps, StoreKeeps,
     RemoveKeeps, EndKeeps DEF Processing
<1>3. ASSUME NEW p \in 1..Len(chain), Settle(p) PROVE ProofInv'
  BY <1>3, SettleKeeps DEF Hashes
<1>. QED
  BY <1>1, <1>2, <1>3, OutsideKeeps, BeginKeeps, RefusedKeeps DEF Next

\* No variable loses its type; in particular every reading that is stored
\* or announced names a proof that was sent.
THEOREM ProofTypeCorrectness == Spec => []ProofTypeOK
<1>1. ProofInv => ProofTypeOK
  BY TypedIsTypeOK DEF ProofInv
<1>. QED BY <1>1, InitKeeps, StepKeeps, PTL DEF Spec

\* Whatever is refused, answered late, reverted or cut off, and however many
\* instances work on the same rows: a request leaves the table only when its
\* reading is stored, and every reading that is stored or announced has a
\* proof that is mined, recorded, and contains it.
THEOREM NothingIsEverLost == Spec => []NothingLost
<1>1. ProofInv => NothingLost
  BY DEF ProofInv
<1>. QED BY <1>1, InitKeeps, StepKeeps, PTL DEF Spec

-----------------------------------------------------------------------------
(* Rows that are being processed *)

\* As long as nothing fails: what a round has taken exists, and is gone when
\* the round publishes; a stream at rest has taken nothing; and a row that is
\* marked as processing is in a round.
Attended ==
  /\ \A i \in Instances : \A r \in Batch(i) :
       table[r] # "absent" /\ (At(i, "publish") => table[r] = "removed")
  /\ \A i \in Instances : At(i, "rest") => Batch(i) = {}
  /\ \A r \in Requests : table[r] = "processing" => \E i \in Instances : r \in Batch(i)

AttendInv == faults = 0 => Attended

\* A step without a fault that takes nothing, and begins no end of a round.
LEMMA QuietAttends ==
  ASSUME Attended, UNCHANGED table,
         \A i \in Instances : /\ Batch(i)' = Batch(i)
                              /\ At(i, "rest")' => At(i, "rest")
                              /\ At(i, "publish")' => At(i, "publish")
  PROVE  Attended'
BY DEF Attended

\* A round goes on to a step that asks for nothing new.
LEMMA GoesAttends ==
  ASSUME Typed, Attended, UNCHANGED table, NEW i \in Instances,
         NEW next \in Steps \ {"rest", "publish"}, Goes(i, next)
  PROVE  Attended'
BY QuietAttends DEF Typed, Round, Goes, Batch, At

\* The round of Send, which also notes its proof.
LEMMA SendAttends ==
  ASSUME Typed, Attended, NEW i \in Instances, Send(i), ~Fault
  PROVE  Attended'
<1>1. rounds' = [rounds EXCEPT ![i] = [@ EXCEPT !.step = "wait", !.proof = Len(chain) + 1]]
  BY DEF Send
<1>. QED BY <1>1, QuietAttends DEF Send, tables, Typed, Round, Batch, At

\* Rows that change their state stay if they were there, and rounds that do
\* not move keep what they have taken.
LEMMA UpdatedStates ==
  ASSUME Typed, NEW batch \in SUBSET Requests, NEW state \in States \ {"absent"},
         table' = Updated(batch, state), NEW r \in Requests
  PROVE  /\ table'[r] = "absent" <=> table[r] = "absent"
         /\ table[r] = "removed" => table'[r] = "removed"
         /\ r \in batch /\ table[r] \notin {"absent", "removed"} => table'[r] = state
         /\ r \notin batch => table'[r] = table[r]
BY DEF Updated, Stored, Typed, States

\* The three steps that change the rows of a round.
LEMMA UpdateAttends ==
  ASSUME Typed, Attended, NEW i \in Instances, ~Fault,
         Mark(i) \/ Remove(i) \/ SaveError(i)
  PROVE  Attended'
<1>1. Batch(i) \in SUBSET Requests /\ \A j \in Instances : Batch(j) \in SUBSET Requests
  BY DEF Typed, Round, Batch
<1>2. CASE Mark(i)
  <2>1. table' = Updated(Batch(i), "processing") /\ Goes(i, "send")
    BY <1>2 DEF Mark, Answered
  <2>2. \A j \in Instances : Batch(j)' = Batch(j) /\ (j # i => rounds'[j] = rounds[j])
    BY <2>1 DEF Goes, Batch, Typed, Round
  <2>3. ~At(i, "rest")' /\ ~At(i, "publish")'
    BY <2>1 DEF Goes, At, Typed, Round
  <2>. QED BY <1>1, <2>1, <2>2, <2>3, UpdatedStates DEF Attended, At, States
<1>3. CASE Remove(i)
  <2>1. table' = Updated(Batch(i), "removed") /\ Goes(i, "publish")
    BY <1>3 DEF Remove, Answered
  <2>2. \A j \in Instances : Batch(j)' = Batch(j) /\ (j # i => rounds'[j] = rounds[j])
    BY <2>1 DEF Goes, Batch, Typed, Round
  <2>3. ~At(i, "rest")'
    BY <2>1 DEF Goes, At, Typed, Round
  <2>4. ASSUME NEW r \in Batch(i) PROVE table'[r] = "removed"
    BY <1>1, <2>1, UpdatedStates DEF Attended, States
  <2>. QED BY <1>1, <2>1, <2>2, <2>3, <2>4, UpdatedStates DEF Attended, At, States
<1>4. CASE SaveError(i)
  <2>1. table' = Updated(Batch(i), "processingError") /\ rounds' = [rounds EXCEPT ![i] = NoRound]
    BY <1>4 DEF SaveError, Again
  <2>2. Batch(i)' = {} /\ \A j \in Instances : j # i => rounds'[j] = rounds[j]
    BY <2>1 DEF Batch, NoRound, Typed
  <2>3. \A j \in Instances : j # i => Batch(j)' = Batch(j)
    BY <2>2 DEF Batch
  <2>4. ASSUME NEW r \in Requests, table'[r] = "processing"
        PROVE  \E j \in Instances : r \in Batch(j)'
    <3>1. r \notin Batch(i) /\ table[r] = "processing"
      BY <1>1, <2>1, <2>4, UpdatedStates DEF Typed, States, Attended
    <3>. QED BY <2>3, <3>1 DEF Attended
  <2>. QED BY <1>1, <2>1, <2>2, <2>3, <2>4, UpdatedStates DEF Attended, At, States
<1>. QED BY <1>2, <1>3, <1>4

\* A round begins, or ends well.
LEMMA EndsAttend ==
  ASSUME Typed, Attended, NEW i \in Instances, Find(i) \/ Publish(i)
  PROVE  Attended'
<1>1. UNCHANGED table
  BY DEF Find, Publish, tables
<1>2. PICK round : rounds' = [rounds EXCEPT ![i] = round]
  BY DEF Find, Publish, Again
<1>3. \A j \in Instances : j # i => rounds'[j] = rounds[j] /\ Batch(j)' = Batch(j)
  BY <1>2 DEF Batch, Typed
<1>4. CASE Find(i)
  <2>1. PICK b \in Found : rounds'[i] = [step |-> "mark", batch |-> b, proof |-> 0]
    BY <1>4 DEF Find, Typed
  <2>2. \A r \in b : table[r] # "absent"
    BY DEF Found, RowsOf, Stored
  <2>3. Batch(i) = {}
    BY <1>4 DEF Find, Attended
  <2>. QED BY <1>1, <1>3, <2>1, <2>2, <2>3 DEF Attended, Batch, At
<1>5. CASE Publish(i)
  <2>1. rounds'[i] = NoRound
    BY <1>5 DEF Publish, Again, Typed
  <2>2. \A r \in Batch(i) : table[r] = "removed"
    BY <1>5 DEF Publish, Attended
  <2>. QED BY <1>1, <1>3, <2>1, <2>2 DEF Attended, Batch, At, NoRound
<1>. QED BY <1>4, <1>5

\* Steps of the start and of callers: new rows are in nobody's round.
LEMMA OutsideAttends ==
  ASSUME Typed, Attended, NEW i \in Instances,
         Starting(i) \/ \E new \in SUBSET Requests : RequestReadingProof(i, new)
  PROVE  Attended'
<1>1. UNCHANGED rounds
  BY DEF Starting, Boot, Deployed, Bootstrap, RequestReadingProof
<1>2. CASE UNCHANGED table
  BY <1>1, <1>2 DEF Attended, Batch, At
<1>3. ASSUME NEW new \in SUBSET Requests, RequestReadingProof(i, new) PROVE Attended'
  <2>1. \A r \in Requests : \/ table'[r] = table[r]
                            \/ table[r] = "absent" /\ table'[r] = "pending"
    BY <1>3 DEF RequestReadingProof
  <2>2. \A j \in Instances : Batch(j) \in SUBSET Requests
    BY DEF Typed, Round, Batch
  <2>. QED BY <1>1, <2>1, <2>2 DEF Attended, Batch, At
<1>. QED BY <1>2, <1>3 DEF Starting, Boot, Deployed, Bootstrap, tables

\* Every step keeps it: a fault ends all obligations.
LEMMA StepAttends == Typed /\ AttendInv /\ [Next]_vars => AttendInv'
<1>. SUFFICES ASSUME Typed, AttendInv, [Next]_vars, faults' = 0 PROVE Attended'
  BY DEF AttendInv
<1>1. ~Fault
  BY DEF Fault, Typed
<1>2. CASE UNCHANGED vars
  <2>1. Attended
    BY <1>2 DEF vars, AttendInv
  <2>. QED BY <1>2, <2>1, QuietAttends DEF vars, tables, Batch, At
<1>3. CASE Next
  <2>1. faults = 0
    BY <1>1, <1>3 DEF Next, Starting, Boot, Deployed, Bootstrap, Processing, Find, FindNothing,
         Mark, Send, Wait, Save, Store, StoreThrows, Remove, Publish, SaveError, Answered,
         Refused, FindRejects, SaveErrorRejects, Crash, RequestReadingProof, Settle
  <2>2. Attended
    BY <2>1 DEF AttendInv
  <2>3. ASSUME NEW i \in Instances, Processing(i) PROVE Attended'
    <3>1. CASE FindNothing(i)
      BY <2>2, <3>1, QuietAttends DEF FindNothing, tables, Batch, At
    <3>2. CASE Wait(i) \/ Save(i) \/ Store(i) \/ StoreThrows(i)
      <4>1. UNCHANGED table
        BY <3>2 DEF Wait, Save, Store, StoreThrows, tables
      <4>2. PICK next \in {"save", "store", "remove", "error"} : Goes(i, next)
        BY <3>2 DEF Wait, Save, Store, StoreThrows, Answered
      <4>. QED BY <2>2, <4>1, <4>2, GoesAttends DEF Steps
    <3>. QED BY <1>1, <2>2, <2>3, <3>1, <3>2, SendAttends, UpdateAttends, EndsAttend
             DEF Processing
  <2>4. ASSUME NEW p \in 1..Len(chain), Settle(p) PROVE Attended'
    BY <2>2, <2>4, QuietAttends DEF Settle, tables, Batch, At
  <2>5. ASSUME NEW i \in Instances,
               Refused(i) \/ FindRejects(i) \/ SaveErrorRejects(i) \/ Crash(i)
        PROVE  FALSE
    BY <1>1, <2>5 DEF Refused, FindRejects, SaveErrorRejects, Crash
  <2>6. ASSUME NEW i \in Instances, NEW new \in (SUBSET Requests) \ {{}},
               RequestReadingProof(i, new)
        PROVE  Attended'
    BY <2>2, <2>6, OutsideAttends
  <2>. QED BY <1>3, <2>2, <2>3, <2>4, <2>5, <2>6, OutsideAttends DEF Next
<1>. QED BY <1>2, <1>3

\* As long as no process dies and no call is refused or answered late, a row
\* that is marked as processing is in a round that will remove it or mark it
\* as failed, however many instances take the same rows, and although
\* InfluxDB refuses values and the chain reverts proofs.
THEOREM RowsAreAttended == Spec => []ProcessingIsAttended
<1>1. Spec => []Typed
  <2>1. ProofInv => Typed
    BY DEF ProofInv
  <2>. QED BY <2>1, InitKeeps, StepKeeps, PTL DEF Spec
<1>2. Init => AttendInv
  BY DEF Init, AttendInv, Attended, NoRound, Batch, At
<1>3. AttendInv => ProcessingIsAttended
  BY DEF AttendInv, Attended, ProcessingIsAttended
<1>. QED BY <1>1, <1>2, <1>3, StepAttends, PTL DEF Spec

-----------------------------------------------------------------------------
(* What is paid for *)

\* The proofs of a reading that an instance has sent, in batches that can be
\* stored, and that are mined or may still be.
Paid(r, i) ==
  {p \in Hashes : /\ chain[p].by = i /\ chain[p].state # "reverted"
                  /\ r \in chain[p].batch /\ chain[p].batch \cap Unstorable = {}}

\* The instance has the reading in its round, before and after sending it.
Trying(r, i) == r \in Batch(i) /\ rounds[i].step \in {"mark", "send"}
Shown(r, i)  == r \in Batch(i) /\ rounds[i].step \in {"wait", "save", "store", "remove", "publish"}

\* Each proof but the one of the present round is owed to a fault; but one
\* that removed the row, and after that the instance takes the row no more.
Owed(r, i)    == {p \in Paid(r, i) : ~(Shown(r, i) /\ p = rounds[i].proof)}
Settled(r, i) == table[r] = "removed" /\ ~Trying(r, i) /\ ~Shown(r, i)
PaidOnce(r, i) == Cardinality(Owed(r, i)) <= IF Settled(r, i) THEN faults + 1 ELSE faults

\* What a round has taken exists, and is gone when the round publishes.
TakenOK ==
  \A i \in Instances : \A r \in Batch(i) :
    table[r] # "absent" /\ (At(i, "publish") => table[r] = "removed")

PaidInv == TakenOK /\ \A r \in Requests, i \in Instances : PaidOnce(r, i)

\* These sets are finite.
LEMMA OwedFinite ==
  ASSUME Typed, NEW r, NEW i
  PROVE  /\ IsFiniteSet(Paid(r, i)) /\ Cardinality(Paid(r, i)) \in Nat
         /\ IsFiniteSet(Owed(r, i)) /\ Cardinality(Owed(r, i)) \in Nat
<1>1. IsFiniteSet(Hashes)
  <2>1. Len(chain) \in Nat
    BY DEF Typed
  <2>. QED BY <2>1, FS_Interval DEF Hashes
<1>2. Paid(r, i) \in SUBSET Hashes /\ Owed(r, i) \in SUBSET Hashes
  BY DEF Paid, Owed
<1>3. IsFiniteSet(Paid(r, i)) /\ IsFiniteSet(Owed(r, i))
  BY <1>1, <1>2, FS_Subset
<1>. QED BY <1>3, FS_CardinalityType

\* One element more is one more at most.
LEMMA OneMore ==
  ASSUME NEW S, NEW T, IsFiniteSet(S), Cardinality(S) \in Nat, NEW x, T \subseteq S \cup {x}
  PROVE  IsFiniteSet(T) /\ Cardinality(T) \in Nat /\ Cardinality(T) <= Cardinality(S) + 1
<1> DEFINE n == Cardinality(S)
           m == Cardinality(S \cup {x})
<1>1. IsFiniteSet(S \cup {x}) /\ m = IF x \in S THEN n ELSE n + 1
  BY FS_AddElement, ZenonT(20)
<1>2. IsFiniteSet(T) /\ Cardinality(T) <= m /\ Cardinality(T) \in Nat
  BY <1>1, FS_Subset, FS_CardinalityType
<1>3. n \in Nat
  OBVIOUS
<1> HIDE DEF n, m
<1>4. Cardinality(T) <= n + 1
  BY <1>1, <1>2, <1>3
<1>. QED BY <1>2, <1>4 DEF n

\* Fewer proofs stay within as many faults or more.
LEMMA WithinExcuse ==
  \A m, n, a, b \in Nat : m <= n /\ n <= a + 1 /\ a <= b => m <= b + 1
OBVIOUS

\* The ways in which a step keeps the account of a reading: nothing is added
\* and nothing excused; or a fault excuses one more; or the row is removed.
LEMMA AccountKept ==
  ASSUME Typed, faults' \in Nat, NEW r, NEW i, PaidOnce(r, i),
         \/ /\ Owed(r, i)' \subseteq Owed(r, i) /\ faults <= faults'
            /\ Settled(r, i) => Settled(r, i)'
         \/ faults' = faults + 1 /\ Owed(r, i)' \subseteq Owed(r, i)
         \/ /\ faults' = faults + 1 /\ ~Settled(r, i)
            /\ \E x : Owed(r, i)' \subseteq Owed(r, i) \cup {x}
         \/ /\ faults' = faults /\ Settled(r, i)' /\ ~Settled(r, i)
            /\ \E x : Owed(r, i)' \subseteq Owed(r, i) \cup {x}
  PROVE  PaidOnce(r, i)'
<1> DEFINE S == Owed(r, i)
           T == Owed(r, i)'
<1>1. IsFiniteSet(S) /\ Cardinality(S) \in Nat /\ faults \in Nat
  BY OwedFinite DEF Typed
<1>2. Cardinality(S) <= IF Settled(r, i) THEN faults + 1 ELSE faults
  BY DEF PaidOnce
<1>3. ASSUME T \subseteq S
      PROVE  Cardinality(T) \in Nat /\ Cardinality(T) <= Cardinality(S)
  <2> HIDE DEF S, T
  <2>. QED BY <1>1, <1>3, FS_Subset, FS_CardinalityType
<1>4. ASSUME NEW x, T \subseteq S \cup {x}
      PROVE  Cardinality(T) \in Nat /\ Cardinality(T) <= Cardinality(S) + 1
  <2> HIDE DEF S, T
  <2>. QED BY <1>1, <1>4, OneMore
<1> DEFINE n == Cardinality(S)
           m == Cardinality(T)
<1> HIDE DEF S, T
<1>5. m <= IF Settled(r, i)' THEN faults' + 1 ELSE faults'
  <2>1. n \in Nat /\ n <= faults + 1 /\ (~Settled(r, i) => n <= faults)
    <3>1. n \in Nat
      BY <1>1
    <3>2. n <= IF Settled(r, i) THEN faults + 1 ELSE faults
      BY <1>2 DEF S
    <3> HIDE DEF n
    <3>. QED BY <1>1, <3>1, <3>2
  <2>2. CASE T \subseteq S /\ faults <= faults' /\ (Settled(r, i) => Settled(r, i)')
    <3>1. m \in Nat /\ m <= n
      BY <1>3, <2>2
    <3>2. CASE Settled(r, i)'
      <4>1. m <= faults' + 1
        <5>1. faults <= faults' /\ faults' \in Nat /\ faults \in Nat
          BY <1>1, <2>2
        <5>2. n \in Nat /\ n <= faults + 1 /\ m \in Nat /\ m <= n
          BY <2>1, <3>1
        <5> HIDE DEF n, m
        <5>. QED BY <5>1, <5>2, WithinExcuse
      <4>. QED BY <3>2, <4>1
    <3>3. CASE ~Settled(r, i)'
      <4>1. n <= faults
        BY <2>1, <2>2, <3>3
      <4>2. faults <= faults' /\ n \in Nat
        BY <2>1, <2>2
      <4> HIDE DEF n, m
      <4>3. m <= faults'
        BY <1>1, <3>1, <4>1, <4>2
      <4>. QED BY <3>3, <4>3
    <3>. QED BY <3>2, <3>3
  <2>3. CASE faults' = faults + 1 /\ T \subseteq S
    <3>1. m \in Nat /\ m <= n
      BY <1>3, <2>3
    <3> HIDE DEF n, m
    <3>. QED BY <1>1, <2>1, <2>3, <3>1
  <2>4. ASSUME NEW x, T \subseteq S \cup {x}, ~Settled(r, i),
               faults' = faults + 1 \/ (faults' = faults /\ Settled(r, i)')
        PROVE  m <= IF Settled(r, i)' THEN faults' + 1 ELSE faults'
    <3>1. m \in Nat /\ m <= n + 1 /\ n <= faults
      BY <1>4, <2>1, <2>4
    <3> HIDE DEF n, m
    <3>2. CASE faults' = faults + 1
      <4>1. m <= faults' /\ m <= faults' + 1
        BY <1>1, <2>1, <3>1, <3>2
      <4>. QED BY <4>1
    <3>3. CASE faults' = faults /\ Settled(r, i)'
      <4>1. m <= faults' + 1
        BY <1>1, <2>1, <3>1, <3>3
      <4>. QED BY <3>3, <4>1
    <3>. QED BY <2>4, <3>2, <3>3
  <2>. QED BY <2>2, <2>3, <2>4 DEF S, T
<1>. QED BY <1>5 DEF PaidOnce, m, T

\* No proof is added when none is sent.
LEMMA PaidShrinks ==
  ASSUME Typed, UNCHANGED chain \/ \E p \in Hashes : Settle(p)
  PROVE  \A r, i : Paid(r, i)' \subseteq Paid(r, i)
<1>1. CASE UNCHANGED chain
  BY <1>1 DEF Paid, Hashes
<1>2. CASE \E p \in Hashes : Settle(p)
  BY <1>2, SettleTyped DEF Paid
<1>. QED BY <1>1, <1>2

\* Rows that are gone stay gone, and rows that exist do not cease to.
RowsStay ==
  \A r \in Requests : /\ table[r] = "removed" => table'[r] = "removed"
                      /\ table[r] # "absent" => table'[r] # "absent"

\* For an instance that does not move, nothing is added either.
LEMMA StillPaidOnce ==
  ASSUME Typed, PaidInv, RowsStay, faults' \in Nat, faults <= faults',
         NEW r \in Requests, NEW i \in Instances, rounds'[i] = rounds[i],
         Paid(r, i)' \subseteq Paid(r, i)
  PROVE  PaidOnce(r, i)'
<1>1. Owed(r, i)' \subseteq Owed(r, i) /\ (Settled(r, i) => Settled(r, i)')
  BY DEF Owed, Settled, Shown, Trying, Batch, RowsStay
<1>. QED BY <1>1, AccountKept DEF PaidInv

\* A fault in a round ends it, or sends it to its error, and excuses the
\* proof that it has sent.
LEMMA FaultExcused ==
  ASSUME Typed, PaidInv, faults' = faults + 1, NEW r \in Requests, NEW i \in Instances,
         rounds'[i].step \in {"rest", "dead", "error"},
         Paid(r, i)' \subseteq Paid(r, i)
  PROVE  PaidOnce(r, i)'
<1>1. faults' \in Nat
  BY DEF Typed
<1>2. ~Shown(r, i)' /\ Owed(r, i)' = Paid(r, i)'
  BY DEF Shown, Owed
<1>3. CASE Shown(r, i)
  <2>1. ~Settled(r, i) /\ Owed(r, i)' \subseteq Owed(r, i) \cup {rounds[i].proof}
    BY <1>2, <1>3 DEF Settled, Owed
  <2>. QED BY <1>1, <2>1, AccountKept DEF PaidInv
<1>4. CASE ~Shown(r, i)
  <2>1. Owed(r, i)' \subseteq Owed(r, i)
    BY <1>2, <1>4 DEF Owed
  <2>. QED BY <1>1, <2>1, AccountKept DEF PaidInv
<1>. QED BY <1>3, <1>4

\* The round goes on with its batch and its proof.
Continues(i, steps) ==
  /\ rounds[i].step \in steps /\ rounds'[i].step \in steps
  /\ rounds'[i].batch = rounds[i].batch /\ rounds'[i].proof = rounds[i].proof

LEMMA ContinuesPaid ==
  ASSUME Typed, PaidInv, RowsStay, UNCHANGED faults, NEW r \in Requests, NEW i \in Instances,
         \/ Continues(i, {"mark", "send"})
         \/ Continues(i, {"wait", "save", "store", "remove", "publish"}),
         Paid(r, i)' \subseteq Paid(r, i)
  PROVE  PaidOnce(r, i)'
<1>1. Owed(r, i)' \subseteq Owed(r, i) /\ (Settled(r, i) => Settled(r, i)')
  BY DEF Continues, Owed, Settled, Shown, Trying, Batch, RowsStay
<1>2. faults \in Nat
  BY DEF Typed
<1>. QED BY <1>1, <1>2, AccountKept DEF PaidInv

\* The call of a step is answered, or a fault sends the round to its error.
LEMMA AnsweredPaid ==
  ASSUME Typed, PaidInv, RowsStay, NEW r \in Requests, NEW i \in Instances,
         NEW next \in Steps, Answered(i, next), UNCHANGED chain,
         \/ {rounds[i].step, next} \subseteq {"mark", "send"}
         \/ {rounds[i].step, next} \subseteq {"wait", "save", "store", "remove", "publish"}
  PROVE  PaidOnce(r, i)'
<1>1. Paid(r, i)' \subseteq Paid(r, i)
  BY PaidShrinks
<1>2. CASE Goes(i, next) /\ UNCHANGED faults
  <2>1. \/ Continues(i, {"mark", "send"})
        \/ Continues(i, {"wait", "save", "store", "remove", "publish"})
    BY <1>2, GoesTyped DEF Continues
  <2>. QED BY <1>1, <1>2, <2>1, ContinuesPaid
<1>3. CASE Goes(i, "error") /\ Fault
  <2>1. rounds'[i].step = "error"
    BY <1>3, GoesTyped DEF Steps
  <2>. QED BY <1>1, <1>3, <2>1, FaultExcused DEF Fault
<1>. QED BY <1>2, <1>3 DEF Answered

\* A round that ends, or fails, by itself has no proof to account for.
LEMMA DroppedPaid ==
  ASSUME Typed, PaidInv, RowsStay, UNCHANGED faults, NEW r \in Requests, NEW i \in Instances,
         Shown(r, i) => rounds[i].proof \notin Paid(r, i),
         rounds'[i].step \in {"rest", "dead", "error"},
         Paid(r, i)' \subseteq Paid(r, i)
  PROVE  PaidOnce(r, i)'
<1>1. Owed(r, i)' \subseteq Owed(r, i)
  BY DEF Owed
<1>2. Settled(r, i) => Settled(r, i)'
  BY DEF Settled, Trying, Shown, RowsStay
<1>3. faults \in Nat
  BY DEF Typed
<1>. QED BY <1>1, <1>2, <1>3, AccountKept DEF PaidInv

\* A batch is taken from the rows that are there.
LEMMA FindPaid ==
  ASSUME Typed, PaidInv, RowsStay, NEW r \in Requests, NEW i \in Instances, Find(i)
  PROVE  PaidOnce(r, i)'
<1>1. UNCHANGED <<table, chain, faults>> /\ rounds[i].step = "rest"
  BY DEF Find, tables, At
<1>2. PICK b \in Found : rounds'[i] = [step |-> "mark", batch |-> b, proof |-> 0]
  BY DEF Find, Typed
<1>3. table[r] = "removed" => r \notin b
  BY DEF Found, RowsOf, Stored
<1>4. Paid(r, i)' \subseteq Paid(r, i) /\ faults \in Nat
  BY <1>1, PaidShrinks DEF Typed
<1>5. Owed(r, i)' \subseteq Owed(r, i)
  BY <1>1, <1>4 DEF Owed, Shown
<1>6. Settled(r, i) => Settled(r, i)'
  BY <1>1, <1>2, <1>3 DEF Settled, Trying, Shown, Batch
<1>. QED BY <1>1, <1>4, <1>5, <1>6, AccountKept DEF PaidInv

\* The proof of a round that was published has removed the rows.
LEMMA PublishPaid ==
  ASSUME Typed, PaidInv, RowsStay, NEW r \in Requests, NEW i \in Instances, Publish(i)
  PROVE  PaidOnce(r, i)'
<1>1. UNCHANGED <<table, chain, faults>> /\ rounds[i].step = "publish" /\ rounds'[i] = NoRound
  BY DEF Publish, Again, tables, At, Typed
<1>2. Paid(r, i)' \subseteq Paid(r, i) /\ faults' \in Nat
  BY <1>1, PaidShrinks DEF Typed
<1>3. rounds'[i].step = "rest"
  BY <1>1 DEF NoRound
<1>4. CASE r \in Batch(i)
  <2>1. table[r] = "removed"
    BY <1>1, <1>4 DEF PaidInv, TakenOK, At
  <2>2. ~Settled(r, i) /\ Settled(r, i)'
    BY <1>1, <1>3, <1>4, <2>1 DEF Settled, Shown, Trying
  <2>3. Owed(r, i)' \subseteq Owed(r, i) \cup {rounds[i].proof}
    BY <1>2 DEF Owed
  <2>. QED BY <1>1, <1>2, <2>2, <2>3, AccountKept DEF PaidInv
<1>5. CASE r \notin Batch(i)
  BY <1>1, <1>2, <1>3, <1>5, DroppedPaid DEF Shown
<1>. QED BY <1>4, <1>5

\* A proof that is sent counts for the instance that sends it.
LEMMA SendGrows ==
  ASSUME Typed, NEW i \in Instances, Send(i), NEW r
  PROVE  /\ Paid(r, i)' \subseteq Paid(r, i) \cup {Len(chain) + 1}
         /\ r \notin Batch(i) => Paid(r, i)' \subseteq Paid(r, i)
         /\ \A j : j # i => Paid(r, j)' \subseteq Paid(r, j)
<1>1. /\ Hashes' = Hashes \cup {Len(chain) + 1}
      /\ \A p \in Hashes : chain'[p] = chain[p]
      /\ chain'[Len(chain) + 1] = [by |-> i, batch |-> Batch(i), state |-> "sent"]
  BY SendTyped
<1>2. /\ chain'[Len(chain) + 1].by = i
      /\ chain'[Len(chain) + 1].batch = Batch(i)
  BY <1>1
<1>. QED BY <1>1, <1>2 DEF Paid

\* It is the proof of the round, or a fault excuses it.
LEMMA SendPaid ==
  ASSUME Typed, PaidInv, RowsStay, NEW r \in Requests, NEW i \in Instances, Send(i)
  PROVE  PaidOnce(r, i)'
<1>. DEFINE new == Len(chain) + 1
<1>1. UNCHANGED table /\ rounds[i].step = "send" /\ faults \in Nat
  BY DEF Send, tables, At, Typed
<1>2. /\ Paid(r, i)' \subseteq Paid(r, i) \cup {new}
      /\ r \notin Batch(i) => Paid(r, i)' \subseteq Paid(r, i)
  BY SendGrows
<1>3. Owed(r, i) = Paid(r, i) /\ (r \in Batch(i) => ~Settled(r, i))
  BY <1>1 DEF Owed, Shown, Settled, Trying
<1>. HIDE DEF new
<1>4. CASE /\ rounds' = [rounds EXCEPT ![i] = [@ EXCEPT !.step = "wait", !.proof = Len(chain) + 1]]
           /\ UNCHANGED faults
  <2>1. rounds'[i].step = "wait" /\ rounds'[i].proof = new /\ Batch(i)' = Batch(i)
    BY <1>4 DEF Typed, Round, Batch, new
  <2>2. Owed(r, i)' \subseteq Owed(r, i)
    BY <1>2, <1>3, <2>1 DEF Owed, Shown
  <2>3. Settled(r, i) => Settled(r, i)'
    BY <1>1, <1>3, <2>1 DEF Settled, Trying, Shown
  <2>. QED BY <1>1, <1>4, <2>2, <2>3, AccountKept DEF PaidInv
<1>5. CASE Goes(i, "error") /\ Fault
  <2>1. Owed(r, i)' \subseteq Owed(r, i) \cup {new} /\ faults' = faults + 1
    BY <1>2, <1>3, <1>5 DEF Owed, Fault
  <2>2. r \notin Batch(i) => Owed(r, i)' \subseteq Owed(r, i)
    BY <1>2, <1>3 DEF Owed
  <2>3. faults' \in Nat
    BY <1>1, <2>1
  <2>. QED BY <1>3, <2>1, <2>2, <2>3, AccountKept DEF PaidInv
<1>. QED BY <1>4, <1>5 DEF Send

\* The receipt: a proof that was reverted costs nothing that counts.
LEMMA WaitPaid ==
  ASSUME ProofInv, PaidInv, RowsStay, NEW r \in Requests, NEW i \in Instances, Wait(i)
  PROVE  PaidOnce(r, i)'
<1>1. Typed /\ UNCHANGED <<chain, faults>> /\ rounds[i].step = "wait"
  BY DEF Wait, ProofInv, At
<1>2. Paid(r, i)' \subseteq Paid(r, i)
  BY <1>1, PaidShrinks
<1>3. rounds[i].proof \in Hashes
  BY <1>1 DEF ProofInv, AllBacked, Backed, Hashes
<1>4. chain[rounds[i].proof].state \in {"sent", "mined", "reverted"}
  <2>1. chain \in Seq(SentProof) /\ rounds[i].proof \in 1..Len(chain)
    BY <1>1, <1>3 DEF Typed, Hashes
  <2>2. chain[rounds[i].proof] \in SentProof
    BY <2>1, ElementOfSeq
  <2>. QED BY <2>2 DEF SentProof
<1>5. CASE Goes(i, "save")
  <2>1. Continues(i, {"wait", "save", "store", "remove", "publish"})
    BY <1>1, <1>5, GoesTyped DEF Continues, Steps
  <2>. QED BY <1>1, <1>2, <2>1, ContinuesPaid
<1>6. CASE Goes(i, "error") /\ chain[rounds[i].proof].state = "reverted"
  <2>1. rounds'[i].step = "error"
    BY <1>1, <1>6, GoesTyped DEF Steps
  <2>2. rounds[i].proof \notin Paid(r, i)
    BY <1>6 DEF Paid
  <2>. QED BY <1>1, <1>2, <2>1, <2>2, DroppedPaid
<1>. QED BY <1>4, <1>5, <1>6 DEF Wait

\* The proof of a batch that cannot be stored is not counted.
LEMMA StoreThrowsPaid ==
  ASSUME ProofInv, PaidInv, RowsStay, NEW r \in Requests, NEW i \in Instances, StoreThrows(i)
  PROVE  PaidOnce(r, i)'
<1>1. Typed /\ UNCHANGED <<chain, faults>> /\ rounds[i].step = "store"
  BY DEF StoreThrows, ProofInv, At
<1>2. Paid(r, i)' \subseteq Paid(r, i)
  BY <1>1, PaidShrinks
<1>3. chain[rounds[i].proof].batch = Batch(i)
  BY <1>1 DEF ProofInv, AllBacked, Backed, Batch
<1>4. rounds[i].proof \notin Paid(r, i)
  BY <1>3 DEF StoreThrows, Paid
<1>5. rounds'[i].step = "error"
  BY <1>1, GoesTyped DEF StoreThrows, Steps
<1>. QED BY <1>1, <1>2, <1>4, <1>5, DroppedPaid

\* Rows are created, and change their state; none ceases to be.
LEMMA RowsAlwaysStay ==
  ASSUME Typed, [Next]_vars
  PROVE  RowsStay
<1>1. CASE UNCHANGED table
  BY <1>1 DEF RowsStay
<1>2. ASSUME NEW i \in Instances, NEW new, RequestReadingProof(i, new) PROVE RowsStay
  BY <1>2 DEF RequestReadingProof, RowsStay
<1>3. ASSUME NEW i \in Instances,
             NEW state \in {"processing", "removed", "processingError"},
             table' = Updated(Batch(i), state)
      PROVE  RowsStay
  <2>1. Batch(i) \in SUBSET Requests
    BY DEF Typed, Round, Batch
  <2>. QED BY <1>3, <2>1, UpdatedStates DEF RowsStay, States
<1>4. ASSUME NEW i \in Instances, Mark(i) \/ Remove(i) \/ SaveError(i) \/ SaveErrorRejects(i)
      PROVE  UNCHANGED table \/ \E state \in {"processing", "removed", "processingError"} :
                                  table' = Updated(Batch(i), state)
  BY <1>4 DEF Mark, Remove, SaveError, SaveErrorRejects
<1>5. ASSUME NEW i \in Instances,
             \/ Starting(i) \/ Find(i) \/ FindNothing(i) \/ Send(i) \/ Wait(i) \/ Save(i)
             \/ Store(i) \/ StoreThrows(i) \/ Publish(i) \/ Refused(i) \/ FindRejects(i)
             \/ Crash(i)
      PROVE  UNCHANGED table
  BY <1>5 DEF Starting, Boot, Deployed, Bootstrap, Find, FindNothing, Send, Wait, Save, Store,
       StoreThrows, Publish, Refused, FindRejects, Crash, tables
<1>6. ASSUME NEW p, Settle(p) PROVE UNCHANGED table
  BY <1>6 DEF Settle, tables
<1>7. CASE UNCHANGED vars
  BY <1>1, <1>7 DEF vars, tables
<1>. QED BY <1>1, <1>2, <1>3, <1>4, <1>5, <1>6, <1>7 DEF Next, Processing

\* What a round holds is shown for the one that moves.
LEMMA TakenStays ==
  ASSUME Typed, TakenOK, RowsStay, NEW i \in Instances,
         \A j \in Instances : j # i => rounds'[j] = rounds[j],
         \A r \in rounds'[i].batch :
           table'[r] # "absent" /\ (rounds'[i].step = "publish" => table'[r] = "removed")
  PROVE  TakenOK'
<1>1. ASSUME NEW j \in Instances, NEW r \in Batch(j)'
      PROVE  table'[r] # "absent" /\ (At(j, "publish")' => table'[r] = "removed")
  <2>1. CASE j = i
    BY <2>1 DEF Batch, At
  <2>2. CASE j # i
    <3>1. r \in Batch(j) /\ (At(j, "publish")' => At(j, "publish")) /\ r \in Requests
      BY <2>2 DEF Batch, At, Typed, Round
    <3>. QED BY <3>1 DEF TakenOK, RowsStay
  <2>. QED BY <2>1, <2>2
<1>. QED BY <1>1 DEF TakenOK

\* A round that goes on holds what it held.
LEMMA GoesTaken ==
  ASSUME Typed, TakenOK, RowsStay, NEW i \in Instances, NEW step \in Steps, Goes(i, step),
         step = "publish" => \A r \in Batch(i) : table'[r] = "removed"
  PROVE  TakenOK'
<1>1. /\ rounds'[i].step = step /\ rounds'[i].batch = rounds[i].batch
      /\ \A j \in Instances : j # i => rounds'[j] = rounds[j]
  BY GoesTyped
<1>2. rounds[i].batch \subseteq Requests
  BY DEF Typed, Round
<1>3. \A r \in rounds'[i].batch : table'[r] # "absent"
  BY <1>1, <1>2 DEF TakenOK, RowsStay, Batch
<1>. QED BY <1>1, <1>3, TakenStays DEF Batch

\* Every step keeps it.
LEMMA TakenKept ==
  ASSUME Typed, TakenOK, RowsStay, [Next]_vars
  PROVE  TakenOK'
<1>1. CASE UNCHANGED rounds
  <2>1. ASSUME NEW j \in Instances, NEW r \in Batch(j)'
        PROVE  table'[r] # "absent" /\ (At(j, "publish")' => table'[r] = "removed")
    <3>1. r \in Batch(j) /\ At(j, "publish")' = At(j, "publish") /\ r \in Requests
      BY <1>1 DEF Batch, At, Typed, Round
    <3>. QED BY <3>1 DEF TakenOK, RowsStay
  <2>. QED BY <2>1 DEF TakenOK
<1>2. ASSUME NEW i \in Instances, NEW step \in Steps \ {"publish"}, Goes(i, step)
      PROVE  TakenOK'
  BY <1>2, GoesTaken
<1>3. ASSUME NEW i \in Instances,
             \/ Mark(i) \/ Wait(i) \/ Save(i) \/ Store(i) \/ StoreThrows(i) \/ Refused(i)
      PROVE  TakenOK'
  <2>1. \E step \in Steps \ {"publish"} : Goes(i, step)
    BY <1>3 DEF Mark, Wait, Save, Store, StoreThrows, Refused, Answered, Steps
  <2>. QED BY <1>2, <2>1
<1>4. ASSUME NEW i \in Instances, Remove(i) PROVE TakenOK'
  <2>1. table' = Updated(Batch(i), "removed") /\ Batch(i) \in SUBSET Requests
    BY <1>4 DEF Remove, Typed, Round, Batch
  <2>2. \A r \in Batch(i) : table'[r] = "removed"
    BY <2>1, UpdatedStates DEF TakenOK, States
  <2>3. \E step \in {"publish", "error"} : Goes(i, step)
    BY <1>4 DEF Remove, Answered
  <2>. QED BY <2>2, <2>3, GoesTaken DEF Steps
<1>5. ASSUME NEW i \in Instances, Find(i) PROVE TakenOK'
  <2>1. PICK b \in Found :
          rounds' = [rounds EXCEPT ![i] = [step |-> "mark", batch |-> b, proof |-> 0]]
    BY <1>5 DEF Find
  <2>2. \A r \in b : table'[r] # "absent"
    BY <1>5 DEF Find, tables, Found, RowsOf, Stored
  <2>3. rounds'[i] = [step |-> "mark", batch |-> b, proof |-> 0]
        /\ \A j \in Instances : j # i => rounds'[j] = rounds[j]
    BY <2>1 DEF Typed
  <2>. QED BY <2>2, <2>3, TakenStays
<1>6. ASSUME NEW i \in Instances,
             \/ Publish(i) \/ SaveError(i) \/ SaveErrorRejects(i) \/ FindRejects(i) \/ Crash(i)
      PROVE  TakenOK'
  <2>1. rounds'[i].batch = {} /\ \A j \in Instances : j # i => rounds'[j] = rounds[j]
    BY <1>6 DEF Publish, SaveError, SaveErrorRejects, FindRejects, Crash, Again, NoRound, Typed
  <2>. QED BY <2>1, TakenStays
<1>7. ASSUME NEW i \in Instances, Send(i) PROVE TakenOK'
  <2>1. CASE Goes(i, "error")
    BY <1>2, <2>1 DEF Steps
  <2>2. CASE rounds' = [rounds EXCEPT ![i] = [@ EXCEPT !.step = "wait", !.proof = Len(chain) + 1]]
    <3>1. /\ rounds'[i].step = "wait" /\ rounds'[i].batch = Batch(i)
          /\ \A j \in Instances : j # i => rounds'[j] = rounds[j]
      BY <2>2 DEF Typed, Round, Batch
    <3>2. Batch(i) \subseteq Requests
      BY DEF Typed, Round, Batch
    <3>3. \A r \in Batch(i) : table'[r] # "absent"
      BY <3>2 DEF TakenOK, RowsStay
    <3>. QED BY <3>1, <3>3, TakenStays
  <2>. QED BY <1>7, <2>1, <2>2 DEF Send
<1>8. ASSUME NEW i \in Instances, Starting(i) \/ FindNothing(i) PROVE UNCHANGED rounds
  BY <1>8 DEF Starting, Boot, Deployed, Bootstrap, FindNothing
<1>9. ASSUME NEW i \in Instances, NEW new, RequestReadingProof(i, new) PROVE UNCHANGED rounds
  BY <1>9 DEF RequestReadingProof
<1>10. ASSUME NEW p, Settle(p) PROVE UNCHANGED rounds
  BY <1>10 DEF Settle
<1>11. CASE UNCHANGED vars
  BY <1>1, <1>11 DEF vars
<1>. QED BY <1>1, <1>3, <1>4, <1>5, <1>6, <1>7, <1>8, <1>9, <1>10, <1>11 DEF Next, Processing

\* The account of the instance that moves.
LEMMA MoverPaid ==
  ASSUME ProofInv, PaidInv, RowsStay, NEW r \in Requests, NEW i \in Instances,
         Processing(i) \/ Refused(i) \/ FindRejects(i) \/ SaveErrorRejects(i) \/ Crash(i)
  PROVE  PaidOnce(r, i)'
<1>1. Typed
  BY DEF ProofInv
<1>2. CASE Mark(i) \/ Save(i) \/ Store(i) \/ Remove(i)
  <2>1. UNCHANGED chain
    BY <1>2 DEF Mark, Save, Store, Remove
  <2>2. PICK next \in Steps :
          /\ Answered(i, next)
          /\ \/ {rounds[i].step, next} \subseteq {"mark", "send"}
             \/ {rounds[i].step, next} \subseteq {"wait", "save", "store", "remove", "publish"}
    BY <1>2 DEF Mark, Save, Store, Remove, At, Steps
  <2>. QED BY <1>1, <2>1, <2>2, AnsweredPaid
<1>3. CASE Refused(i) \/ FindRejects(i) \/ SaveErrorRejects(i) \/ Crash(i)
  <2>1. UNCHANGED chain /\ faults' = faults + 1
    BY <1>3 DEF Refused, FindRejects, SaveErrorRejects, Crash, Fault, tables
  <2>2. Paid(r, i)' \subseteq Paid(r, i)
    BY <1>1, <2>1, PaidShrinks
  <2>3. rounds'[i].step \in {"rest", "dead", "error"}
    <3>1. CASE Refused(i)
      BY <1>1, <3>1, GoesTyped DEF Refused, Steps
    <3>2. CASE FindRejects(i) \/ SaveErrorRejects(i) \/ Crash(i)
      BY <1>1, <3>2 DEF FindRejects, SaveErrorRejects, Crash, NoRound, Typed
    <3>. QED BY <1>3, <3>1, <3>2
  <2>. QED BY <1>1, <2>1, <2>2, <2>3, FaultExcused
<1>4. CASE FindNothing(i)
  <2>1. UNCHANGED <<chain, rounds, faults>>
    BY <1>4 DEF FindNothing
  <2>2. Paid(r, i)' \subseteq Paid(r, i) /\ faults' \in Nat /\ faults <= faults'
    BY <1>1, <2>1, PaidShrinks DEF Typed
  <2>. QED BY <1>1, <2>1, <2>2, StillPaidOnce
<1>5. CASE SaveError(i)
  <2>1. UNCHANGED <<chain, faults>> /\ rounds[i].step = "error" /\ rounds'[i] = NoRound
    BY <1>1, <1>5 DEF SaveError, Again, At, Typed
  <2>2. Paid(r, i)' \subseteq Paid(r, i)
    BY <1>1, <2>1, PaidShrinks
  <2>. QED BY <1>1, <2>1, <2>2, DroppedPaid DEF NoRound, Shown
<1>. QED BY <1>1, <1>2, <1>3, <1>4, <1>5, FindPaid, SendPaid, WaitPaid, StoreThrowsPaid,
         PublishPaid DEF Processing

\* The account of an instance that does not.
LEMMA OthersPaid ==
  ASSUME ProofInv, PaidInv, RowsStay, NEW r \in Requests, NEW j \in Instances,
         \/ \E i \in Instances \ {j} :
              Processing(i) \/ Refused(i) \/ FindRejects(i) \/ SaveErrorRejects(i) \/ Crash(i)
         \/ \E i \in Instances :
              Starting(i) \/ \E new \in (SUBSET Requests) \ {{}} : RequestReadingProof(i, new)
         \/ \E p \in Hashes : Settle(p)
  PROVE  PaidOnce(r, j)'
<1>1. Typed /\ faults \in Nat
  BY DEF ProofInv, Typed
<1>2. ASSUME NEW i \in Instances \ {j},
             Processing(i) \/ Refused(i) \/ FindRejects(i) \/ SaveErrorRejects(i) \/ Crash(i)
      PROVE  PaidOnce(r, j)'
  <2>1. faults' = faults \/ faults' = faults + 1
    BY <1>2 DEF Processing, Find, FindNothing, Mark, Send, Wait, Save, Store, StoreThrows,
         Remove, Publish, SaveError, Refused, FindRejects, SaveErrorRejects, Crash,
         Answered, Fault
  <2>2. faults' \in Nat /\ faults <= faults'
    BY <1>1, <2>1
  <2>3. \E round : rounds' = [rounds EXCEPT ![i] = round]
    <3>1. CASE FindNothing(i)
      <4>1. rounds' = [rounds EXCEPT ![i] = rounds[i]]
        BY <1>1, <3>1 DEF FindNothing, Typed
      <4>. QED BY <4>1
    <3>2. CASE Find(i)
      BY <3>2 DEF Find
    <3>3. CASE Send(i)
      BY <3>3 DEF Send, Goes
    <3>4. CASE \/ Mark(i) \/ Wait(i) \/ Save(i) \/ Store(i) \/ StoreThrows(i) \/ Remove(i)
               \/ Refused(i)
      <4>1. \E step : Goes(i, step)
        BY <3>4 DEF Mark, Wait, Save, Store, StoreThrows, Remove, Refused, Answered
      <4>. QED BY <4>1 DEF Goes
    <3>5. CASE Publish(i) \/ SaveError(i) \/ FindRejects(i) \/ SaveErrorRejects(i) \/ Crash(i)
      BY <3>5 DEF Publish, SaveError, FindRejects, SaveErrorRejects, Crash, Again
    <3>. QED BY <1>2, <3>1, <3>2, <3>3, <3>4, <3>5 DEF Processing
  <2>4. rounds'[j] = rounds[j]
    BY <1>1, <2>3 DEF Typed
  <2>5. Paid(r, j)' \subseteq Paid(r, j)
    <3>1. CASE Send(i)
      BY <1>1, <3>1, SendGrows
    <3>2. CASE ~Send(i)
      <4>1. UNCHANGED chain
        BY <1>2, <3>2 DEF Processing, Find, FindNothing, Mark, Wait, Save, Store, StoreThrows,
             Remove, Publish, SaveError, Refused, FindRejects, SaveErrorRejects, Crash, tables
      <4>. QED BY <1>1, <4>1, PaidShrinks
    <3>. QED BY <3>1, <3>2
  <2>. QED BY <1>1, <2>2, <2>4, <2>5, StillPaidOnce
<1>3. ASSUME UNCHANGED rounds, UNCHANGED faults, UNCHANGED chain \/ \E p \in Hashes : Settle(p)
      PROVE  PaidOnce(r, j)'
  <2>1. Paid(r, j)' \subseteq Paid(r, j)
    BY <1>1, <1>3, PaidShrinks
  <2>2. faults' \in Nat /\ faults <= faults'
    BY <1>1, <1>3
  <2>. QED BY <1>1, <1>3, <2>1, <2>2, StillPaidOnce
<1>4. ASSUME NEW i \in Instances,
             Starting(i) \/ \E new \in (SUBSET Requests) \ {{}} : RequestReadingProof(i, new)
      PROVE  UNCHANGED <<rounds, faults, chain>>
  BY <1>4 DEF Starting, Boot, Deployed, Bootstrap, RequestReadingProof
<1>5. ASSUME NEW p \in Hashes, Settle(p) PROVE UNCHANGED <<rounds, faults>>
  BY <1>5 DEF Settle
<1>. QED BY <1>2, <1>3, <1>4, <1>5

\* Every step keeps all accounts.
LEMMA StepPaid == ProofInv /\ PaidInv /\ [Next]_vars => PaidInv'
<1>. SUFFICES ASSUME ProofInv, PaidInv, [Next]_vars PROVE PaidInv'
  OBVIOUS
<1>1. Typed /\ faults \in Nat
  BY DEF ProofInv, Typed
<1>2. RowsStay
  BY <1>1, RowsAlwaysStay
<1>3. TakenOK'
  BY <1>1, <1>2, TakenKept DEF PaidInv
<1>4. ASSUME NEW r \in Requests, NEW j \in Instances PROVE PaidOnce(r, j)'
  <2>1. CASE UNCHANGED vars
    <3>1. UNCHANGED <<rounds, faults, chain>>
      BY <2>1 DEF vars
    <3>2. Paid(r, j)' \subseteq Paid(r, j) /\ faults' \in Nat /\ faults <= faults'
      BY <1>1, <3>1, PaidShrinks
    <3>. QED BY <1>1, <1>2, <3>1, <3>2, StillPaidOnce
  <2>2. CASE Next
    <3>1. CASE Processing(j) \/ Refused(j) \/ FindRejects(j) \/ SaveErrorRejects(j) \/ Crash(j)
      BY <1>2, <3>1, MoverPaid
    <3>2. CASE ~(Processing(j) \/ Refused(j) \/ FindRejects(j) \/ SaveErrorRejects(j) \/ Crash(j))
      <4>1. \/ \E i \in Instances \ {j} :
                 Processing(i) \/ Refused(i) \/ FindRejects(i) \/ SaveErrorRejects(i) \/ Crash(i)
            \/ \E i \in Instances :
                 Starting(i) \/ \E new \in (SUBSET Requests) \ {{}} : RequestReadingProof(i, new)
            \/ \E p \in Hashes : Settle(p)
        BY <2>2, <3>2 DEF Next, Hashes
      <4>. QED BY <1>2, <4>1, OthersPaid
    <3>. QED BY <3>1, <3>2
  <2>. QED BY <2>1, <2>2
<1>. QED BY <1>3, <1>4 DEF PaidInv

\* At the start nothing is sent.
LEMMA InitPaid == Init => PaidInv
<1>. SUFFICES ASSUME Init PROVE PaidInv
  OBVIOUS
<1>1. ASSUME NEW r \in Requests, NEW i \in Instances PROVE PaidOnce(r, i)
  <2>1. Owed(r, i) = {}
    <3>1. Hashes = {}
      BY DEF Init, Hashes
    <3>. QED BY <3>1 DEF Owed, Paid
  <2>2. Cardinality(Owed(r, i)) = 0
    BY <2>1, FS_EmptySet
  <2>. QED BY <2>2 DEF PaidOnce, Init
<1>2. TakenOK
  BY DEF Init, TakenOK, Batch, NoRound
<1>. QED BY <1>1, <1>2 DEF PaidInv

\* What is mined is among what is owed, but for the proof of the round.
LEMMA PaidIsBounded == ProofInv /\ PaidInv => ProofsBounded
<1>. SUFFICES ASSUME ProofInv, PaidInv, NEW r \in Requests, NEW i \in Instances
              PROVE  Cardinality({p \in Hashes : /\ chain[p].by = i /\ chain[p].state = "mined"
                                                 /\ r \in chain[p].batch
                                                 /\ chain[p].batch \cap Unstorable = {}})
                       <= 1 + faults
  BY DEF ProofsBounded
<1>. DEFINE Twice == {p \in Hashes : /\ chain[p].by = i /\ chain[p].state = "mined"
                                     /\ r \in chain[p].batch
                                     /\ chain[p].batch \cap Unstorable = {}}
            m == Cardinality(Twice)
            n == Cardinality(Owed(r, i))
<1>1. Typed /\ faults \in Nat
  BY DEF ProofInv, Typed
<1>2. /\ IsFiniteSet(Paid(r, i)) /\ IsFiniteSet(Owed(r, i)) /\ n \in Nat
      /\ n <= IF Settled(r, i) THEN faults + 1 ELSE faults
  BY <1>1, OwedFinite DEF PaidInv, PaidOnce
<1>3. Twice \subseteq Paid(r, i)
  BY DEF Paid
<1>4. CASE Shown(r, i)
  <2>1. ~Settled(r, i) /\ Twice \subseteq Owed(r, i) \cup {rounds[i].proof}
    BY <1>3, <1>4 DEF Settled, Owed
  <2>2. m \in Nat /\ m <= n + 1
    <3> HIDE DEF Twice
    <3>. QED BY <1>2, <2>1, OneMore
  <2>3. n <= faults
    BY <1>2, <2>1
  <2> HIDE DEF m, n
  <2>4. n \in Nat
    BY <1>2
  <2>5. m <= 1 + faults
    BY <1>1, <2>2, <2>3, <2>4
  <2>. QED BY <2>5 DEF m
<1>5. CASE ~Shown(r, i)
  <2>1. Twice \subseteq Owed(r, i)
    BY <1>3, <1>5 DEF Owed
  <2>2. m \in Nat /\ m <= n
    <3> HIDE DEF Twice
    <3>. QED BY <1>2, <2>1, FS_Subset, FS_CardinalityType
  <2>3. n <= faults + 1
    <3>1. n \in Nat /\ (n <= faults \/ n <= faults + 1)
      BY <1>2
    <3> HIDE DEF n
    <3>. QED BY <1>1, <3>1
  <2> HIDE DEF m, n
  <2>4. n \in Nat
    BY <1>2
  <2>5. m <= 1 + faults
    BY <1>1, <2>2, <2>3, <2>4
  <2>. QED BY <2>5 DEF m
<1>. QED BY <1>4, <1>5

\* However many instances take the same rows: one of them has two proofs of a
\* reading mined only after a call was refused or answered late, or after a
\* crash, or because the reading was in a batch that InfluxDB refuses; and
\* with every such fault at most one proof more.
THEOREM NobodyPaysTwice == Spec => []ProofsBounded
BY InitKeeps, StepKeeps, InitPaid, StepPaid, PaidIsBounded, PTL DEF Spec
=============================================================================
