----------------------------- MODULE ClaimService -----------------------------
(***************************************************************************)
(* ClaimService.claim of origin-247-claim: a matching, the claim of what   *)
(* it matched on the off-chain certificates, and the logs of the result in *)
(* three tables, one after the other and without a transaction.  A caller  *)
(* whose claim failed may try the same input again.                        *)
(***************************************************************************)
EXTENDS SpreadMatcher

CONSTANTS
  MaxTries,  \* bound: calls of claim with the same input
  MaxFaults  \* bound: calls of other services and tables that reject

ASSUME ClaimAssumption == {MaxTries, MaxFaults} \subseteq Nat

VARIABLES
  step,     \* of the call: "match", "claim", "log", "reported" or "rejected"
  balance,  \* what is left on the certificate of each generation
  logs,     \* how often each entry of the report is in its table
  tries,
  faults

serviceVars == <<step, balance, logs, tries, faults>>
vars == <<matcherVars, serviceVars>>

\* The entries of a report: matches, leftover consumptions and excess
\* generations.
Entries == ({"match"} \X Pairs) \cup ({"left"} \X ToSet(Entities))

Init ==
  /\ MatcherInit
  /\ step = "match"
  /\ balance = [g \in Generations |-> input.volume[<<2, g>>]]
  /\ logs = [x \in Entries |-> 0]
  /\ tries = 1
  /\ faults = 0

Fault(n) == faults + n <= MaxFaults /\ faults' = faults + n

\* The algorithm, which is synchronous.  What it throws reaches the caller.
Match ==
  /\ step = "match"
  /\ MatcherStep
  /\ step' = CASE outcome' = "running"  -> "match"
               [] outcome' = "returned" -> "claim"
               [] outcome' = "threw"    -> "rejected"
  /\ UNCHANGED <<balance, logs, tries, faults>>

FilteredMatches == {x \in Pairs : matched[x] > 0}

\* createRaport, after filterZeroVolumeMatches
Report ==
  ({"match"} \X FilteredMatches) \cup ({"left"} \X {e \in ToSet(Entities) : volume[e] > 0})

Wanted(g) == FoldFunctionOnSet(+, 0, matched, {x \in FilteredMatches : x[2] = g})
Covered == \A g \in Generations : Wanted(g) <= balance[g]
Claimed == [g \in Generations |-> balance[g] - Wanted(g)]

BatchClaimUnchecked ==  \* mutant: what can be claimed is claimed
  /\ step = "claim"
  /\ balance' = [g \in Generations |-> IF Wanted(g) <= balance[g] THEN Claimed[g] ELSE balance[g]]
  /\ step' = "log"
  /\ UNCHANGED <<matcherVars, logs, tries, faults>>

\* batchClaim of the certificates: all matches or none, and nothing is
\* refused if there are no matches.
BatchClaim ==
  /\ step = "claim"
  /\ Covered
  /\ balance' = Claimed
  /\ step' = "log"
  /\ UNCHANGED <<matcherVars, logs, tries, faults>>

BatchClaimRefuses ==
  /\ step = "claim"
  /\ ~Covered
  /\ step' = "rejected"
  /\ UNCHANGED <<matcherVars, balance, logs, tries, faults>>

\* It rejects before or after the events were stored.
BatchClaimFails ==
  /\ step = "claim"
  /\ FilteredMatches # {}
  /\ Covered
  /\ balance' \in {balance, Claimed}
  /\ step' = "rejected"
  /\ Fault(1)
  /\ UNCHANGED <<matcherVars, logs, tries>>

LostOf(report) == UNION {kSubset(n, report) : n \in 0..MaxFaults - faults}

Logged(report, lost) ==
  [x \in Entries |-> IF x \in report \ lost THEN logs[x] + 1 ELSE logs[x]]

\* createLogs: all entries at once.  When one is rejected the caller is told
\* so, and the others are stored all the same.
CreateLogs ==
  /\ step = "log"
  /\ \E lost \in LostOf(Report) :
       /\ Fault(Cardinality(lost))
       /\ logs' = Logged(Report, lost)
       /\ step' = IF lost = {} THEN "reported" ELSE "rejected"
  /\ UNCHANGED <<matcherVars, balance, tries>>

\* The same input is matched in the same way.
Retry ==
  /\ step = "rejected"
  /\ outcome = "returned"
  /\ tries < MaxTries
  /\ tries' = tries + 1
  /\ step' = "claim"
  /\ UNCHANGED <<matcherVars, balance, logs, faults>>

Next ==
  \/ Match \/ BatchClaim \/ BatchClaimRefuses \/ BatchClaimFails \/ CreateLogs \/ Retry

Spec == Init /\ [][Next]_vars

-----------------------------------------------------------------------------
(* Properties *)

\* Certificates are claimed for the whole report or not at all, and matches
\* are logged only for claims that went through, however often the call is
\* tried again.  A retry may claim twice, but not without a fault that its
\* caller was told of; and a caller that gets a report finds all of it in the
\* tables (claim.service.ts:57-66, 107-141).
LogsFollowClaims ==
  \E k \in 0..tries :
    /\ k <= 1 + faults
    /\ \A g \in Generations : balance[g] = input.volume[<<2, g>>] - k * Wanted(g)
    /\ \A x \in Pairs : logs[<<"match", x>>] <= k
    /\ step = "reported" => \A x \in Report : logs[x] > 0
=============================================================================
