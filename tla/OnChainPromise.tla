---------------------------- MODULE OnChainPromise ----------------------------
(***************************************************************************)
(* What a caller of OnChainCertificateService may rely on, whatever the    *)
(* queue, the workers, the listeners and the chain do in between: a call   *)
(* that resolves was executed, nothing is executed that was not asked for, *)
(* and an answer is given once and for good.  It promises no more than     *)
(* that: a call that rejects may have been executed, or may still be.      *)
(***************************************************************************)
CONSTANT Calls  \* calls of the service

VARIABLES
  answer,   \* what the caller of each call knows
  executed  \* the calls that the chain has executed, once or more often

promised == <<answer, executed>>

Answers == {"none", "waiting", "resolved", "nothing", "rejected", "gone"}

Init ==
  /\ answer = [c \in Calls |-> "none"]
  /\ executed = {}

\* A call begins; one that asks for nothing returns at once.
Ask(c) ==
  /\ answer[c] = "none"
  /\ \E a \in {"waiting", "nothing"} : answer' = [answer EXCEPT ![c] = a]
  /\ UNCHANGED executed

\* The chain executes the call, also when its caller has stopped waiting.
Execute(c) ==
  /\ answer[c] \notin {"none", "nothing"}
  /\ executed' = executed \cup {c}
  /\ UNCHANGED answer

Resolve(c) ==
  /\ answer[c] = "waiting"
  /\ c \in executed
  /\ answer' = [answer EXCEPT ![c] = "resolved"]
  /\ UNCHANGED executed

Reject(c) ==
  /\ answer[c] = "waiting"
  /\ answer' = [answer EXCEPT ![c] = "rejected"]
  /\ UNCHANGED executed

\* The callers in one process die together.
Leave(S) ==
  /\ \A c \in S : answer[c] = "waiting"
  /\ answer' = [c \in Calls |-> IF c \in S THEN "gone" ELSE answer[c]]
  /\ UNCHANGED executed

Next ==
  \/ \E c \in Calls : Ask(c) \/ Execute(c) \/ Resolve(c) \/ Reject(c)
  \/ \E S \in SUBSET Calls : Leave(S)

Spec == Init /\ [][Next]_promised
=============================================================================
