--------------------------- MODULE MCClaimService ---------------------------
(* Three consumptions, two of them with the same id, and two generations. *)
EXTENDS ClaimService

TwoAndTwo == <<<<"a", "b", "a">>, <<"x", "y">>>>

X == [id |-> "x"]
Y == [id |-> "y"]
Preferences ==
  {<<>>, <<<<X>>>>, <<<<X, Y>>>>, <<<<Y, X>>>>, <<<<X>>, <<Y>>>>, <<<<Y>>, <<X>>>>}

A(preference) == [id |-> "a", groupPriority |-> preference]
B(preference) == [id |-> "b", groupPriority |-> preference]

\* Consumers of one rank, in two ranks, and one that has no priority.
SomePriorities ==
  UNION {{<<<<A(p), B(q)>>>>, <<<<A(p)>>, <<B(q)>>>>, <<<<B(p)>>>>} :
           p \in Preferences, q \in Preferences}

\* Some name an id twice in a group: a generator, a consumer, or both.
RepeatedPriorities ==
  UNION {{<<<<A(<<<<X, X, Y>>>>), B(p)>>>>, <<<<A(p), A(p), B(p)>>>>, <<<<A(p), A(<<<<Y, Y>>>>)>>>>} :
           p \in Preferences}

AllPriorities == SomePriorities \cup RepeatedPriorities
=============================================================================
