---------------------------- MODULE SpreadMatcher ----------------------------
(***************************************************************************)
(* SpreadMatcher.spreadMatcher of origin-247-claim: the volumes of the     *)
(* consumptions are distributed over those of the generations, round by    *)
(* round, by the priorities of consumers and, for each of them, of         *)
(* generators.                                                             *)
(*                                                                         *)
(* An entity is a side and a place in the list of that side; its id may be *)
(* that of other entities, too.  Groups are lists, as in the code: of two  *)
(* that could be served the first is, and an id that is repeated in a      *)
(* group is served for each time it is named.                              *)
(***************************************************************************)
EXTENDS Integers, Sequences, FiniteSets, SequencesExt

CONSTANTS
  Ids,         \* <<ids of the consumptions, ids of the generations>>
  Volumes,     \* volumes that an entity may come with
  Priorities,  \* group priorities that a caller may give
  MaxRounds    \* 10 000 in the code

Consumptions == 1..Len(Ids[1])
Generations  == 1..Len(Ids[2])
Pairs        == Consumptions \X Generations

\* All entities, consumptions first: [...entities1, ...entities2].
Entities == [i \in Consumptions |-> <<1, i>>] \o [i \in Generations |-> <<2, i>>]

IsList(s) == Len(s) \in Nat /\ DOMAIN s = 1..Len(s)

AreGroups(groups) == IsList(groups) /\ \A k \in DOMAIN groups : IsList(groups[k])

ASSUME MatcherAssumption ==
  /\ IsList(Ids[1]) /\ IsList(Ids[2])
  /\ Volumes \subseteq Nat
  /\ MaxRounds \in Nat
  /\ \A groups \in Priorities :
       /\ AreGroups(groups)
       /\ \A k \in DOMAIN groups : \A n \in DOMAIN groups[k] :
            AreGroups(groups[k][n].groupPriority)

VARIABLES
  input,   \* the priorities and the volumes that the caller gave
  volume,  \* what is left of each entity
  matched, \* the sum of the matches of each pair
  rounds,  \* the counter i of the loop
  outcome  \* of the call: "running", "returned" or "threw"

matcherVars == <<input, volume, matched, rounds, outcome>>

MatcherInit ==
  /\ \E v \in [ToSet(Entities) -> Volumes], p \in Priorities :
       input = [priority |-> p, volume |-> v]
  /\ volume = input.volume
  /\ matched = [x \in Pairs |-> 0]
  /\ rounds = 1
  /\ outcome = "running"

-----------------------------------------------------------------------------
(* The input of a round: getRoundInput *)

\* prepareEntitiesForRoundInput: the entities of an id that are not used up.
UsableOf(side, id) == {n \in 1..Len(Ids[side]) : Ids[side][n] = id /\ volume[<<side, n>>] # 0}

UsableGroups(groups, side) ==
  {k \in DOMAIN groups : \E n \in DOMAIN groups[k] : UsableOf(side, groups[k][n].id) # {}}

LastUsableGroup(groups, side) ==  \* mutant: the search starts at the end
  LET usable == UsableGroups(groups, side)
  IN  IF usable = {} THEN <<>>
      ELSE groups[CHOOSE k \in usable : \A l \in usable : l <= k]

\* getFirstUsableGroup
FirstUsableGroup(groups, side) ==
  LET usable == UsableGroups(groups, side)
  IN  IF usable = {} THEN <<>>
      ELSE groups[CHOOSE k \in usable : \A l \in usable : k <= l]

ConsumerGroup == FirstUsableGroup(input.priority, 1)
GeneratorGroup(entry) == FirstUsableGroup(entry.groupPriority, 2)

\* A route <<x, n, m>> joins the pair x because of the entries n of the
\* consumers and m of the generators of that entry: cartesian.
RoutesBy(n, m) ==
  (UsableOf(1, ConsumerGroup[n].id)
     \X UsableOf(2, GeneratorGroup(ConsumerGroup[n])[m].id)) \X {n} \X {m}

Routes ==
  UNION {UNION {RoutesBy(n, m) : m \in DOMAIN GeneratorGroup(ConsumerGroup[n])} :
           n \in DOMAIN ConsumerGroup}

RoutesOf(e, routes) == {r \in routes : r[1][e[1]] = e[2]}

\* The routes of a pair: several, if an id is repeated.
Via(x, routes) == {r \in routes : r[1] = x}

\* Routes are in the order of the consumers' entries, their entities, the
\* generators' entries and their entities.
Rank(r) == <<r[2], r[1][1], r[3], r[1][2]>>

Before(r, s) ==
  \E k \in 1..4 : Rank(r)[k] < Rank(s)[k] /\ \A l \in 1..(k - 1) : Rank(r)[l] = Rank(s)[l]

-----------------------------------------------------------------------------
(* A round: matchRound *)

ShareRoundedUp(e, routes) ==  \* mutant: nobody is left with a remainder
  LET k == Cardinality(RoutesOf(e, routes)) IN (volume[e] + k - 1) \div k

\* What an entity can give to each of its routes: the division drops the
\* fraction.
Share(e, routes) ==
  LET k == Cardinality(RoutesOf(e, routes))
  IN  IF volume[e] >= 0 THEN volume[e] \div k ELSE -((-volume[e]) \div k)

Routed(routes) == {m \in DOMAIN Entities : RoutesOf(Entities[m], routes) # {}}

\* computeSafeDistribution: the first entity with the smallest share.
Scarcest(routes) ==
  LET share(m) == Share(Entities[m], routes)
  IN  Entities[CHOOSE m \in Routed(routes) :
        \A n \in Routed(routes) : share(m) < share(n) \/ (share(m) = share(n) /\ m <= n)]

RoundMatchesInOrder(routes) ==  \* mutant: one route gets all it can
  LET first == CHOOSE r \in routes : TRUE
      most  == {volume[<<1, first[1][1]>>], volume[<<2, first[1][2]>>]}
  IN  [x \in Pairs |-> IF x = first[1] THEN CHOOSE v \in most : \A w \in most : v <= w ELSE 0]

RoundMatchesWithoutUnits(routes) ==  \* mutant: a share of nothing is given out
  [x \in Pairs |-> Share(Scarcest(routes), routes) * Cardinality(Via(x, routes))]

\* As many of an entity's first routes as it has units: slice, which leaves
\* so many of the last ones out when the entity gave too much.
Served(e, routes) ==
  LET own   == RoutesOf(e, routes)
      units == IF volume[e] >= 0 THEN volume[e] ELSE Cardinality(own) + volume[e]
  IN  {r \in own : Cardinality({s \in own : Before(s, r)}) < units}

\* Every route gets the smallest share; if that is nothing, the entity gives
\* one unit to as many of its routes as it has units.
RoundMatches(routes) ==
  LET scarce == Scarcest(routes)
      share  == Share(scarce, routes)
      served == Served(scarce, routes)
  IN  IF share # 0 THEN [x \in Pairs |-> share * Cardinality(Via(x, routes))]
      ELSE [x \in Pairs |-> Cardinality(Via(x, served))]

Given(matches, e) ==
  FoldFunctionOnSet(+, 0, matches, {x \in Pairs : x[e[1]] = e[2]})

MatchRound ==
  /\ outcome = "running"
  /\ rounds <= MaxRounds
  /\ LET routes  == Routes
         matches == RoundMatches(routes)
     IN  /\ routes # {}
         /\ volume' = [e \in ToSet(Entities) |-> volume[e] - Given(matches, e)]
         /\ matched' = [x \in Pairs |-> matched[x] + matches[x]]
  /\ rounds' = rounds + 1
  /\ UNCHANGED <<input, outcome>>

\* The loop ends: one of the sides is used up, or what is left has no route.
\* It throws when there were too many rounds.
Stop ==
  /\ outcome = "running"
  /\ rounds > MaxRounds \/ Routes = {}
  /\ outcome' = IF rounds > MaxRounds THEN "threw" ELSE "returned"
  /\ UNCHANGED <<input, volume, matched, rounds>>

MatcherStep == MatchRound \/ Stop

-----------------------------------------------------------------------------
(* Properties *)

\* In each of the groups an id is named once at most.
NamesOnce(groups) ==
  \A k \in DOMAIN groups :
    \A m, n \in DOMAIN groups[k] : groups[k][m].id = groups[k][n].id => m = n

\* No group of the caller's priorities names an id twice: neither one of
\* consumers, nor one of the generators that these prefer.
NobodyNamedTwice ==
  /\ NamesOnce(input.priority)
  /\ \A k \in DOMAIN input.priority : \A n \in DOMAIN input.priority[k] :
       NamesOnce(input.priority[k][n].groupPriority)

\* Nothing gets lost: in every round the volume of an entity is what is left
\* of it and what it was matched with, in spite of shares that do not divide
\* evenly, of remainders that are given out one by one, and of several
\* entities with one id.  Nor does an entity give more than it has, unless a
\* group names an id twice: its routes then come twice, and an entity with a
\* single unit may give one to each of them (spreadMatcher.ts:131-137, 233-258).
VolumesConserved ==
  \A e \in ToSet(Entities) :
    /\ volume[e] + Given(matched, e) = input.volume[e]
    /\ NobodyNamedTwice => volume[e] >= 0

GroupOf(groups, id) ==
  {k \in DOMAIN groups : \E entry \in ToSet(groups[k]) : entry.id = id}

\* Where an id is listed in groups; a later group is only served when the
\* entities of all groups before it are used up, although volumes are
\* handed out in rounds with changing routes (spreadMatcher.ts:276-288, 358-362).
UsedUp(groups, k, side) ==
  \A l \in 1..(k - 1) : \A entry \in ToSet(groups[l]) : UsableOf(side, entry.id) = {}

PrioritiesRespected ==
  \A x \in Pairs :
    matched[x] > 0 =>
      \E k \in GroupOf(input.priority, Ids[1][x[1]]) :
        /\ UsedUp(input.priority, k, 1)
        /\ \E entry \in ToSet(input.priority[k]) :
             /\ entry.id = Ids[1][x[1]]
             /\ \E l \in GroupOf(entry.groupPriority, Ids[2][x[2]]) :
                  UsedUp(entry.groupPriority, l, 2)

Equals(i, j) ==
  \E k \in DOMAIN input.priority :
    \E a, b \in ToSet(input.priority[k]) :
      /\ a.id = Ids[1][i] /\ b.id = Ids[1][j]
      /\ a.groupPriority = b.groupPriority

\* README: "spreading matches equally over devices of equal priority".  A
\* consumption is behind another one of its rank by at most one unit for
\* each generation, unless it got all it wanted.  An id that is named twice
\* is served twice.
SpreadEvenly ==
  NobodyNamedTwice =>
    \A i, j \in Consumptions :
      Equals(i, j) /\ volume[<<1, i>>] > 0 =>
        Given(matched, <<1, j>>) - Given(matched, <<1, i>>) <= Len(Ids[2])

\* Unless a group names an id twice, the matcher ends after at most two
\* rounds for each entity, so that it throws only if that is more than the
\* limit: rounds that give out nothing do not exist (spreadMatcher.ts:106-127,
\* 233-253).
RoundsBounded ==
  NobodyNamedTwice =>
    /\ rounds <= 2 * Len(Entities) + 1
    /\ outcome = "threw" => MaxRounds <= 2 * Len(Entities)
=============================================================================
