--------------------------- MODULE ClaimServiceProofs ---------------------------
(***************************************************************************)
(* The matching of consumptions and generations and the claim of its       *)
(* result, for any lists of entities, volumes and priorities, any number   *)
(* of tries and faults: no volume vanishes, priorities are kept, and the   *)
(* logs follow the claims.  If no group names an id twice, nobody gives    *)
(* more than it has and the rounds are at most two for each entity; and    *)
(* volume is spread evenly if no id is in two groups, either.              *)
(***************************************************************************)
EXTENDS ClaimService, FiniteSums, SequenceTheorems

AllEntities == ToSet(Entities)

\* The pairs of an entity.
At(e) == {x \in Pairs : x[e[1]] = e[2]}

-----------------------------------------------------------------------------
(* Entities and pairs *)

\* The entities, each of them once.
LEMMA EntitiesAre ==
  /\ Len(Ids[1]) \in Nat /\ Len(Ids[2]) \in Nat
  /\ Len(Entities) = Len(Ids[1]) + Len(Ids[2])
  /\ DOMAIN Entities = 1..Len(Entities)
  /\ AllEntities = ({1} \X Consumptions) \cup ({2} \X Generations)
  /\ Entities = [i \in 1..Len(Entities) |-> Entities[i]]
  /\ \A m, n \in DOMAIN Entities : Entities[m] = Entities[n] => m = n
<1>. DEFINE a == Len(Ids[1])
            b == Len(Ids[2])
            s == [i \in 1..a |-> <<1, i>>]
            t == [i \in 1..b |-> <<2, i>>]
            E == ({1} \X (1..a)) \cup ({2} \X (1..b))
<1>1. a \in Nat /\ b \in Nat
  BY MatcherAssumption DEF MatcherAssumption, IsList
<1>2. Entities = s \o t
  BY DEF Entities, Consumptions, Generations
<1>. HIDE DEF a, b
<1>3. s \in Seq(E) /\ t \in Seq(E) /\ Len(s) = a /\ Len(t) = b
  BY <1>1
<1>4. /\ Entities \in Seq(E) /\ Len(Entities) = a + b
      /\ \A i \in 1..a + b : Entities[i] = IF i <= a THEN s[i] ELSE t[i - a]
  <2>. HIDE DEF s, t, E
  <2>. QED BY <1>2, <1>3, ConcatProperties
<1>5. \A i \in 1..a + b : Entities[i] = IF i <= a THEN <<1, i>> ELSE <<2, i - a>>
  <2>1. ASSUME NEW i \in 1..a + b PROVE (i <= a => i \in 1..a) /\ (~(i <= a) => i - a \in 1..b)
    BY <1>1
  <2>2. (\A i \in 1..a : s[i] = <<1, i>>) /\ (\A i \in 1..b : t[i] = <<2, i>>)
    OBVIOUS
  <2>. HIDE DEF s, t, E
  <2>. QED BY <1>4, <2>1, <2>2
<1>6. DOMAIN Entities = 1..Len(Entities) /\ Entities = [i \in 1..Len(Entities) |-> Entities[i]]
  <2>. HIDE DEF E
  <2>1. DOMAIN Entities = 1..Len(Entities) /\ Entities \in [1..Len(Entities) -> E]
    BY <1>4, LenProperties
  <2>. QED BY <2>1
<1>7. AllEntities = E
  <2>1. AllEntities = {Entities[i] : i \in 1..a + b}
    BY <1>4, <1>6 DEF AllEntities, ToSet
  <2>2. ASSUME NEW i \in 1..a + b PROVE Entities[i] \in E
    <3>1. CASE i <= a
      <4>1. i \in 1..a
        BY <1>1, <3>1
      <4>2. <<1, i>> \in {1} \X (1..a)
        BY <4>1
      <4>3. Entities[i] = <<1, i>>
        BY <1>5, <3>1
      <4>. QED BY <4>2, <4>3
    <3>2. CASE ~(i <= a)
      <4>1. i - a \in 1..b
        BY <1>1, <3>2
      <4>2. <<2, i - a>> \in {2} \X (1..b)
        BY <4>1
      <4>3. Entities[i] = <<2, i - a>>
        BY <1>5, <3>2
      <4>. QED BY <4>2, <4>3
    <3>. QED BY <3>1, <3>2
  <2>3. ASSUME NEW e \in E PROVE \E i \in 1..a + b : Entities[i] = e
    <3>1. CASE e \in {1} \X (1..a)
      <4>1. e[2] \in 1..a + b /\ e[2] <= a /\ e = <<1, e[2]>>
        BY <1>1, <3>1
      <4>. QED BY <1>5, <4>1
    <3>2. CASE e \in {2} \X (1..b)
      <4>1. e = <<2, e[2]>> /\ e[2] \in 1..b
        BY <3>2
      <4>2. \A n \in 1..b : n + a \in 1..a + b /\ ~(n + a <= a) /\ (n + a) - a = n
        BY <1>1
      <4>3. \A n \in 1..b : \E i \in 1..a + b : ~(i <= a) /\ i - a = n
        BY <4>2
      <4>4. PICK i \in 1..a + b : ~(i <= a) /\ i - a = e[2]
        BY <4>1, <4>3
      <4>5. Entities[i] = <<2, i - a>>
        BY <1>5, <4>4
      <4>. QED BY <4>1, <4>4, <4>5
    <3>. QED BY <3>1, <3>2
  <2>. HIDE DEF E
  <2>. QED BY <2>1, <2>2, <2>3
<1>8. ASSUME NEW m \in 1..a + b, NEW n \in 1..a + b, Entities[m] = Entities[n] PROVE m = n
  <2>1. /\ Entities[m] = IF m <= a THEN <<1, m>> ELSE <<2, m - a>>
        /\ Entities[n] = IF n <= a THEN <<1, n>> ELSE <<2, n - a>>
    BY <1>5
  <2>2. \A x, y : <<1, x>> # <<2, y>> /\ (<<1, x>> = <<1, y>> => x = y)
                   /\ (<<2, x>> = <<2, y>> => x = y)
    OBVIOUS
  <2>3. m - a = n - a => m = n
    BY <1>1
  <2>. QED BY <1>8, <2>1, <2>2, <2>3, Zenon
<1>. QED BY <1>1, <1>4, <1>6, <1>7, <1>8 DEF a, b, Consumptions, Generations

\* All of it is finite.
LEMMA AllIsFinite ==
  /\ IsFiniteSet(Consumptions) /\ IsFiniteSet(Generations)
  /\ IsFiniteSet(AllEntities) /\ IsFiniteSet(Pairs)
  /\ Cardinality(AllEntities) = Len(Entities) /\ Cardinality(Generations) = Len(Ids[2])
  /\ \A e : IsFiniteSet(At(e))
<1>1. /\ IsFiniteSet(Consumptions) /\ IsFiniteSet(Generations)
      /\ Cardinality(Generations) = Len(Ids[2])
  <2>1. ASSUME NEW n \in Nat PROVE IsFiniteSet(1..n) /\ Cardinality(1..n) = n
    <3>1. IsFiniteSet(1..n) /\ Cardinality(1..n) = IF 1 > n THEN 0 ELSE n - 1 + 1
      BY FS_Interval
    <3>. QED BY <3>1
  <2>. QED BY <2>1, EntitiesAre, Zenon DEF Consumptions, Generations
<1>2. IsFiniteSet(Pairs)
  BY <1>1, FS_Product DEF Pairs
<1>3. IsFiniteSet(AllEntities) /\ Cardinality(AllEntities) = Len(Entities)
  <2>. DEFINE n == Len(Entities)
  <2>1. n \in Nat /\ DOMAIN Entities = 1..n
    <3>1. \A a, b \in Nat : a + b \in Nat
      OBVIOUS
    <3>. QED BY <3>1, EntitiesAre, Zenon
  <2>2. Entities \in [1..n -> AllEntities]
    <3>1. Entities = [i \in 1..n |-> Entities[i]]
      BY EntitiesAre, Zenon
    <3>. QED BY <2>1, <3>1 DEF AllEntities, ToSet
  <2>3. Entities \in Bijection(1..n, AllEntities)
    <3>. HIDE DEF n
    <3>. QED BY <2>1, <2>2, EntitiesAre
         DEF Bijection, Injection, Surjection, IsInjective, AllEntities, ToSet
  <2>4. IsFiniteSet(1..n) /\ Cardinality(1..n) = n
    <3>1. IsFiniteSet(1..n) /\ Cardinality(1..n) = IF 1 > n THEN 0 ELSE n - 1 + 1
      BY <2>1, FS_Interval
    <3>. QED BY <2>1, <3>1
  <2>. QED BY <2>3, <2>4, FS_Bijection DEF ExistsBijection
<1>4. ASSUME NEW e PROVE IsFiniteSet(At(e))
  <2>1. At(e) \subseteq Pairs
    BY DEF At
  <2>. QED BY <1>2, <2>1, FS_Subset
<1>. QED BY <1>1, <1>2, <1>3, <1>4

-----------------------------------------------------------------------------
(* What entities give *)

\* What is given adds up, and is a number.
LEMMA GivenIsTotal ==
  ASSUME NEW matches, NEW e
  PROVE  Given(matches, e) = Total(matches, At(e))
BY FoldsAreTotals DEF Given, At

LEMMA GivenInt ==
  ASSUME NEW matches \in [Pairs -> Int], NEW e
  PROVE  Given(matches, e) \in Int
<1>1. IsFiniteSet(At(e)) /\ \A x \in At(e) : matches[x] \in Int
  BY AllIsFinite DEF At
<1>. QED BY <1>1, GivenIsTotal, TotalInt

LEMMA GivenNat ==
  ASSUME NEW matches \in [Pairs -> Nat], NEW e
  PROVE  Given(matches, e) \in Nat
<1>1. IsFiniteSet(At(e)) /\ \A x \in At(e) : matches[x] \in Nat
  BY AllIsFinite DEF At
<1>. QED BY <1>1, GivenIsTotal, TotalNat

LEMMA GivenAdds ==
  ASSUME NEW a \in [Pairs -> Int], NEW b \in [Pairs -> Int], NEW e
  PROVE  Given([x \in Pairs |-> a[x] + b[x]], e) = Given(a, e) + Given(b, e)
<1>. DEFINE c == [x \in Pairs |-> a[x] + b[x]]
<1>1. IsFiniteSet(At(e)) /\ At(e) \subseteq Pairs
  BY AllIsFinite DEF At
<1>2. \A x \in At(e) : a[x] \in Int /\ b[x] \in Int /\ c[x] = a[x] + b[x]
  BY <1>1
<1>. HIDE DEF c
<1>. QED BY <1>1, <1>2, GivenIsTotal, TotalOfSums

LEMMA GivenConstant ==
  ASSUME NEW matches, NEW k \in Nat, NEW R, NEW e,
         \A x \in Pairs : matches[x] = IF x \in R THEN k ELSE 0
  PROVE  Given(matches, e) = k * Cardinality(At(e) \cap R)
<1>1. IsFiniteSet(At(e)) /\ At(e) \subseteq Pairs
  BY AllIsFinite DEF At
<1>2. \A x \in At(e) : matches[x] = IF x \in R THEN k ELSE 0
  BY <1>1
<1>3. Total(matches, At(e)) = k * Cardinality(At(e) \cap R)
  BY ONLY <1>1, <1>2, TotalOfConstant
<1>. QED BY <1>3, GivenIsTotal

\* Who has no part in any match gives nothing.
LEMMA GivenNothing ==
  ASSUME NEW matches, NEW e, \A x \in At(e) : matches[x] = 0
  PROVE  Given(matches, e) = 0
<1>1. IsFiniteSet(At(e)) /\ \A x \in At(e) : matches[x] = IF x \in {} THEN 0 ELSE 0
  BY AllIsFinite
<1>2. Total(matches, At(e)) = 0 * Cardinality(At(e) \cap {})
  BY <1>1, TotalOfConstant
<1>3. At(e) \cap {} = {} /\ Cardinality({}) = 0
  BY FS_EmptySet
<1>. QED BY <1>2, <1>3, GivenIsTotal

-----------------------------------------------------------------------------
(* The groups that are served *)

VolumesAre(v) == v \in [AllEntities -> Nat]

InputOK == input.priority \in Priorities /\ VolumesAre(input.volume)

IsGroup(group) == IsFiniteSet(DOMAIN group) /\ DOMAIN group \subseteq Nat

\* The group that an entry of the consumers is served from.
Preferred(n) == GeneratorGroup(ConsumerGroup[n])

\* The first group with somebody who is not used up, or none.
LEMMA FirstUsableIs ==
  ASSUME NEW groups, AreGroups(groups), NEW side
  PROVE  LET group == FirstUsableGroup(groups, side)
         IN  /\ IsGroup(group)
             /\ \/ DOMAIN group = {}
                \/ \E k \in UsableGroups(groups, side) :
                     group = groups[k] /\ \A l \in UsableGroups(groups, side) : k <= l
<1>. DEFINE usable == UsableGroups(groups, side)
            k == CHOOSE k \in usable : \A l \in usable : k <= l
<1>1. CASE usable = {}
  <2>1. FirstUsableGroup(groups, side) = <<>>
    BY <1>1 DEF FirstUsableGroup
  <2>2. DOMAIN <<>> = {}
    OBVIOUS
  <2>. QED BY <2>1, <2>2, FS_EmptySet DEF IsGroup
<1>2. CASE usable # {}
  <2>1. usable \subseteq DOMAIN groups /\ DOMAIN groups \subseteq Nat
    BY DEF UsableGroups, AreGroups, IsList
  <2>2. k \in usable /\ \A l \in usable : k <= l
    <3>. HIDE DEF usable
    <3>1. \E m \in usable : \A l \in usable : m <= l
      BY <1>2, <2>1, LeastOfNumbers
    <3>. QED BY <3>1
  <2>3. FirstUsableGroup(groups, side) = groups[k]
    BY <1>2 DEF FirstUsableGroup
  <2>. HIDE DEF k, usable
  <2>4. k \in DOMAIN groups
    BY <2>1, <2>2
  <2>5. IsGroup(groups[k])
    <3>1. Len(groups[k]) \in Nat /\ DOMAIN groups[k] = 1..Len(groups[k])
      BY <2>4 DEF AreGroups, IsList
    <3>2. IsFiniteSet(1..Len(groups[k]))
      BY <3>1, FS_Interval
    <3>. QED BY <3>1, <3>2 DEF IsGroup
  <2>. QED BY <2>2, <2>3, <2>5 DEF usable
<1>. QED BY <1>1, <1>2

\* The groups of a round.
LEMMA GroupsOfRound ==
  ASSUME InputOK
  PROVE  /\ IsGroup(ConsumerGroup)
         /\ \A n \in DOMAIN ConsumerGroup : /\ AreGroups(ConsumerGroup[n].groupPriority)
                                            /\ IsGroup(Preferred(n))
         /\ DOMAIN ConsumerGroup # {} =>
              \E k \in UsableGroups(input.priority, 1) :
                /\ ConsumerGroup = input.priority[k]
                /\ \A l \in UsableGroups(input.priority, 1) : k <= l
<1>1. AreGroups(input.priority)
  BY MatcherAssumption DEF MatcherAssumption, InputOK
<1>2. /\ IsGroup(ConsumerGroup)
      /\ \/ DOMAIN ConsumerGroup = {}
         \/ \E k \in UsableGroups(input.priority, 1) :
              /\ ConsumerGroup = input.priority[k]
              /\ \A l \in UsableGroups(input.priority, 1) : k <= l
  BY <1>1, FirstUsableIs DEF ConsumerGroup
<1>3. ASSUME NEW n \in DOMAIN ConsumerGroup
      PROVE  AreGroups(ConsumerGroup[n].groupPriority) /\ IsGroup(Preferred(n))
  <2>1. PICK k \in UsableGroups(input.priority, 1) : ConsumerGroup = input.priority[k]
    BY <1>2
  <2>2. k \in DOMAIN input.priority
    BY DEF UsableGroups
  <2>3. AreGroups(ConsumerGroup[n].groupPriority)
    BY <2>1, <2>2, MatcherAssumption DEF MatcherAssumption, InputOK
  <2>. QED BY <2>3, FirstUsableIs DEF GeneratorGroup, Preferred
<1>. QED BY <1>2, <1>3

-----------------------------------------------------------------------------
(* The routes of a round *)

\* Pairs that have a route.
Linked == {x \in Pairs : Via(x, Routes) # {}}

\* Where a route comes from.
LEMMA RouteIs ==
  ASSUME NEW r \in Routes
  PROVE  /\ r = <<r[1], r[2], r[3]>> /\ r[1] \in Pairs
         /\ volume[<<1, r[1][1]>>] # 0 /\ volume[<<2, r[1][2]>>] # 0
         /\ r[2] \in DOMAIN ConsumerGroup /\ ConsumerGroup[r[2]].id = Ids[1][r[1][1]]
         /\ r[3] \in DOMAIN Preferred(r[2]) /\ Preferred(r[2])[r[3]].id = Ids[2][r[1][2]]
<1>1. PICK n \in DOMAIN ConsumerGroup : \E m \in DOMAIN Preferred(n) : r \in RoutesBy(n, m)
  BY DEF Routes, Preferred
<1>2. PICK m \in DOMAIN Preferred(n) : r \in RoutesBy(n, m)
  BY <1>1
<1>3. /\ r = <<r[1], r[2], r[3]>> /\ r[2] = n /\ r[3] = m
      /\ r[1] \in UsableOf(1, ConsumerGroup[n].id) \X UsableOf(2, Preferred(n)[m].id)
  BY <1>2 DEF RoutesBy, Preferred
<1>4. r[1][1] \in UsableOf(1, ConsumerGroup[n].id) /\ r[1][2] \in UsableOf(2, Preferred(n)[m].id)
  BY <1>3
<1>5. r[1] \in Pairs
  BY <1>3 DEF UsableOf, Pairs, Consumptions, Generations
<1>. QED BY <1>1, <1>2, <1>3, <1>4, <1>5 DEF UsableOf

LEMMA RouteExists ==
  ASSUME NEW x \in Pairs, volume[<<1, x[1]>>] # 0, volume[<<2, x[2]>>] # 0,
         NEW n \in DOMAIN ConsumerGroup, ConsumerGroup[n].id = Ids[1][x[1]],
         NEW m \in DOMAIN Preferred(n), Preferred(n)[m].id = Ids[2][x[2]]
  PROVE  <<x, n, m>> \in Routes
<1>1. x = <<x[1], x[2]>> /\ x[1] \in 1..Len(Ids[1]) /\ x[2] \in 1..Len(Ids[2])
  BY DEF Pairs, Consumptions, Generations
<1>2. x[1] \in UsableOf(1, ConsumerGroup[n].id) /\ x[2] \in UsableOf(2, Preferred(n)[m].id)
  BY <1>1 DEF UsableOf
<1>3. x \in UsableOf(1, ConsumerGroup[n].id) \X UsableOf(2, Preferred(n)[m].id)
  BY <1>1, <1>2
<1>4. <<x, n, m>> \in RoutesBy(n, m)
  BY <1>3 DEF RoutesBy, Preferred
<1>. QED BY <1>4 DEF Routes, Preferred

\* Routes connect entities that are not used up.
LEMMA LinkedAre ==
  /\ Linked \subseteq Pairs
  /\ \A x \in Linked : volume[<<1, x[1]>>] # 0 /\ volume[<<2, x[2]>>] # 0
  /\ \A r \in Routes : r[1] \in Linked
  /\ \A x \in Linked : \E r \in Routes : r[1] = x
<1>1. \A r \in Routes : r[1] \in Linked
  BY RouteIs DEF Linked, Via
<1>2. \A x \in Linked : \E r \in Routes : r[1] = x
  BY DEF Linked, Via
<1>3. Linked \subseteq Pairs
  BY DEF Linked
<1>. QED BY <1>1, <1>2, <1>3, RouteIs

\* What a function makes of a finite set is finite.
LEMMA ImageIsFinite ==
  ASSUME NEW S, IsFiniteSet(S), NEW f
  PROVE  IsFiniteSet({f[x] : x \in S})
<1>. DEFINE T == {f[x] : x \in S}
            g == [x \in S |-> f[x]]
<1>1. g \in Surjection(S, T)
  BY DEF Surjection
<1>. HIDE DEF g, T
<1>2. IsFiniteSet(T)
  BY <1>1, FS_Surjection
<1>. QED BY <1>2 DEF T

\* There are finitely many routes.
LEMMA RoutesAreFinite ==
  ASSUME InputOK
  PROVE  /\ IsFiniteSet(Routes)
         /\ \A r \in Routes : r[2] \in Nat /\ r[3] \in Nat
<1>1. ASSUME NEW n, NEW m PROVE IsFiniteSet(RoutesBy(n, m))
  <2>. DEFINE P == UsableOf(1, ConsumerGroup[n].id) \X UsableOf(2, Preferred(n)[m].id)
              f == [x \in P |-> <<x, n, m>>]
  <2>1. P \subseteq Pairs
    BY DEF UsableOf, Pairs, Consumptions, Generations
  <2>2. IsFiniteSet(P)
    <3>. HIDE DEF P
    <3>. QED BY <2>1, AllIsFinite, FS_Subset
  <2>3. RoutesBy(n, m) = {f[x] : x \in P}
    <3>1. RoutesBy(n, m) = P \X {n} \X {m}
      BY DEF RoutesBy, Preferred
    <3>. HIDE DEF P
    <3>. QED BY <3>1
  <2>. HIDE DEF P, f
  <2>. QED BY <2>2, <2>3, ImageIsFinite
<1>2. ASSUME NEW n \in DOMAIN ConsumerGroup
      PROVE  IsFiniteSet(UNION {RoutesBy(n, m) : m \in DOMAIN Preferred(n)})
  <2>. DEFINE D == DOMAIN Preferred(n)
              f == [m \in D |-> RoutesBy(n, m)]
  <2>1. IsFiniteSet(D)
    BY GroupsOfRound DEF IsGroup
  <2>2. {RoutesBy(n, m) : m \in D} = {f[m] : m \in D}
    OBVIOUS
  <2>3. IsFiniteSet({f[m] : m \in D})
    <3>. HIDE DEF D, f
    <3>. QED BY <2>1, ImageIsFinite
  <2>4. \A T \in {RoutesBy(n, m) : m \in D} : IsFiniteSet(T)
    BY <1>1
  <2>. QED BY <2>2, <2>3, <2>4, FS_UNION
<1>3. IsFiniteSet(Routes)
  <2>. DEFINE D == DOMAIN ConsumerGroup
              f == [n \in D |-> UNION {RoutesBy(n, m) : m \in DOMAIN Preferred(n)}]
  <2>1. IsFiniteSet(D)
    BY GroupsOfRound DEF IsGroup
  <2>2. Routes = UNION {f[n] : n \in D}
    BY DEF Routes, Preferred
  <2>3. \A n \in D : IsFiniteSet(f[n])
    BY <1>2
  <2>. HIDE DEF D, f
  <2>4. IsFiniteSet({f[n] : n \in D})
    BY <2>1, ImageIsFinite
  <2>. QED BY <2>2, <2>3, <2>4, FS_UNION
<1>4. ASSUME NEW r \in Routes PROVE r[2] \in Nat /\ r[3] \in Nat
  <2>1. r[2] \in DOMAIN ConsumerGroup /\ r[3] \in DOMAIN Preferred(r[2])
    BY RouteIs
  <2>. QED BY <2>1, GroupsOfRound DEF IsGroup
<1>. QED BY <1>3, <1>4

\* The routes of an entity.
LEMMA RoutesOfAre ==
  ASSUME InputOK, NEW e
  PROVE  /\ IsFiniteSet(RoutesOf(e, Routes))
         /\ Cardinality(RoutesOf(e, Routes)) \in Nat
         /\ RoutesOf(e, Routes) # {} => Cardinality(RoutesOf(e, Routes)) \in Nat \ {0}
         /\ RoutesOf(e, Routes) = {} <=> At(e) \cap Linked = {}
<1>1. IsFiniteSet(RoutesOf(e, Routes))
  <2>1. RoutesOf(e, Routes) \subseteq Routes
    BY DEF RoutesOf
  <2>. QED BY <2>1, RoutesAreFinite, FS_Subset
<1>2. RoutesOf(e, Routes) = {} <=> At(e) \cap Linked = {}
  BY LinkedAre DEF RoutesOf, At
<1>. QED BY <1>1, <1>2, FS_CardinalityType, FS_EmptySet

\* Those of a pair, among some of them.
LEMMA ViaIs ==
  ASSUME InputOK, NEW D \in SUBSET Routes, NEW x
  PROVE  IsFiniteSet(Via(x, D)) /\ Cardinality(Via(x, D)) \in Nat
<1>1. Via(x, D) \subseteq Routes
  BY DEF Via
<1>2. IsFiniteSet(Via(x, D))
  BY <1>1, RoutesAreFinite, FS_Subset
<1>. QED BY <1>2, FS_CardinalityType

\* Who has a route is not used up.
LEMMA RoutedIsUsable ==
  ASSUME NEW e \in AllEntities, RoutesOf(e, Routes) # {}
  PROVE  volume[e] # 0
<1>1. PICK r \in Routes : r[1][e[1]] = e[2]
  BY DEF RoutesOf
<1>2. e = <<e[1], e[2]>> /\ e[1] \in {1, 2}
  BY EntitiesAre
<1>3. e = <<1, r[1][1]>> \/ e = <<2, r[1][2]>>
  BY <1>1, <1>2
<1>. QED BY <1>3, RouteIs

\* Shares are numbers.
LEMMA ShareInt ==
  ASSUME InputOK, NEW e, volume[e] \in Int, RoutesOf(e, Routes) # {}
  PROVE  Share(e, Routes) \in Int
<1>. DEFINE k == Cardinality(RoutesOf(e, Routes))
            v == volume[e]
<1>1. k \in Nat \ {0} /\ v \in Int
  BY RoutesOfAre
<1>2. Share(e, Routes) = IF v >= 0 THEN v \div k ELSE -((-v) \div k)
  BY DEF Share
<1>. HIDE DEF k, v
<1>3. (v >= 0 => v \div k \in Int) /\ -((-v) \div k) \in Int
  BY <1>1
<1>. QED BY <1>2, <1>3

LEMMA ShareNat ==
  ASSUME InputOK, NEW e, volume[e] \in Nat, RoutesOf(e, Routes) # {}
  PROVE  /\ Share(e, Routes) \in Nat
         /\ Share(e, Routes) * Cardinality(RoutesOf(e, Routes)) <= volume[e]
         /\ Share(e, Routes) = 0 <=> volume[e] < Cardinality(RoutesOf(e, Routes))
         /\ volume[e] - Share(e, Routes) * Cardinality(RoutesOf(e, Routes))
              \in 0..Cardinality(RoutesOf(e, Routes)) - 1
<1>. DEFINE k == Cardinality(RoutesOf(e, Routes))
            v == volume[e]
<1>1. k \in Nat \ {0} /\ v \in Nat /\ Share(e, Routes) = v \div k
  <2>1. k \in Nat \ {0} /\ v \in Nat
    BY RoutesOfAre
  <2>2. Share(e, Routes) = IF v >= 0 THEN v \div k ELSE -((-v) \div k)
    BY DEF Share
  <2>. HIDE DEF k, v
  <2>. QED BY <2>1, <2>2
<1>. HIDE DEF k, v
<1>2. v \div k \in Nat /\ (v \div k) * k <= v /\ (v \div k = 0 <=> v < k)
  BY <1>1
<1>3. v < ((v \div k) + 1) * k /\ (v \div k) * k \in Nat
  BY <1>1
<1>4. ((v \div k) + 1) * k = (v \div k) * k + k
  BY <1>1, <1>2
<1>5. v - (v \div k) * k \in 0..k - 1
  <2>. DEFINE p == (v \div k) * k
  <2>1. p \in Nat /\ p <= v /\ v < p + k
    BY <1>2, <1>3, <1>4
  <2>. HIDE DEF p
  <2>2. v - p \in 0..k - 1
    BY <1>1, <2>1
  <2>. QED BY <2>2 DEF p
<1>6. Share(e, Routes) = v \div k
  BY <1>1
<1>. HIDE DEF Share
<1>7. /\ Share(e, Routes) \in Nat /\ Share(e, Routes) * k <= v
      /\ (Share(e, Routes) = 0 <=> v < k) /\ v - Share(e, Routes) * k \in 0..k - 1
  BY <1>2, <1>5, <1>6, Zenon
<1>. QED BY <1>7 DEF k, v

\* Whoever has a route is an entity.
LEMMA RoutedIsThere ==
  ASSUME Routes # {}
  PROVE  /\ Routed(Routes) # {} /\ Routed(Routes) \subseteq 1..Len(Entities)
         /\ \A m \in Routed(Routes) : Entities[m] \in AllEntities
         /\ \A e \in AllEntities : RoutesOf(e, Routes) # {} => \E m \in Routed(Routes) : Entities[m] = e
<1>1. PICK r \in Routes : TRUE
  OBVIOUS
<1>2. r[1] \in Pairs
  BY RouteIs
<1>3. <<1, r[1][1]>> \in AllEntities /\ r \in RoutesOf(<<1, r[1][1]>>, Routes)
  BY <1>1, <1>2, EntitiesAre DEF Pairs, RoutesOf
<1>4. \A e \in AllEntities : \E m \in DOMAIN Entities : Entities[m] = e
  BY DEF AllEntities, ToSet
<1>5. \A m \in DOMAIN Entities : Entities[m] \in AllEntities
  BY DEF AllEntities, ToSet
<1>6. DOMAIN Entities = 1..Len(Entities)
  BY EntitiesAre
<1>. QED BY <1>3, <1>4, <1>5, <1>6 DEF Routed

\* Of finitely many entities, the first of those with the smallest share.
LEMMA SmallestExists ==
  ASSUME NEW R, IsFiniteSet(R), R # {}, R \subseteq Nat, NEW f \in [R -> Int]
  PROVE  \E m \in R : \A n \in R : f[m] < f[n] \/ (f[m] = f[n] /\ m <= n)
<1>. DEFINE least(m, s) == m \in s /\ \A n \in s : f[m] < f[n] \/ (f[m] = f[n] /\ m <= n)
            failing == {s \in SUBSET R : s # {} /\ ~\E m \in R : least(m, s)}
<1>1. SUFFICES ASSUME failing # {} PROVE FALSE
  <2>1. R \notin failing => \E m \in R : least(m, R)
    OBVIOUS
  <2>. HIDE DEF failing
  <2>. QED BY <2>1
<1>2. PICK s \in failing : \A t \in failing : t \subseteq s => t = s
  <2>1. failing \subseteq SUBSET R /\ IsFiniteSet(R)
    OBVIOUS
  <2>. HIDE DEF failing
  <2>. QED BY ONLY <1>1, <2>1, SmallestFailure
<1>3. PICK x \in s : x \in R
  OBVIOUS
<1>4. \A m \in R : m \in Nat /\ f[m] \in Int
  OBVIOUS
<1>5. CASE s \ {x} = {}
  <2>1. s = {x}
    BY <1>3, <1>5
  <2>2. least(x, s)
    BY <1>3, <1>4, <2>1
  <2>. QED BY <1>3, <2>2
<1>6. CASE s \ {x} # {}
  <2>1. s \ {x} \in SUBSET R /\ s \ {x} # s
    BY <1>3
  <2>2. s \ {x} \notin failing
    <3>. HIDE DEF failing
    <3>. QED BY <1>2, <2>1
  <2>3. PICK m \in R : least(m, s \ {x})
    BY <1>6, <2>1, <2>2
  <2>4. least(m, s) \/ least(x, s)
    BY <1>3, <1>4, <2>3
  <2>. QED BY <1>3, <2>3, <2>4
<1>. QED BY <1>5, <1>6

\* The scarcest entity has a route and the smallest share.
LEMMA ScarcestIs ==
  ASSUME InputOK, Routes # {}, volume \in [AllEntities -> Int]
  PROVE  /\ Scarcest(Routes) \in AllEntities
         /\ RoutesOf(Scarcest(Routes), Routes) # {}
         /\ \A e \in AllEntities :
              RoutesOf(e, Routes) # {} => Share(Scarcest(Routes), Routes) <= Share(e, Routes)
<1>. DEFINE R == Routed(Routes)
            share(m) == Share(Entities[m], Routes)
            f == [m \in R |-> share(m)]
            smallest(m) == \A n \in R : share(m) < share(n) \/ (share(m) = share(n) /\ m <= n)
<1>1. /\ R # {} /\ R \subseteq Nat /\ IsFiniteSet(R)
      /\ \A m \in R : /\ Entities[m] \in AllEntities /\ RoutesOf(Entities[m], Routes) # {}
                      /\ share(m) \in Int
  <2>1. R # {} /\ R \subseteq 1..Len(Entities) /\ \A m \in R : Entities[m] \in AllEntities
    BY RoutedIsThere
  <2>2. \A m \in R : RoutesOf(Entities[m], Routes) # {}
    BY DEF Routed
  <2>3. \A m \in R : share(m) \in Int
    BY <2>1, <2>2, ShareInt
  <2>4. IsFiniteSet(R)
    <3>1. \A a, b \in Nat : a + b \in Int
      OBVIOUS
    <3>2. Len(Entities) \in Int
      BY <3>1, EntitiesAre
    <3>3. IsFiniteSet(1..Len(Entities))
      BY <3>2, FS_Interval
    <3>. HIDE DEF R
    <3>. QED BY <2>1, <3>3, FS_Subset
  <2>. QED BY <2>1, <2>2, <2>3, <2>4
<1>. HIDE DEF R, share
<1>2. \E m \in R : smallest(m)
  <2>1. f \in [R -> Int]
    BY <1>1
  <2>. HIDE DEF f
  <2>2. \E m \in R : \A n \in R : f[m] < f[n] \/ (f[m] = f[n] /\ m <= n)
    BY <1>1, <2>1, SmallestExists
  <2>. QED BY <2>2 DEF f
<1>. DEFINE m == CHOOSE m \in R : smallest(m)
<1>3. m \in R /\ smallest(m)
  BY <1>2
<1>4. Scarcest(Routes) = Entities[m]
  BY DEF Scarcest, R, share
<1>. HIDE DEF m
<1>5. \A n \in R : share(m) <= share(n)
  BY <1>1, <1>3
<1>6. ASSUME NEW e \in AllEntities, RoutesOf(e, Routes) # {}
      PROVE  Share(Entities[m], Routes) <= Share(e, Routes)
  <2>1. PICK n \in R : Entities[n] = e
    BY <1>6, RoutedIsThere DEF R
  <2>. QED BY <1>5, <2>1 DEF share
<1>. QED BY <1>1, <1>3, <1>4, <1>6

-----------------------------------------------------------------------------
(* The routes that are served with units *)

\* The elements that have fewer than v before them in a linear order are v.
Firsts(S, B, v) == {x \in S : Cardinality({y \in S : <<y, x>> \in B}) < v}

LEMMA FirstOfOrder ==
  ASSUME NEW S, IsFiniteSet(S), NEW B,
         \A x \in S : <<x, x>> \notin B,
         \A x, y, z \in S : <<x, y>> \in B /\ <<y, z>> \in B => <<x, z>> \in B,
         \A x, y \in S : x # y => <<x, y>> \in B \/ <<y, x>> \in B,
         NEW v \in 0..Cardinality(S)
  PROVE  Cardinality(Firsts(S, B, v)) = v
<1>. USE DEF Firsts
<1>. DEFINE K == Cardinality(S)
            pred(x) == {y \in S : <<y, x>> \in B}
            r == [x \in S |-> Cardinality(pred(x))]
            T == {x \in S : Cardinality(pred(x)) < v}
<1>1. K \in Nat /\ v \in Nat /\ v <= K
  <2>1. K \in Nat
    BY FS_CardinalityType
  <2>. QED BY <2>1
<1>2. ASSUME NEW x \in S PROVE IsFiniteSet(pred(x)) /\ Cardinality(pred(x)) \in Nat
  <2>1. pred(x) \subseteq S
    OBVIOUS
  <2>2. IsFiniteSet(pred(x))
    BY <2>1, FS_Subset
  <2>. QED BY <2>2, FS_CardinalityType
<1>3. ASSUME NEW x \in S PROVE Cardinality(pred(x)) \in 0..K - 1
  <2>1. pred(x) \subseteq S /\ x \notin pred(x) /\ pred(x) # S
    OBVIOUS
  <2>2. Cardinality(pred(x)) < K
    <3>. HIDE DEF pred
    <3>1. Cardinality(pred(x)) <= K /\ (Cardinality(pred(x)) = K => pred(x) = S)
      BY <2>1, FS_Subset
    <3>. QED BY <1>1, <1>2, <2>1, <3>1
  <2>3. Cardinality(pred(x)) \in Nat
    BY <1>2
  <2>. HIDE DEF K, pred
  <2>. QED BY <1>1, <2>2, <2>3
<1>4. ASSUME NEW x \in S, NEW y \in S, <<x, y>> \in B
      PROVE  Cardinality(pred(x)) < Cardinality(pred(y))
  <2>1. pred(x) \cup {x} \subseteq pred(y) /\ x \notin pred(x)
    BY <1>4
  <2>2. Cardinality(pred(x) \cup {x}) <= Cardinality(pred(y))
    <3>. HIDE DEF pred
    <3>. QED BY <1>2, <2>1, FS_Subset
  <2>3. Cardinality(pred(x) \cup {x}) = Cardinality(pred(x)) + 1
    <3>. HIDE DEF pred
    <3>. QED BY <1>2, <2>1, FS_AddElement
  <2>4. Cardinality(pred(x)) \in Nat /\ Cardinality(pred(y)) \in Nat
    BY <1>2
  <2>. HIDE DEF pred
  <2>. QED BY <2>2, <2>3, <2>4
<1>5. \A x, y \in S : r[x] = r[y] => x = y
  <2>1. ASSUME NEW x \in S, NEW y \in S, r[x] = r[y], x # y PROVE FALSE
    <3>1. Cardinality(pred(x)) = Cardinality(pred(y))
      BY <2>1
    <3>2. Cardinality(pred(x)) \in Nat
      BY <1>2
    <3>3. <<x, y>> \in B \/ <<y, x>> \in B
      BY <2>1
    <3>. HIDE DEF pred
    <3>. QED BY <1>4, <3>1, <3>2, <3>3
  <2>. QED BY <2>1
<1>6. \A x \in S : r[x] \in 0..K - 1 /\ r[x] = Cardinality(pred(x))
  BY <1>3
<1>7. r \in Injection(S, 0..K - 1)
  <2>1. r \in [S -> 0..K - 1]
    BY <1>3
  <2>. HIDE DEF r, K
  <2>. QED BY <1>5, <2>1 DEF Injection, IsInjective
<1>8. \A n \in Nat : IsFiniteSet(0..n - 1) /\ Cardinality(0..n - 1) = n
  <2>1. ASSUME NEW n \in Nat PROVE IsFiniteSet(0..n - 1) /\ Cardinality(0..n - 1) = n
    <3>1. IsFiniteSet(0..n - 1) /\ Cardinality(0..n - 1) = IF 0 > n - 1 THEN 0 ELSE (n - 1) - 0 + 1
      BY FS_Interval
    <3>. QED BY <3>1
  <2>. QED BY <2>1
<1>9. r \in Surjection(S, 0..K - 1)
  <2>1. IsFiniteSet(0..K - 1) /\ Cardinality(0..K - 1) = K
    BY <1>1, <1>8
  <2>. HIDE DEF r
  <2>. QED BY <1>7, <2>1, FS_Injection
<1>10. T = {x \in S : r[x] < v}
  BY <1>6
<1>. DEFINE q == [x \in T |-> r[x]]
<1>11. q \in Bijection(T, 0..v - 1)
  <2>1. \A x \in T : x \in S /\ q[x] = r[x] /\ r[x] \in 0..v - 1
    <3>1. ASSUME NEW x \in T PROVE x \in S /\ q[x] = r[x]
      OBVIOUS
    <3>2. ASSUME NEW x \in T PROVE r[x] \in 0..v - 1
      <4>1. x \in S /\ r[x] < v
        BY <1>10
      <4>2. r[x] \in Nat
        BY <1>6, <4>1
      <4>. HIDE DEF r
      <4>. QED BY <1>1, <4>1, <4>2
    <3>. QED BY <3>1, <3>2
  <2>2. ASSUME NEW n \in 0..v - 1 PROVE \E x \in T : q[x] = n
    <3>1. n \in 0..K - 1
      <4>. HIDE DEF K
      <4>. QED BY <1>1
    <3>2. PICK x \in S : r[x] = n
      <4>. HIDE DEF r, K
      <4>. QED BY <1>9, <3>1 DEF Surjection
    <3>3. x \in T
      <4>. HIDE DEF r, T
      <4>. QED BY <1>1, <1>10, <3>2
    <3>. QED BY <2>1, <3>2, <3>3
  <2>3. q \in [T -> 0..v - 1]
    <3>1. q = [x \in T |-> q[x]]
      OBVIOUS
    <3>. HIDE DEF q, T, r
    <3>. QED BY <2>1, <3>1
  <2>4. \A x, y \in T : q[x] = q[y] => x = y
    <3>. HIDE DEF q, T, r
    <3>. QED BY <1>5, <2>1
  <2>. HIDE DEF q, T
  <2>. QED BY <2>2, <2>3, <2>4 DEF Bijection, Injection, Surjection, IsInjective
<1>12. IsFiniteSet(T)
  BY FS_Subset
<1>13. Cardinality(0..v - 1) = Cardinality(T)
  <2>. HIDE DEF q, T
  <2>. QED BY <1>11, <1>12, FS_Bijection DEF ExistsBijection
<1>. QED BY <1>1, <1>8, <1>13

\* The order of routes is linear, and so an entity has as many first ones as
\* it has units.
LEMMA ServedAre ==
  ASSUME InputOK, NEW e, volume[e] \in Nat, volume[e] < Cardinality(RoutesOf(e, Routes))
  PROVE  IsFiniteSet(Served(e, Routes)) /\ Cardinality(Served(e, Routes)) = volume[e]
<1>. DEFINE S == RoutesOf(e, Routes)
            B == {p \in S \X S : Before(p[1], p[2])}
            v == volume[e]
<1>1. IsFiniteSet(S) /\ Cardinality(S) \in Nat /\ v \in 0..Cardinality(S)
  <2>1. IsFiniteSet(S) /\ Cardinality(S) \in Nat
    BY RoutesOfAre
  <2>2. v \in Nat /\ v < Cardinality(S)
    OBVIOUS
  <2>. HIDE DEF S, v
  <2>. QED BY <2>1, <2>2
<1>2. ASSUME NEW r \in S
      PROVE  /\ r = <<<<r[1][1], r[1][2]>>, r[2], r[3]>>
             /\ r[2] \in Nat /\ r[1][1] \in Nat /\ r[3] \in Nat /\ r[1][2] \in Nat
  <2>1. r \in Routes
    BY DEF RoutesOf
  <2>2. r = <<r[1], r[2], r[3]>> /\ r[1] \in Pairs /\ r[2] \in Nat /\ r[3] \in Nat
    BY <2>1, RouteIs, RoutesAreFinite
  <2>3. r[1] = <<r[1][1], r[1][2]>> /\ r[1][1] \in Nat /\ r[1][2] \in Nat
    BY <2>2 DEF Pairs, Consumptions, Generations
  <2>. QED BY <2>2, <2>3
<1>3. ASSUME NEW r \in S, NEW s \in S
      PROVE  <<r, s>> \in B <=>
               \/ r[2] < s[2]
               \/ r[2] = s[2] /\ r[1][1] < s[1][1]
               \/ r[2] = s[2] /\ r[1][1] = s[1][1] /\ r[3] < s[3]
               \/ r[2] = s[2] /\ r[1][1] = s[1][1] /\ r[3] = s[3] /\ r[1][2] < s[1][2]
  <2>1. <<r, s>> \in B <=> Before(r, s)
    <3>. HIDE DEF S
    <3>. QED OBVIOUS
  <2>. DEFINE a == Rank(r)
              b == Rank(s)
  <2>2. /\ a[1] = r[2] /\ a[2] = r[1][1] /\ a[3] = r[3] /\ a[4] = r[1][2]
        /\ b[1] = s[2] /\ b[2] = s[1][1] /\ b[3] = s[3] /\ b[4] = s[1][2]
    BY DEF Rank
  <2>3. Before(r, s) <=> \E k \in 1..4 : a[k] < b[k] /\ \A l \in 1..(k - 1) : a[l] = b[l]
    BY DEF Before
  <2>. HIDE DEF a, b, B, S
  <2>4. /\ 1..4 = {1, 2, 3, 4} /\ 1..(1 - 1) = {} /\ 1..(2 - 1) = {1} /\ 1..(3 - 1) = {1, 2}
        /\ 1..(4 - 1) = {1, 2, 3}
    OBVIOUS
  <2>5. Before(r, s) <=>
          \/ a[1] < b[1]
          \/ a[2] < b[2] /\ a[1] = b[1]
          \/ a[3] < b[3] /\ a[1] = b[1] /\ a[2] = b[2]
          \/ a[4] < b[4] /\ a[1] = b[1] /\ a[2] = b[2] /\ a[3] = b[3]
    BY <2>3, <2>4
  <2>. QED BY <2>1, <2>2, <2>5
<1>4. /\ \A r \in S : <<r, r>> \notin B
      /\ \A r, s, t \in S : <<r, s>> \in B /\ <<s, t>> \in B => <<r, t>> \in B
      /\ \A r, s \in S : r # s => <<r, s>> \in B \/ <<s, r>> \in B
  <2>. HIDE DEF S, B
  <2>1. \A r \in S : <<r, r>> \notin B
    BY <1>2, <1>3
  <2>2. ASSUME NEW r \in S, NEW s \in S, NEW t \in S, <<r, s>> \in B, <<s, t>> \in B
        PROVE  <<r, t>> \in B
    BY <1>2, <1>3, <2>2
  <2>3. ASSUME NEW r \in S, NEW s \in S, r # s PROVE <<r, s>> \in B \/ <<s, r>> \in B
    <3>1. \/ r[2] # s[2] \/ r[1][1] # s[1][1]
          \/ r[3] # s[3] \/ r[1][2] # s[1][2]
      BY <1>2, <2>3
    <3>. QED BY <1>2, <1>3, <3>1
  <2>. QED BY <2>1, <2>2, <2>3
<1>5. Served(e, Routes) = Firsts(S, B, v)
  <2>1. ASSUME NEW r \in S PROVE {s \in S : <<s, r>> \in B} = {s \in S : Before(s, r)}
    <3>. HIDE DEF S
    <3>. QED OBVIOUS
  <2>2. (IF v >= 0 THEN v ELSE Cardinality(S) + v) = v
    <3>1. v \in Nat
      OBVIOUS
    <3>. HIDE DEF v, S
    <3>. QED BY <3>1
  <2>3. Served(e, Routes) = {r \in S : Cardinality({s \in S : Before(s, r)}) < v}
    <3>1. Served(e, Routes) = {r \in S : Cardinality({s \in S : Before(s, r)})
                                           < IF v >= 0 THEN v ELSE Cardinality(S) + v}
      BY DEF Served
    <3>. HIDE DEF S, v
    <3>. QED BY <2>2, <3>1
  <2>. HIDE DEF S, B, v
  <2>. QED BY <2>1, <2>3 DEF Firsts
<1>6. Cardinality(Firsts(S, B, v)) = v
  <2>1. \A r \in S : <<r, r>> \notin B
    BY <1>4, Zenon
  <2>2. \A r, s, t \in S : <<r, s>> \in B /\ <<s, t>> \in B => <<r, t>> \in B
    BY <1>4, Zenon
  <2>3. \A r, s \in S : r # s => <<r, s>> \in B \/ <<s, r>> \in B
    BY <1>4, Zenon
  <2>. HIDE DEF S, B, v
  <2>. QED BY <1>1, <2>1, <2>2, <2>3, FirstOfOrder
<1>7. IsFiniteSet(Served(e, Routes))
  <2>1. Served(e, Routes) \subseteq S
    BY DEF Served
  <2>. HIDE DEF S
  <2>. QED BY <1>1, <2>1, FS_Subset
<1>. QED BY <1>5, <1>6, <1>7

-----------------------------------------------------------------------------
(* The state of the matcher *)

\* A round matches pairs that have a route.
LEMMA RoundMatchesAre ==
  ASSUME InputOK, volume \in [AllEntities -> Int], Routes # {}
  PROVE  LET m == RoundMatches(Routes)
         IN  /\ m \in [Pairs -> Int]
             /\ \A x \in Pairs : m[x] # 0 => x \in Linked
             /\ \A e \in AllEntities : volume[e] = 0 => Given(m, e) = 0
<1>. DEFINE c == Scarcest(Routes)
            s == Share(c, Routes)
            D == Served(c, Routes)
            m == RoundMatches(Routes)
<1>1. s \in Int
  <2>1. c \in AllEntities /\ RoutesOf(c, Routes) # {}
    BY ScarcestIs
  <2>. HIDE DEF c
  <2>. QED BY <2>1, ShareInt
<1>2. m = IF s # 0 THEN [x \in Pairs |-> s * Cardinality(Via(x, Routes))]
          ELSE [x \in Pairs |-> Cardinality(Via(x, D))]
  BY DEF RoundMatches
<1>3. D \subseteq Routes
  BY DEF Served, RoutesOf
<1>. HIDE DEF s, D
<1>4. \A x : Cardinality(Via(x, Routes)) \in Nat /\ Cardinality(Via(x, D)) \in Nat
  BY <1>3, ViaIs
<1>5. \A x : Via(x, Routes) = {} => Cardinality(Via(x, Routes)) = 0 /\ Cardinality(Via(x, D)) = 0
  <2>1. \A x : Via(x, Routes) = {} => Via(x, D) = {}
    BY <1>3 DEF Via
  <2>. QED BY <2>1, FS_EmptySet
<1>6. /\ m \in [Pairs -> Int]
      /\ \A x \in Pairs : Via(x, Routes) = {} => m[x] = 0
  <2>1. \A n \in Nat : s * n \in Int /\ s * 0 = 0
    BY <1>1
  <2>2. CASE s # 0
    <3>. DEFINE g(x) == Cardinality(Via(x, Routes))
    <3>1. m = [x \in Pairs |-> s * g(x)]
      BY <1>2, <2>2
    <3>2. \A x : g(x) \in Nat /\ (Via(x, Routes) = {} => g(x) = 0)
      BY <1>4, <1>5
    <3>. HIDE DEF g, m
    <3>3. \A x : s * g(x) \in Int /\ (Via(x, Routes) = {} => s * g(x) = 0)
      BY <2>1, <3>2
    <3>. QED BY <3>1, <3>3
  <2>3. CASE s = 0
    <3>1. m = [x \in Pairs |-> Cardinality(Via(x, D))]
      BY <1>2, <2>3
    <3>. HIDE DEF m
    <3>. QED BY <1>4, <1>5, <3>1
  <2>. QED BY <2>2, <2>3
<1>. HIDE DEF m
<1>7. \A x \in Pairs : m[x] # 0 => x \in Linked
  BY <1>6 DEF Linked
<1>8. ASSUME NEW e \in AllEntities, volume[e] = 0 PROVE Given(m, e) = 0
  <2>1. RoutesOf(e, Routes) = {}
    BY <1>8, RoutedIsUsable
  <2>2. At(e) \cap Linked = {}
    BY <2>1, RoutesOfAre
  <2>3. \A x \in At(e) : m[x] = 0
    BY <1>7, <2>2 DEF At
  <2>. QED BY <2>3, GivenNothing
<1>. QED BY <1>6, <1>7, <1>8 DEF m

\* The inductive invariant: what a pair was given is missing on both sides.
MatcherInv ==
  /\ InputOK
  /\ volume \in [AllEntities -> Int] /\ matched \in [Pairs -> Int]
  /\ rounds \in Nat
  /\ \A e \in AllEntities : volume[e] + Given(matched, e) = input.volume[e]

\* What a round leaves.
LEMMA RoundLeaves ==
  ASSUME MatcherInv, MatchRound
  PROVE  LET m == RoundMatches(Routes)
         IN  /\ Routes # {} /\ input' = input /\ outcome' = outcome /\ rounds' = rounds + 1
             /\ m \in [Pairs -> Int] /\ \A x \in Pairs : m[x] # 0 => x \in Linked
             /\ matched' = [x \in Pairs |-> matched[x] + m[x]]
             /\ matched' \in [Pairs -> Int] /\ volume' \in [AllEntities -> Int]
             /\ \A e \in AllEntities : /\ volume'[e] = volume[e] - Given(m, e)
                                       /\ volume[e] = 0 => volume'[e] = 0
                                       /\ Given(m, e) \in Int
             /\ \A e : Given(matched', e) = Given(matched, e) + Given(m, e)
<1>. DEFINE m == RoundMatches(Routes)
<1>1. /\ Routes # {} /\ input' = input /\ outcome' = outcome /\ rounds' = rounds + 1
      /\ matched' = [x \in Pairs |-> matched[x] + m[x]]
      /\ volume' = [e \in AllEntities |-> volume[e] - Given(m, e)]
  BY DEF MatchRound, AllEntities
<1>2. /\ m \in [Pairs -> Int] /\ \A x \in Pairs : m[x] # 0 => x \in Linked
      /\ \A e \in AllEntities : volume[e] = 0 => Given(m, e) = 0
  BY <1>1, RoundMatchesAre DEF MatcherInv
<1>. HIDE DEF m
<1>3. \A e : Given(m, e) \in Int
  BY <1>2, GivenInt
<1>4. \A e \in AllEntities : volume[e] \in Int
  BY DEF MatcherInv
<1>5. matched \in [Pairs -> Int]
  BY DEF MatcherInv
<1>6. matched' \in [Pairs -> Int]
  BY <1>1, <1>2, <1>5
<1>7. ASSUME NEW e \in AllEntities
      PROVE  /\ volume'[e] = volume[e] - Given(m, e) /\ volume'[e] \in Int
             /\ volume[e] = 0 => volume'[e] = 0
  BY <1>1, <1>2, <1>3, <1>4
<1>8. volume' \in [AllEntities -> Int]
  BY <1>1, <1>7
<1>9. \A e : Given(matched', e) = Given(matched, e) + Given(m, e)
  BY <1>1, <1>2, <1>5, GivenAdds
<1>. QED BY <1>1, <1>2, <1>3, <1>6, <1>7, <1>8, <1>9 DEF m

\* The invariant holds at the start and after every step of the matcher.
LEMMA MatcherStarts ==
  MatcherInit => MatcherInv /\ VolumesAre(volume) /\ matched \in [Pairs -> Nat]
<1>. SUFFICES ASSUME MatcherInit
              PROVE  MatcherInv /\ VolumesAre(volume) /\ matched \in [Pairs -> Nat]
  OBVIOUS
<1>1. InputOK /\ volume = input.volume /\ VolumesAre(volume)
  <2>1. PICK v \in [AllEntities -> Volumes], p \in Priorities : input = [priority |-> p, volume |-> v]
    BY DEF MatcherInit, AllEntities
  <2>2. v \in [AllEntities -> Nat]
    BY MatcherAssumption DEF MatcherAssumption
  <2>3. input.priority = p /\ input.volume = v /\ volume = input.volume
    BY <2>1 DEF MatcherInit
  <2>. QED BY <2>2, <2>3 DEF InputOK, VolumesAre
<1>2. matched = [x \in Pairs |-> 0] /\ rounds \in Nat
  BY DEF MatcherInit
<1>3. \A e : Given(matched, e) = 0
  BY <1>2, GivenNothing DEF At
<1>4. \A e \in AllEntities : volume[e] \in Nat
  BY <1>1 DEF VolumesAre
<1>5. volume \in [AllEntities -> Int]
  BY <1>1 DEF VolumesAre
<1>. QED BY <1>1, <1>2, <1>3, <1>4, <1>5 DEF MatcherInv

LEMMA MatcherGoesOn ==
  ASSUME MatcherInv, MatcherStep \/ UNCHANGED matcherVars
  PROVE  MatcherInv'
<1>1. CASE MatchRound
  <2>. DEFINE m == RoundMatches(Routes)
  <2>1. /\ input' = input /\ rounds' = rounds + 1
        /\ matched' \in [Pairs -> Int] /\ volume' \in [AllEntities -> Int]
        /\ \A e \in AllEntities : volume'[e] = volume[e] - Given(m, e) /\ Given(m, e) \in Int
        /\ \A e : Given(matched', e) = Given(matched, e) + Given(m, e)
    BY <1>1, RoundLeaves
  <2>. HIDE DEF m
  <2>2. \A e : Given(matched, e) \in Int
    BY GivenInt DEF MatcherInv
  <2>3. \A e \in AllEntities : volume[e] \in Int /\ volume[e] + Given(matched, e) = input.volume[e]
    BY DEF MatcherInv
  <2>4. \A e \in AllEntities : volume'[e] + Given(matched', e) = input'.volume[e]
    BY <2>1, <2>2, <2>3
  <2>5. InputOK' /\ rounds' \in Nat
    BY <2>1 DEF MatcherInv, InputOK
  <2>. QED BY <2>1, <2>4, <2>5 DEF MatcherInv
<1>2. CASE UNCHANGED <<input, volume, matched, rounds>>
  BY <1>2 DEF MatcherInv, InputOK
<1>. QED BY <1>1, <1>2 DEF MatcherStep, Stop, matcherVars

\* Every step of the service is one of the matcher or leaves it alone.
LEMMA ServiceStep ==
  ASSUME [Next]_vars
  PROVE  MatcherStep \/ UNCHANGED matcherVars
BY DEF Next, vars, Match, BatchClaim, BatchClaimRefuses, BatchClaimFails, CreateLogs, Retry

LEMMA MatcherInvariant == Spec => []MatcherInv
<1>1. Init => MatcherInv
  BY MatcherStarts DEF Init
<1>2. MatcherInv /\ [Next]_vars => MatcherInv'
  BY ServiceStep, MatcherGoesOn
<1>. QED BY <1>1, <1>2, PTL DEF Spec

-----------------------------------------------------------------------------
(* Priorities *)

\* Nobody who is used up is usable again.
LEMMA UsedUpStays ==
  ASSUME \A e \in AllEntities : volume[e] = 0 => volume'[e] = 0,
         NEW side \in {1, 2}, NEW groups, NEW k, UsedUp(groups, k, side)
  PROVE  UsedUp(groups, k, side)'
<1>1. ASSUME NEW id, UsableOf(side, id) = {} PROVE UsableOf(side, id)' = {}
  <2>1. ASSUME NEW n \in 1..Len(Ids[side]), Ids[side][n] = id PROVE volume'[<<side, n>>] = 0
    <3>1. <<side, n>> \in AllEntities
      BY <2>1, EntitiesAre DEF Consumptions, Generations
    <3>2. volume[<<side, n>>] = 0
      BY <1>1, <2>1 DEF UsableOf
    <3>. QED BY <3>1, <3>2
  <2>. QED BY <2>1 DEF UsableOf
<1>. QED BY <1>1 DEF UsedUp

\* A pair with a route is served before none of higher rank.
LEMMA RoutesKeepRanks ==
  ASSUME InputOK, NEW x \in Linked
  PROVE  \E k \in GroupOf(input.priority, Ids[1][x[1]]) :
           /\ UsedUp(input.priority, k, 1)
           /\ \E entry \in ToSet(input.priority[k]) :
                /\ entry.id = Ids[1][x[1]]
                /\ \E l \in GroupOf(entry.groupPriority, Ids[2][x[2]]) :
                     UsedUp(entry.groupPriority, l, 2)
<1>1. ASSUME NEW groups, AreGroups(groups), NEW side, NEW k \in UsableGroups(groups, side),
             \A l \in UsableGroups(groups, side) : k <= l
      PROVE  UsedUp(groups, k, side)
  <2>1. ASSUME NEW l \in 1..(k - 1), NEW n \in DOMAIN groups[l]
        PROVE  UsableOf(side, groups[l][n].id) = {}
    <3>1. DOMAIN groups = 1..Len(groups) /\ Len(groups) \in Nat /\ k \in DOMAIN groups
      BY <1>1 DEF AreGroups, IsList, UsableGroups
    <3>2. l \in DOMAIN groups /\ ~(k <= l)
      BY <3>1
    <3>3. l \notin UsableGroups(groups, side)
      BY <1>1, <3>2
    <3>. QED BY <3>2, <3>3 DEF UsableGroups
  <2>. QED BY <2>1 DEF UsedUp, ToSet
<1>2. PICK r \in Routes : r[1] = x
  BY LinkedAre
<1>. DEFINE n == r[2]
            m == r[3]
            entry == ConsumerGroup[n]
<1>3. /\ n \in DOMAIN ConsumerGroup /\ entry.id = Ids[1][x[1]]
      /\ m \in DOMAIN Preferred(n) /\ Preferred(n)[m].id = Ids[2][x[2]]
  BY <1>2, RouteIs
<1>4. PICK k \in UsableGroups(input.priority, 1) :
        /\ ConsumerGroup = input.priority[k]
        /\ \A l \in UsableGroups(input.priority, 1) : k <= l
  BY <1>3, GroupsOfRound
<1>5. AreGroups(input.priority) /\ AreGroups(entry.groupPriority)
  <2>1. AreGroups(input.priority)
    BY MatcherAssumption DEF MatcherAssumption, InputOK
  <2>. QED BY <1>3, <2>1, GroupsOfRound
<1>6. PICK l \in UsableGroups(entry.groupPriority, 2) :
        /\ Preferred(n) = entry.groupPriority[l]
        /\ \A j \in UsableGroups(entry.groupPriority, 2) : l <= j
  <2>1. Preferred(n) = FirstUsableGroup(entry.groupPriority, 2)
    BY DEF Preferred, GeneratorGroup
  <2>2. DOMAIN Preferred(n) # {}
    BY <1>3
  <2>. HIDE DEF entry, n
  <2>. QED BY <1>5, <2>1, <2>2, FirstUsableIs
<1>. HIDE DEF entry
<1>7. UsedUp(input.priority, k, 1) /\ UsedUp(entry.groupPriority, l, 2)
  BY <1>1, <1>4, <1>5, <1>6
<1>8. entry \in ToSet(input.priority[k]) /\ k \in DOMAIN input.priority
  BY <1>3, <1>4 DEF entry, ToSet, UsableGroups
<1>9. k \in GroupOf(input.priority, Ids[1][x[1]]) /\ entry.id = Ids[1][x[1]]
  BY <1>3, <1>8 DEF GroupOf
<1>10. l \in GroupOf(entry.groupPriority, Ids[2][x[2]])
  <2>1. Preferred(n)[m] \in ToSet(entry.groupPriority[l])
    BY <1>3, <1>6 DEF ToSet
  <2>2. l \in DOMAIN entry.groupPriority
    BY <1>6 DEF UsableGroups
  <2>. QED BY <1>3, <2>1, <2>2 DEF GroupOf
<1>. QED BY <1>7, <1>8, <1>9, <1>10

\* A later group is only served when the entities of all groups before it are
\* used up, for any entities, volumes and priorities (spreadMatcher.ts:276-288,
\* 358-362).
THEOREM MatchingKeepsPriorities == Spec => []PrioritiesRespected
<1>1. Init => PrioritiesRespected
  BY DEF Init, MatcherInit, PrioritiesRespected
<1>2. MatcherInv /\ PrioritiesRespected /\ [Next]_vars => PrioritiesRespected'
  <2>. SUFFICES ASSUME MatcherInv, PrioritiesRespected, [Next]_vars
                PROVE  PrioritiesRespected'
    OBVIOUS
  <2>1. CASE MatchRound
    <3>. DEFINE m == RoundMatches(Routes)
    <3>1. /\ Routes # {} /\ input' = input
          /\ matched' = [x \in Pairs |-> matched[x] + m[x]]
          /\ \A e \in AllEntities : volume[e] = 0 => volume'[e] = 0
          /\ m \in [Pairs -> Int] /\ \A x \in Pairs : m[x] # 0 => x \in Linked
      BY <2>1, RoundLeaves
    <3>2. InputOK /\ matched \in [Pairs -> Int]
      BY DEF MatcherInv
    <3>. HIDE DEF m
    <3>3. ASSUME NEW x \in Pairs, matched'[x] > 0 PROVE matched[x] > 0 \/ x \in Linked
      BY <3>1, <3>2, <3>3
    <3>4. ASSUME NEW x \in Pairs, matched'[x] > 0
          PROVE  \E k \in GroupOf(input.priority, Ids[1][x[1]]) :
                   /\ UsedUp(input.priority, k, 1)
                   /\ \E entry \in ToSet(input.priority[k]) :
                        /\ entry.id = Ids[1][x[1]]
                        /\ \E l \in GroupOf(entry.groupPriority, Ids[2][x[2]]) :
                             UsedUp(entry.groupPriority, l, 2)
      BY <3>2, <3>3, <3>4, RoutesKeepRanks DEF PrioritiesRespected
    <3>5. \A groups, k : \A side \in {1, 2} : UsedUp(groups, k, side) => UsedUp(groups, k, side)'
      BY <3>1, UsedUpStays
    <3>. QED BY <3>1, <3>4, <3>5 DEF PrioritiesRespected
  <2>2. CASE UNCHANGED <<input, volume, matched>>
    BY <2>2 DEF PrioritiesRespected, UsedUp, UsableOf
  <2>. QED BY <2>1, <2>2, ServiceStep DEF MatcherStep, Stop, matcherVars
<1>. QED BY <1>1, <1>2, MatcherInvariant, PTL DEF Spec

-----------------------------------------------------------------------------
(* The claim and its logs *)

ServiceTypeOK ==
  /\ step \in {"match", "claim", "log", "reported", "rejected"}
  /\ balance \in [Generations -> Int]
  /\ logs \in [Entries -> Nat]
  /\ tries \in Nat \ {0}
  /\ faults \in Nat

\* The matches were claimed k times, and logged less often as long as the
\* last claim still has to be.
ClaimedTimes(k) ==
  /\ \A g \in Generations : balance[g] = input.volume[<<2, g>>] - k * Wanted(g)
  /\ k <= tries
  /\ k <= faults + 1
  /\ step = "match" => k = 0
  /\ step \in {"match", "claim"} => k + 1 <= tries
  /\ step \in {"match", "claim", "rejected"} => k <= faults
  /\ \A x \in Pairs :
       /\ logs[<<"match", x>>] <= k
       /\ step = "log" => logs[<<"match", x>>] + 1 <= k

Reported == step = "reported" => \A x \in Report : logs[x] > 0

ClaimInv == ServiceTypeOK /\ Reported /\ \E k \in Nat : ClaimedTimes(k)

\* What is wanted from a generation is a sum, and a number.
LEMMA WantedIsTotal == \A g : Wanted(g) = Total(matched, {x \in FilteredMatches : x[2] = g})
BY FoldsAreTotals DEF Wanted

LEMMA WantedIs == MatcherInv => \A g : Wanted(g) \in Nat
<1>. SUFFICES ASSUME MatcherInv, NEW g PROVE Wanted(g) \in Nat
  OBVIOUS
<1>. DEFINE S == {x \in FilteredMatches : x[2] = g}
<1>1. S \subseteq Pairs /\ \A x \in S : matched[x] \in Nat
  BY DEF FilteredMatches, MatcherInv
<1>. HIDE DEF S
<1>2. IsFiniteSet(S)
  BY <1>1, AllIsFinite, FS_Subset
<1>3. Total(matched, S) \in Nat
  BY <1>1, <1>2, TotalNat
<1>4. Wanted(g) = Total(matched, S)
  BY WantedIsTotal DEF S
<1>. QED BY <1>3, <1>4

LEMMA WantedNat ==
  ASSUME MatcherInv
  PROVE  \A g \in Generations : Wanted(g) \in Nat /\ input.volume[<<2, g>>] \in Nat
<1>1. \A g \in Generations : <<2, g>> \in AllEntities
  BY EntitiesAre
<1>2. \A e \in AllEntities : input.volume[e] \in Nat
  BY DEF MatcherInv, InputOK, VolumesAre
<1>3. ASSUME NEW g \in Generations PROVE Wanted(g) \in Nat
  BY WantedIs
<1>. QED BY <1>1, <1>2, <1>3

\* The entries of a report are entries, and finitely many.
LEMMA ReportIs == Report \subseteq Entries /\ IsFiniteSet(Report)
<1>1. IsFiniteSet({"match"} \X Pairs) /\ IsFiniteSet({"left"} \X AllEntities)
  BY AllIsFinite, FS_Singleton, FS_Product
<1>2. IsFiniteSet(Entries)
  BY <1>1, FS_Union DEF Entries, AllEntities
<1>3. Report \subseteq Entries
  BY DEF Report, Entries, FilteredMatches
<1>. QED BY <1>2, <1>3, FS_Subset

\* Nothing but the algorithm changes what is wanted and reported.
LEMMA WantedStays ==
  ASSUME UNCHANGED matcherVars
  PROVE  /\ input' = input /\ outcome' = outcome
         /\ \A g : Wanted(g)' = Wanted(g)
         /\ Report' = Report
<1>1. UNCHANGED <<input, volume, matched, outcome>>
  BY DEF matcherVars
<1>2. FilteredMatches' = FilteredMatches
  BY <1>1 DEF FilteredMatches
<1>3. \A g : Wanted(g)' = Wanted(g)
  <2>1. \A g : Wanted(g) = Total(matched, {x \in FilteredMatches : x[2] = g})
    BY WantedIsTotal
  <2>2. (\A g : Wanted(g) = Total(matched, {x \in FilteredMatches : x[2] = g}))'
    BY WantedIsTotal, PTL
  <2>. QED BY <1>1, <1>2, <2>1, <2>2
<1>. QED BY <1>1, <1>2, <1>3 DEF Report

\* As long as nothing was claimed, nothing was logged for a match.
LEMMA ClaimStarts == Init => ClaimInv
<1>. SUFFICES ASSUME Init PROVE ClaimInv
  OBVIOUS
<1>1. MatcherInv
  BY MatcherStarts DEF Init
<1>2. \A g \in Generations : Wanted(g) \in Nat /\ input.volume[<<2, g>>] \in Nat
  BY <1>1, WantedNat
<1>3. /\ step = "match" /\ tries = 1 /\ faults = 0
      /\ balance = [g \in Generations |-> input.volume[<<2, g>>]]
      /\ logs = [x \in Entries |-> 0]
  BY DEF Init
<1>4. ServiceTypeOK /\ Reported
  BY <1>2, <1>3 DEF ServiceTypeOK, Reported
<1>5. ClaimedTimes(0)
  <2>1. \A x \in Pairs : <<"match", x>> \in Entries
    BY DEF Entries
  <2>2. \A v, w \in Nat : v = v - 0 * w
    OBVIOUS
  <2>. QED BY <1>2, <1>3, <2>1, <2>2 DEF ClaimedTimes
<1>. QED BY <1>4, <1>5 DEF ClaimInv

\* One more claim takes what is wanted once more.
LEMMA ClaimedOnceMore ==
  ASSUME MatcherInv, UNCHANGED <<matcherVars, logs, tries>>, NEW k \in Nat, ClaimedTimes(k),
         ServiceTypeOK, step = "claim", balance' = Claimed, faults' \in Nat,
         \/ step' = "log" /\ faults' = faults
         \/ step' = "rejected" /\ faults' = faults + 1
  PROVE  ClaimedTimes(k + 1)' /\ balance' \in [Generations -> Int]
<1>1. \A g \in Generations : Wanted(g) \in Nat /\ input.volume[<<2, g>>] \in Nat
  BY WantedNat
<1>2. input' = input /\ (\A g : Wanted(g)' = Wanted(g)) /\ logs' = logs /\ tries' = tries
  BY WantedStays
<1>3. \A g \in Generations : balance'[g] = input.volume[<<2, g>>] - (k + 1) * Wanted(g)
  <2>1. \A v, w \in Nat : v - k * w - w = v - (k + 1) * w
    OBVIOUS
  <2>2. \A g \in Generations : balance'[g] = balance[g] - Wanted(g)
    BY DEF Claimed
  <2>3. \A g \in Generations : balance[g] = input.volume[<<2, g>>] - k * Wanted(g)
    BY DEF ClaimedTimes
  <2>. QED BY <1>1, <2>1, <2>2, <2>3
<1>4. balance' \in [Generations -> Int]
  <2>1. \A b \in Int, w \in Nat : b - w \in Int
    OBVIOUS
  <2>2. \A g \in Generations : balance[g] - Wanted(g) \in Int
    BY <1>1, <2>1 DEF ServiceTypeOK
  <2>. QED BY <2>2 DEF Claimed
<1>5. \A x \in Pairs : logs[<<"match", x>>] \in Nat /\ logs[<<"match", x>>] <= k
  BY DEF ServiceTypeOK, ClaimedTimes, Entries
<1>6. /\ k + 1 <= tries' /\ k + 1 <= faults' + 1 /\ step' \notin {"match", "claim"}
      /\ step' = "rejected" => k + 1 <= faults'
  <2>1. k + 1 <= tries /\ k <= faults /\ faults \in Nat
    BY DEF ClaimedTimes, ServiceTypeOK
  <2>2. \A a, b \in Nat : a <= b => a + 1 <= b + 1
    OBVIOUS
  <2>3. k + 1 <= faults + 1
    BY <2>1, <2>2
  <2>4. CASE step' = "log" /\ faults' = faults
    BY <1>2, <2>1, <2>3, <2>4
  <2>5. CASE step' = "rejected" /\ faults' = faults + 1
    <3>1. k + 1 <= faults' + 1
      <4>1. \A f \in Nat : k <= f => k + 1 <= f + 1 + 1
        OBVIOUS
      <4>. QED BY <2>1, <2>5, <4>1
    <3>. QED BY <1>2, <2>1, <2>3, <2>5, <3>1
  <2>. QED BY <2>4, <2>5
<1>7. \A x \in Pairs : logs'[<<"match", x>>] <= k + 1 /\ logs'[<<"match", x>>] + 1 <= k + 1
  <2>1. \A n \in Nat : n <= k => n <= k + 1 /\ n + 1 <= k + 1
    OBVIOUS
  <2>. QED BY <1>2, <1>5, <2>1
<1>. QED BY <1>2, <1>3, <1>4, <1>6, <1>7 DEF ClaimedTimes

\* What a step that claims nothing and logs nothing leaves.
LEMMA ClaimedStays ==
  ASSUME UNCHANGED <<matcherVars, balance, logs>>, NEW k \in Nat, ClaimedTimes(k), ServiceTypeOK,
         tries' \in Nat, faults' \in Nat, tries <= tries', faults <= faults',
         step' \notin {"match", "log"},
         step' = "claim" => k + 1 <= tries' /\ k <= faults',
         step' = "rejected" => k <= faults'
  PROVE  ClaimedTimes(k)'
<1>1. input' = input /\ (\A g : Wanted(g)' = Wanted(g)) /\ logs' = logs /\ balance' = balance
  BY WantedStays
<1>2. k <= tries' /\ k <= faults' + 1
  <2>1. k <= tries /\ k <= faults + 1 /\ tries \in Nat /\ faults \in Nat
    BY DEF ClaimedTimes, ServiceTypeOK
  <2>2. \A t, f \in Nat : /\ tries <= t /\ k <= tries => k <= t
                          /\ faults <= f /\ k <= faults + 1 => k <= f + 1
    BY <2>1
  <2>. QED BY <2>1, <2>2
<1>3. /\ step' # "match" /\ step' # "log"
      /\ step' \in {"match", "claim"} => k + 1 <= tries'
      /\ step' \in {"match", "claim", "rejected"} => k <= faults'
  OBVIOUS
<1>4. \A g \in Generations : balance'[g] = input'.volume[<<2, g>>] - k * Wanted(g)'
  BY <1>1 DEF ClaimedTimes
<1>5. \A x \in Pairs : logs'[<<"match", x>>] <= k
  BY <1>1 DEF ClaimedTimes
<1>. QED BY <1>2, <1>3, <1>4, <1>5 DEF ClaimedTimes

LEMMA LogsFollow ==
  ASSUME MatcherInv, NEW k \in Nat, ClaimedTimes(k), ServiceTypeOK, CreateLogs
  PROVE  ClaimedTimes(k)' /\ ServiceTypeOK' /\ Reported'
<1>1. PICK lost \in LostOf(Report) :
        /\ Fault(Cardinality(lost))
        /\ logs' = Logged(Report, lost)
        /\ step' = IF lost = {} THEN "reported" ELSE "rejected"
  BY DEF CreateLogs
<1>2. /\ step = "log" /\ UNCHANGED <<matcherVars, balance, tries>>
  BY DEF CreateLogs
<1>3. /\ input' = input /\ balance' = balance /\ tries' = tries
      /\ (\A g : Wanted(g)' = Wanted(g)) /\ Report' = Report
  BY <1>2, WantedStays
<1>4. lost \subseteq Report /\ Cardinality(lost) \in Nat /\ (lost # {} => Cardinality(lost) # 0)
  <2>1. lost \in SUBSET Report
    BY <1>1 DEF LostOf, kSubset
  <2>2. IsFiniteSet(lost)
    BY <2>1, ReportIs, FS_Subset
  <2>. QED BY <2>1, <2>2, FS_EmptySet, FS_CardinalityType
<1>5. \A x \in Entries : /\ logs'[x] = IF x \in Report \ lost THEN logs[x] + 1 ELSE logs[x]
                         /\ logs[x] \in Nat
  BY <1>1 DEF Logged, ServiceTypeOK
<1>6. faults' = faults + Cardinality(lost) /\ faults \in Nat /\ faults' \in Nat
  BY <1>1, <1>4 DEF Fault, ServiceTypeOK
<1>7. logs' \in [Entries -> Nat]
  BY <1>1, <1>5 DEF Logged
<1>8. \A x \in Pairs : logs'[<<"match", x>>] <= k
  <2>1. \A x \in Pairs : <<"match", x>> \in Entries /\ logs[<<"match", x>>] + 1 <= k
    BY <1>2 DEF Entries, ClaimedTimes
  <2>2. \A n \in Nat : n + 1 <= k => n <= k
    OBVIOUS
  <2>. QED BY <1>5, <2>1, <2>2
<1>9. ClaimedTimes(k)'
  <2>1. k <= tries /\ k <= faults + 1
    BY DEF ClaimedTimes
  <2>2. k <= tries' /\ k <= faults' + 1 /\ (step' = "rejected" => k <= faults')
    BY <1>1, <1>3, <1>4, <1>6, <2>1
  <2>3. step' \in {"reported", "rejected"}
    BY <1>1
  <2>4. \A g \in Generations : balance'[g] = input'.volume[<<2, g>>] - k * Wanted(g)'
    BY <1>3 DEF ClaimedTimes
  <2>. QED BY <1>8, <2>2, <2>3, <2>4 DEF ClaimedTimes
<1>10. ServiceTypeOK'
  BY <1>1, <1>3, <1>6, <1>7 DEF ServiceTypeOK
<1>11. Reported'
  <2>1. ASSUME step' = "reported", NEW x \in Report PROVE logs'[x] > 0
    <3>1. lost = {}
      BY <1>1, <2>1
    <3>2. x \in Entries
      BY ReportIs
    <3>. QED BY <1>5, <3>1, <3>2
  <2>. QED BY <1>3, <2>1 DEF Reported
<1>. QED BY <1>9, <1>10, <1>11

\* The algorithm claims nothing.
LEMMA MatchClaimsNothing ==
  ASSUME MatcherInv, MatcherInv', NEW k \in Nat, ClaimedTimes(k), ServiceTypeOK, Match
  PROVE  ClaimedTimes(k)' /\ ServiceTypeOK' /\ Reported'
<1>1. /\ step = "match" /\ UNCHANGED <<balance, logs, tries, faults>>
      /\ step' \in {"match", "claim", "rejected"} /\ input' = input
  <2>1. input' = input /\ outcome' \in {"running", "returned", "threw"}
    BY DEF Match, MatcherStep, MatchRound, Stop
  <2>. QED BY <2>1 DEF Match
<1>2. k = 0 /\ k + 1 <= tries /\ k <= faults
  BY <1>1 DEF ClaimedTimes
<1>3. \A g \in Generations : /\ Wanted(g) \in Nat /\ Wanted(g)' \in Nat
                             /\ input.volume[<<2, g>>] \in Nat
  <2>1. MatcherInv' => (\A g : Wanted(g) \in Nat)'
    BY WantedIs, PTL
  <2>. QED BY <2>1, WantedNat
<1>4. \A g \in Generations : balance'[g] = input'.volume[<<2, g>>] - k * Wanted(g)'
  <2>1. \A v, w, z \in Nat : v - 0 * w = v - 0 * z
    OBVIOUS
  <2>2. \A g \in Generations : balance'[g] = input'.volume[<<2, g>>] - k * Wanted(g)
    BY <1>1 DEF ClaimedTimes
  <2>. QED BY <1>1, <1>2, <1>3, <2>1, <2>2
<1>5. ClaimedTimes(k)'
  <2>1. \A x \in Pairs : logs'[<<"match", x>>] <= k
    BY <1>1 DEF ClaimedTimes
  <2>2. k <= tries' /\ k + 1 <= tries' /\ k <= faults' /\ k <= faults' + 1
    BY <1>1, <1>2 DEF ServiceTypeOK
  <2>3. step' # "log"
    BY <1>1
  <2>. QED BY <1>2, <1>4, <2>1, <2>2, <2>3 DEF ClaimedTimes
<1>6. ServiceTypeOK' /\ Reported'
  BY <1>1 DEF ServiceTypeOK, Reported
<1>. QED BY <1>5, <1>6

LEMMA ClaimGoesOn ==
  ASSUME MatcherInv, MatcherInv', ClaimInv, [Next]_vars
  PROVE  ClaimInv'
<1>1. PICK k \in Nat : ClaimedTimes(k)
  BY DEF ClaimInv
<1>2. ServiceTypeOK /\ Reported
  BY DEF ClaimInv
<1>3. CASE Match
  BY <1>1, <1>2, <1>3, MatchClaimsNothing DEF ClaimInv
<1>4. CASE BatchClaim
  <2>1. /\ UNCHANGED <<matcherVars, logs, tries>> /\ step = "claim" /\ balance' = Claimed
        /\ step' = "log" /\ faults' = faults /\ faults' \in Nat
    BY <1>2, <1>4 DEF BatchClaim, ServiceTypeOK
  <2>2. ClaimedTimes(k + 1)' /\ balance' \in [Generations -> Int]
    BY <1>1, <1>2, <2>1, ClaimedOnceMore
  <2>3. ServiceTypeOK' /\ Reported'
    BY <1>2, <2>1, <2>2 DEF ServiceTypeOK, Reported
  <2>. QED BY <2>2, <2>3 DEF ClaimInv
<1>5. CASE BatchClaimRefuses
  <2>1. /\ UNCHANGED <<matcherVars, balance, logs>> /\ step = "claim" /\ step' = "rejected"
        /\ tries' = tries /\ faults' = faults
    BY <1>5 DEF BatchClaimRefuses
  <2>2. k <= faults
    BY <1>1, <2>1 DEF ClaimedTimes
  <2>3. tries \in Nat /\ faults \in Nat
    BY <1>2 DEF ServiceTypeOK
  <2>4. tries <= tries' /\ faults <= faults' /\ tries' \in Nat /\ faults' \in Nat
    BY <2>1, <2>3
  <2>5. ClaimedTimes(k)'
    BY <1>1, <1>2, <2>1, <2>2, <2>4, ClaimedStays
  <2>6. ServiceTypeOK' /\ Reported'
    BY <1>2, <2>1 DEF ServiceTypeOK, Reported
  <2>. QED BY <2>5, <2>6 DEF ClaimInv
<1>6. CASE BatchClaimFails
  <2>1. /\ UNCHANGED <<matcherVars, logs, tries>> /\ step = "claim" /\ step' = "rejected"
        /\ faults' = faults + 1 /\ balance' \in {balance, Claimed}
    BY <1>6 DEF BatchClaimFails, Fault
  <2>2. k <= faults /\ k \in Nat /\ faults \in Nat /\ tries \in Nat
    BY <1>1, <1>2, <2>1 DEF ClaimedTimes, ServiceTypeOK
  <2>3. /\ tries <= tries' /\ faults <= faults' /\ tries' \in Nat /\ faults' \in Nat
        /\ k <= faults'
    BY <2>1, <2>2
  <2>4. CASE balance' = balance
    <3>1. UNCHANGED <<matcherVars, balance, logs>>
      BY <2>1, <2>4
    <3>2. ClaimedTimes(k)'
      BY <1>1, <1>2, <2>1, <2>3, <3>1, ClaimedStays
    <3>3. ServiceTypeOK' /\ Reported'
      BY <1>2, <2>1, <2>3, <3>1 DEF ServiceTypeOK, Reported
    <3>. QED BY <3>2, <3>3 DEF ClaimInv
  <2>5. CASE balance' = Claimed
    <3>1. ClaimedTimes(k + 1)' /\ balance' \in [Generations -> Int]
      BY <1>1, <1>2, <2>1, <2>3, <2>5, ClaimedOnceMore
    <3>2. ServiceTypeOK' /\ Reported'
      BY <1>2, <2>1, <2>3, <3>1 DEF ServiceTypeOK, Reported
    <3>. QED BY <3>1, <3>2 DEF ClaimInv
  <2>. QED BY <2>1, <2>4, <2>5
<1>7. CASE CreateLogs
  BY <1>1, <1>2, <1>7, LogsFollow DEF ClaimInv
<1>8. CASE Retry
  <2>1. /\ UNCHANGED <<matcherVars, balance, logs>> /\ step = "rejected" /\ step' = "claim"
        /\ tries' = tries + 1 /\ faults' = faults
    BY <1>8 DEF Retry
  <2>2. k <= faults /\ k <= tries /\ faults \in Nat /\ tries \in Nat
    BY <1>1, <1>2, <2>1 DEF ClaimedTimes, ServiceTypeOK
  <2>3. /\ tries <= tries' /\ faults <= faults' /\ tries' \in Nat \ {0} /\ faults' \in Nat
        /\ k <= faults' /\ k + 1 <= tries'
    BY <2>1, <2>2
  <2>4. ClaimedTimes(k)'
    BY <1>1, <1>2, <2>1, <2>3, ClaimedStays
  <2>5. ServiceTypeOK' /\ Reported'
    BY <1>2, <2>1, <2>3 DEF ServiceTypeOK, Reported
  <2>. QED BY <2>4, <2>5 DEF ClaimInv
<1>9. CASE UNCHANGED vars
  <2>1. UNCHANGED <<matcherVars, step, balance, logs, tries, faults>>
    BY <1>9 DEF vars, serviceVars
  <2>2. input' = input /\ (\A g : Wanted(g)' = Wanted(g)) /\ Report' = Report
    BY <2>1, WantedStays
  <2>3. ClaimedTimes(k)'
    BY <1>1, <2>1, <2>2 DEF ClaimedTimes
  <2>4. ServiceTypeOK' /\ Reported'
    BY <1>2, <2>1, <2>2 DEF ServiceTypeOK, Reported
  <2>. QED BY <2>3, <2>4 DEF ClaimInv
<1>. QED BY <1>3, <1>4, <1>5, <1>6, <1>7, <1>8, <1>9 DEF Next

\* Whatever fails and however often the call is tried again: the certificates
\* are claimed for whole reports, more than once only after a fault, matches
\* are logged for claims that went through, and a caller that gets a report
\* finds all of it in the tables (claim.service.ts:57-66, 107-141).
THEOREM ClaimsAreWhole == Spec => []LogsFollowClaims
<1>1. MatcherInv /\ ClaimInv /\ [Next]_vars => ClaimInv'
  BY ClaimGoesOn, ServiceStep, MatcherGoesOn
<1>2. ClaimInv => LogsFollowClaims
  <2>. SUFFICES ASSUME ClaimInv PROVE LogsFollowClaims
    OBVIOUS
  <2>1. PICK k \in Nat : ClaimedTimes(k)
    BY DEF ClaimInv
  <2>2. k \in 0..tries /\ k <= 1 + faults
    BY <2>1 DEF ClaimInv, ClaimedTimes, ServiceTypeOK
  <2>. QED BY <2>1, <2>2 DEF ClaimInv, ClaimedTimes, Reported, LogsFollowClaims
<1>. QED BY <1>1, <1>2, ClaimStarts, MatcherInvariant, PTL DEF Spec

-----------------------------------------------------------------------------
(* Priorities in which no group names an id twice *)

\* The input stays what it was.
LEMMA InputStays == [Next]_vars => input' = input /\ (NobodyNamedTwice' <=> NobodyNamedTwice)
<1>1. [Next]_vars => input' = input
  BY ServiceStep DEF MatcherStep, MatchRound, Stop, matcherVars
<1>. QED BY <1>1 DEF NobodyNamedTwice

\* A pair has one route at most.
LEMMA OneRoute ==
  ASSUME NobodyNamedTwice, InputOK, NEW r \in Routes, NEW s \in Routes, r[1] = s[1]
  PROVE  r = s
<1>1. /\ r = <<r[1], r[2], r[3]>> /\ s = <<s[1], s[2], s[3]>>
      /\ r[2] \in DOMAIN ConsumerGroup /\ ConsumerGroup[r[2]].id = Ids[1][r[1][1]]
      /\ s[2] \in DOMAIN ConsumerGroup /\ ConsumerGroup[s[2]].id = Ids[1][r[1][1]]
      /\ r[3] \in DOMAIN Preferred(r[2]) /\ Preferred(r[2])[r[3]].id = Ids[2][r[1][2]]
      /\ s[3] \in DOMAIN Preferred(s[2]) /\ Preferred(s[2])[s[3]].id = Ids[2][r[1][2]]
  BY RouteIs
<1>2. PICK k \in DOMAIN input.priority : ConsumerGroup = input.priority[k]
  BY <1>1, GroupsOfRound DEF UsableGroups
<1>3. r[2] = s[2]
  BY <1>1, <1>2 DEF NobodyNamedTwice, NamesOnce
<1>. DEFINE groups == ConsumerGroup[r[2]].groupPriority
<1>4. AreGroups(groups) /\ NamesOnce(groups)
  BY <1>1, <1>2, GroupsOfRound DEF NobodyNamedTwice, InputOK
<1>5. Preferred(r[2]) = FirstUsableGroup(groups, 2)
  BY DEF Preferred, GeneratorGroup
<1>6. PICK l \in DOMAIN groups : Preferred(r[2]) = groups[l]
  <2>1. DOMAIN FirstUsableGroup(groups, 2) # {}
    BY <1>1, <1>5
  <2>. HIDE DEF groups
  <2>. QED BY <1>4, <1>5, <2>1, FirstUsableIs DEF UsableGroups
<1>7. r[3] = s[3]
  <2>. HIDE DEF groups
  <2>. QED BY <1>1, <1>3, <1>4, <1>6 DEF NamesOnce
<1>. QED BY <1>1, <1>3, <1>7

\* Routes and the pairs that they join are as many.
LEMMA PairsOfRoutes ==
  ASSUME NobodyNamedTwice, InputOK, NEW D \in SUBSET Routes
  PROVE  /\ IsFiniteSet({r[1] : r \in D}) /\ Cardinality({r[1] : r \in D}) = Cardinality(D)
         /\ {r[1] : r \in D} \subseteq Linked
         /\ \A x : Cardinality(Via(x, D)) = IF x \in {r[1] : r \in D} THEN 1 ELSE 0
<1>. DEFINE T == {r[1] : r \in D}
            f == [r \in D |-> r[1]]
<1>1. \A r, s \in D : r[1] = s[1] => r = s
  BY OneRoute
<1>2. IsFiniteSet(D)
  BY RoutesAreFinite, FS_Subset
<1>3. f \in Bijection(D, T)
  BY <1>1 DEF Bijection, Injection, Surjection, IsInjective
<1>4. IsFiniteSet(T) /\ Cardinality(T) = Cardinality(D)
  <2>. HIDE DEF f, T
  <2>. QED BY <1>2, <1>3, FS_Bijection DEF ExistsBijection
<1>5. T \subseteq Linked
  BY LinkedAre
<1>6. ASSUME NEW x PROVE Cardinality(Via(x, D)) = IF x \in T THEN 1 ELSE 0
  <2>1. CASE x \in T
    <3>1. PICK r \in D : r[1] = x
      BY <2>1
    <3>2. Via(x, D) = {r}
      BY <1>1, <3>1 DEF Via
    <3>. QED BY <2>1, <3>2, FS_Singleton
  <2>2. CASE x \notin T
    <3>1. Via(x, D) = {}
      BY <2>2 DEF Via
    <3>. QED BY <2>2, <3>1, FS_EmptySet
  <2>. QED BY <2>1, <2>2
<1>. QED BY <1>4, <1>5, <1>6

LEMMA LinkedCount ==
  ASSUME NobodyNamedTwice, InputOK
  PROVE  /\ \A e : Cardinality(RoutesOf(e, Routes)) = Cardinality(At(e) \cap Linked)
         /\ \A x \in Pairs : Cardinality(Via(x, Routes)) = IF x \in Linked THEN 1 ELSE 0
<1>1. ASSUME NEW e PROVE Cardinality(RoutesOf(e, Routes)) = Cardinality(At(e) \cap Linked)
  <2>1. RoutesOf(e, Routes) \in SUBSET Routes
    BY DEF RoutesOf
  <2>2. {r[1] : r \in RoutesOf(e, Routes)} = At(e) \cap Linked
    BY LinkedAre DEF RoutesOf, At
  <2>. QED BY <2>1, <2>2, PairsOfRoutes
<1>2. {r[1] : r \in Routes} = Linked
  BY LinkedAre
<1>. QED BY <1>1, <1>2, PairsOfRoutes

-----------------------------------------------------------------------------
(* What a round gives *)

\* Two entities have at most one pair in common, and none on one side.
LEMMA OnePairInCommon ==
  ASSUME NEW e \in AllEntities, NEW c \in AllEntities, e # c, NEW R \in SUBSET Pairs
  PROVE  /\ Cardinality(At(e) \cap At(c) \cap R) \in {0, 1}
         /\ e[1] = c[1] => Cardinality(At(e) \cap At(c) \cap R) = 0
<1>. DEFINE C == At(e) \cap At(c) \cap R
<1>1. /\ e = <<e[1], e[2]>> /\ c = <<c[1], c[2]>>
      /\ e[1] \in {1, 2} /\ c[1] \in {1, 2}
  BY EntitiesAre
<1>2. CASE e[1] = c[1]
  <2>1. e[2] # c[2]
    BY <1>1, <1>2
  <2>2. C = {}
    BY <1>2, <2>1 DEF At
  <2>. QED BY <2>2, FS_EmptySet
<1>3. CASE e[1] # c[1]
  <2>1. \A x, y \in C : x = y
    <3>1. \A x \in C : x = <<x[1], x[2]>> /\ x[e[1]] = e[2] /\ x[c[1]] = c[2]
      BY DEF At, Pairs
    <3>. HIDE DEF C
    <3>. QED BY <1>1, <1>3, <3>1
  <2>2. C = {} \/ \E x : C = {x}
    <3>. HIDE DEF C
    <3>. QED BY <2>1
  <2>. HIDE DEF C
  <2>3. Cardinality(C) \in {0, 1}
    BY <2>2, FS_EmptySet, FS_Singleton
  <2>. QED BY <1>3, <2>3 DEF C
<1>. QED BY <1>2, <1>3

\* A round is one of two: all routes get the smallest share, or that share is
\* A round is one of two: all routes get the smallest share, or that share is
\* nothing and the scarcest entity gives all its units.
LEMMA RoundGives ==
  ASSUME NobodyNamedTwice, InputOK, VolumesAre(volume), Routes # {}
  PROVE  LET c == Scarcest(Routes)
             s == Share(c, Routes)
             m == RoundMatches(Routes)
         IN  /\ m \in [Pairs -> Nat]
             /\ c \in AllEntities /\ s \in Nat
             /\ s # 0 => /\ \A e : Given(m, e) = s * Cardinality(RoutesOf(e, Routes))
                         /\ volume[c] - Given(m, c) < Cardinality(RoutesOf(c, Routes))
             /\ s = 0 => /\ Given(m, c) = volume[c]
                         /\ \A e \in AllEntities \ {c} :
                              /\ Given(m, e) \in {0, 1}
                              /\ e[1] = c[1] => Given(m, e) = 0
             /\ \A e \in AllEntities : Given(m, e) <= volume[e]
             /\ \A e \in AllEntities : RoutesOf(e, Routes) = {} => Given(m, e) = 0
<1>. DEFINE c == Scarcest(Routes)
            s == Share(c, Routes)
            m == RoundMatches(Routes)
            k(e) == Cardinality(RoutesOf(e, Routes))
<1>1. \A e \in AllEntities : volume[e] \in Nat
  BY DEF VolumesAre
<1>2. /\ c \in AllEntities /\ RoutesOf(c, Routes) # {}
      /\ \A e \in AllEntities : RoutesOf(e, Routes) # {} => s <= Share(e, Routes)
  <2>1. volume \in [AllEntities -> Int]
    BY DEF VolumesAre
  <2>. QED BY <2>1, ScarcestIs
<1>3. \A e \in AllEntities : RoutesOf(e, Routes) # {} =>
        /\ Share(e, Routes) \in Nat /\ k(e) \in Nat \ {0}
        /\ Share(e, Routes) * k(e) <= volume[e]
        /\ Share(e, Routes) = 0 <=> volume[e] < k(e)
        /\ volume[e] - Share(e, Routes) * k(e) \in 0..k(e) - 1
  BY <1>1, ShareNat, RoutesOfAre
<1>4. s \in Nat
  BY <1>2, <1>3
<1>5. m = IF s # 0 THEN [x \in Pairs |-> s * Cardinality(Via(x, Routes))]
          ELSE [x \in Pairs |-> Cardinality(Via(x, Served(c, Routes)))]
  BY DEF RoundMatches
<1>6. \A e : k(e) = Cardinality(At(e) \cap Linked) /\ k(e) \in Nat
  BY LinkedCount, RoutesOfAre
<1>7. \A e : RoutesOf(e, Routes) = {} => k(e) = 0 /\ At(e) \cap Linked = {}
  BY RoutesOfAre, FS_EmptySet
<1>8. \A e \in AllEntities : RoutesOf(e, Routes) # {} => volume[e] # 0
  BY RoutedIsUsable
<1>9. CASE s # 0
  <2>1. m \in [Pairs -> Nat] /\ \A x \in Pairs : m[x] = IF x \in Linked THEN s ELSE 0
    <3>. DEFINE g(x) == Cardinality(Via(x, Routes))
    <3>1. m = [x \in Pairs |-> s * g(x)]
      BY <1>5, <1>9
    <3>2. \A x \in Pairs : g(x) = IF x \in Linked THEN 1 ELSE 0
      BY LinkedCount
    <3>. HIDE DEF g, m, s, c
    <3>3. s * 1 = s /\ s * 0 = 0 /\ s \in Nat
      BY <1>4
    <3>. QED BY <3>1, <3>2, <3>3
  <2>2. ASSUME NEW e PROVE Given(m, e) = s * k(e)
    <3>1. Given(m, e) = s * Cardinality(At(e) \cap Linked)
      <4>. HIDE DEF s, m
      <4>. QED BY <1>4, <2>1, GivenConstant
    <3>. HIDE DEF s, m
    <3>. QED BY <1>6, <3>1
  <2>3. ASSUME NEW e \in AllEntities
        PROVE  /\ Given(m, e) <= volume[e]
               /\ RoutesOf(e, Routes) = {} => Given(m, e) = 0
    <3>1. CASE RoutesOf(e, Routes) = {}
      <4>1. Given(m, e) = s * 0 /\ s * 0 = 0
        <5>. HIDE DEF s, m
        <5>. QED BY <1>4, <1>7, <2>2, <3>1
      <4>. QED BY <1>1, <4>1
    <3>2. CASE RoutesOf(e, Routes) # {}
      <4>. DEFINE t == Share(e, Routes)
      <4>1. s <= t /\ t \in Nat /\ t * k(e) <= volume[e] /\ k(e) \in Nat
        BY <1>2, <1>3, <3>2
      <4>. HIDE DEF s, t, k, m
      <4>2. s * k(e) <= t * k(e) /\ s * k(e) \in Nat /\ t * k(e) \in Nat
        BY <1>4, <4>1
      <4>3. Given(m, e) <= volume[e]
        BY <1>1, <2>2, <4>1, <4>2
      <4>. QED BY <3>2, <4>3
    <3>. QED BY <3>1, <3>2
  <2>4. volume[c] - Given(m, c) < k(c)
    <3>1. volume[c] - s * k(c) \in 0..k(c) - 1 /\ k(c) \in Nat
      BY <1>2, <1>3
    <3>2. Given(m, c) = s * k(c)
      BY <2>2
    <3>. HIDE DEF s, k, m, c
    <3>. QED BY <3>1, <3>2
  <2>. HIDE DEF m, s, c
  <2>. QED BY <1>2, <1>4, <1>9, <2>1, <2>2, <2>3, <2>4 DEF m, s, c
<1>10. CASE s = 0
  <2>. DEFINE D == Served(c, Routes)
              T == {r[1] : r \in D}
  <2>1. volume[c] < k(c)
    <3>1. s = 0 <=> volume[c] < k(c)
      BY <1>2, <1>3
    <3>. QED BY <1>10, <3>1
  <2>2. IsFiniteSet(D) /\ Cardinality(D) = volume[c]
    <3>. HIDE DEF c
    <3>. QED BY <1>1, <1>2, <2>1, ServedAre
  <2>3. D \in SUBSET Routes /\ \A r \in D : r[1][c[1]] = c[2]
    BY DEF Served, RoutesOf
  <2>4. /\ IsFiniteSet(T) /\ Cardinality(T) = volume[c] /\ T \subseteq Linked
        /\ \A x : Cardinality(Via(x, D)) = IF x \in T THEN 1 ELSE 0
    <3>. HIDE DEF D
    <3>. QED BY <2>2, <2>3, PairsOfRoutes
  <2>5. T \subseteq At(c) /\ T \in SUBSET Pairs
    <3>. HIDE DEF D, c
    <3>. QED BY <2>3, <2>4, LinkedAre DEF At
  <2>6. m \in [Pairs -> Nat] /\ \A x \in Pairs : m[x] = IF x \in T THEN 1 ELSE 0
    <3>1. m = [x \in Pairs |-> Cardinality(Via(x, D))]
      BY <1>5, <1>10
    <3>. HIDE DEF D, T, m
    <3>. QED BY <2>4, <3>1
  <2>7. ASSUME NEW e PROVE Given(m, e) = Cardinality(At(e) \cap T)
    <3>. DEFINE n == Cardinality(At(e) \cap T)
    <3>1. Given(m, e) = 1 * n
      <4>. HIDE DEF T, m
      <4>. QED BY <2>6, GivenConstant
    <3>2. n \in Nat
      <4>1. IsFiniteSet(At(e) \cap T)
        <5>. HIDE DEF T
        <5>. QED BY <2>4, FS_Intersection
      <4>. QED BY <4>1, FS_CardinalityType
    <3>3. 1 * n = n
      <4>. HIDE DEF n
      <4>. QED BY <3>2
    <3>. QED BY <3>1, <3>3
  <2>8. Given(m, c) = volume[c]
    <3>1. At(c) \cap T = T
      <4>. HIDE DEF T, c
      <4>. QED BY <2>5
    <3>. QED BY <2>4, <2>7, <3>1
  <2>9. ASSUME NEW e \in AllEntities \ {c}
        PROVE  Given(m, e) \in {0, 1} /\ (e[1] = c[1] => Given(m, e) = 0)
    <3>1. At(e) \cap T = At(e) \cap At(c) \cap T
      <4>. HIDE DEF T, c
      <4>. QED BY <2>5
    <3>. HIDE DEF T, c, m
    <3>2. /\ Cardinality(At(e) \cap At(c) \cap T) \in {0, 1}
          /\ e[1] = c[1] => Cardinality(At(e) \cap At(c) \cap T) = 0
      BY <1>2, <2>5, OnePairInCommon
    <3>. QED BY <2>7, <3>1, <3>2
  <2>10. ASSUME NEW e \in AllEntities, RoutesOf(e, Routes) = {} PROVE Given(m, e) = 0
    <3>1. At(e) \cap T = {}
      <4>. HIDE DEF T
      <4>. QED BY <1>7, <2>4, <2>10
    <3>. QED BY <2>7, <3>1, FS_EmptySet
  <2>11. ASSUME NEW e \in AllEntities PROVE Given(m, e) <= volume[e]
    <3>. HIDE DEF T, c, m
    <3>1. CASE RoutesOf(e, Routes) = {}
      BY <1>1, <2>10, <3>1
    <3>2. CASE e = c
      BY <1>1, <2>8, <3>2
    <3>3. CASE e # c /\ RoutesOf(e, Routes) # {}
      BY <1>1, <1>8, <2>9, <3>3
    <3>. QED BY <3>1, <3>2, <3>3
  <2>. HIDE DEF m, s, c, T
  <2>. QED BY <1>2, <1>4, <1>10, <2>6, <2>8, <2>9, <2>10, <2>11 DEF m, s, c
<1>. QED BY <1>9, <1>10

-----------------------------------------------------------------------------
(* Volumes *)

\* No volume and no match is negative.
SoundInv == VolumesAre(volume) /\ matched \in [Pairs -> Nat]

LEMMA SoundGoesOn ==
  ASSUME NobodyNamedTwice, MatcherInv, SoundInv, [Next]_vars
  PROVE  SoundInv'
<1>1. CASE MatchRound
  <2>. DEFINE m == RoundMatches(Routes)
  <2>1. /\ Routes # {} /\ matched' = [x \in Pairs |-> matched[x] + m[x]]
        /\ volume' \in [AllEntities -> Int]
        /\ \A e \in AllEntities : volume'[e] = volume[e] - Given(m, e) /\ Given(m, e) \in Int
    BY <1>1, RoundLeaves
  <2>2. m \in [Pairs -> Nat] /\ \A e \in AllEntities : Given(m, e) <= volume[e]
    BY <2>1, RoundGives DEF MatcherInv, SoundInv
  <2>. HIDE DEF m
  <2>3. \A e \in AllEntities : volume'[e] \in Nat
    BY <2>1, <2>2 DEF SoundInv, VolumesAre
  <2>4. matched' \in [Pairs -> Nat]
    BY <2>1, <2>2 DEF SoundInv
  <2>. QED BY <2>1, <2>3, <2>4 DEF SoundInv, VolumesAre
<1>2. CASE UNCHANGED <<volume, matched>>
  BY <1>2 DEF SoundInv, VolumesAre
<1>. QED BY <1>1, <1>2, ServiceStep DEF MatcherStep, Stop, matcherVars

LEMMA SoundInvariant == Spec => [](NobodyNamedTwice => SoundInv)
<1>1. Init => (NobodyNamedTwice => SoundInv)
  BY MatcherStarts DEF Init, SoundInv
<1>2. MatcherInv /\ (NobodyNamedTwice => SoundInv) /\ [Next]_vars
        => (NobodyNamedTwice' => SoundInv')
  BY SoundGoesOn, InputStays
<1>. QED BY <1>1, <1>2, MatcherInvariant, PTL DEF Spec

\* In every round the volume of an entity is what is left of it and what it
\* was matched with, and if no group names an id twice it never gives more
\* than it has: for any entities, volumes and priorities
\* (spreadMatcher.ts:131-137, 233-258).
THEOREM MatchingConservesVolume == Spec => []VolumesConserved
<1>1. MatcherInv /\ (NobodyNamedTwice => SoundInv) => VolumesConserved
  BY DEF MatcherInv, SoundInv, VolumesConserved, VolumesAre, AllEntities
<1>. QED BY <1>1, MatcherInvariant, SoundInvariant, PTL

-----------------------------------------------------------------------------
(* Rounds *)

Empty == {e \in AllEntities : volume[e] = 0}

\* Somebody has less than its routes: the next round uses an entity up.
Unserved == \E e \in AllEntities : RoutesOf(e, Routes) # {} /\ Share(e, Routes) = 0

\* The inductive invariant: a round that uses nobody up is followed by one
\* that does.
RoundsInv ==
  /\ rounds \in Nat
  /\ rounds - 1 <= 2 * Cardinality(Empty) + IF Unserved THEN 1 ELSE 0
  /\ outcome = "threw" => MaxRounds < rounds

\* Routes depend on who is used up, and on nothing else that changes.
LEMMA RoutesStay ==
  ASSUME input' = input, \A e \in AllEntities : volume'[e] = 0 <=> volume[e] = 0
  PROVE  Routes' = Routes
<1>1. ASSUME NEW side \in {1, 2}, NEW id PROVE UsableOf(side, id)' = UsableOf(side, id)
  <2>1. ASSUME NEW n \in 1..Len(Ids[side]) PROVE volume'[<<side, n>>] = 0 <=> volume[<<side, n>>] = 0
    <3>1. <<side, n>> \in AllEntities
      BY EntitiesAre DEF Consumptions, Generations
    <3>. QED BY <3>1
  <2>. QED BY <2>1 DEF UsableOf
<1>2. ASSUME NEW side \in {1, 2}, NEW groups
      PROVE  FirstUsableGroup(groups, side)' = FirstUsableGroup(groups, side)
  <2>1. UsableGroups(groups, side)' = UsableGroups(groups, side)
    BY <1>1 DEF UsableGroups
  <2>. QED BY <2>1 DEF FirstUsableGroup
<1>3. ConsumerGroup' = ConsumerGroup
  <2>1. \A groups : FirstUsableGroup(groups, 1)' = FirstUsableGroup(groups, 1)
    BY <1>2
  <2>. QED BY <2>1 DEF ConsumerGroup
<1>4. \A entry : GeneratorGroup(entry)' = GeneratorGroup(entry)
  BY <1>2 DEF GeneratorGroup
<1>5. \A n : GeneratorGroup(ConsumerGroup[n])' = GeneratorGroup(ConsumerGroup[n])
  BY <1>3, <1>4
<1>6. \A n : UsableOf(1, ConsumerGroup[n].id)' = UsableOf(1, ConsumerGroup[n].id)
  BY <1>1, <1>3
<1>7. \A n, m : UsableOf(2, GeneratorGroup(ConsumerGroup[n])[m].id)'
                = UsableOf(2, GeneratorGroup(ConsumerGroup[n])[m].id)
  <2>1. \A n, m : GeneratorGroup(ConsumerGroup[n])[m].id' = GeneratorGroup(ConsumerGroup[n])[m].id
    BY <1>5
  <2>. QED BY <1>1, <2>1
<1>8. \A n, m : RoutesBy(n, m)' = RoutesBy(n, m)
  BY <1>6, <1>7 DEF RoutesBy
<1>. QED BY <1>3, <1>5, <1>8 DEF Routes

\* The empty entities are some of them, and whoever has a route is not one.
LEMMA EmptyAre ==
  /\ IsFiniteSet(Empty) /\ Cardinality(Empty) \in Nat
  /\ Cardinality(Empty) <= Len(Entities)
  /\ \A e \in AllEntities : RoutesOf(e, Routes) # {} => volume[e] # 0
  /\ Unserved => Cardinality(Empty) < Len(Entities)
<1>1. IsFiniteSet(AllEntities) /\ Cardinality(AllEntities) = Len(Entities) /\ Empty \subseteq AllEntities
  BY AllIsFinite DEF Empty
<1>2. /\ IsFiniteSet(Empty) /\ Cardinality(Empty) <= Len(Entities)
      /\ Cardinality(Empty) = Len(Entities) => Empty = AllEntities
  BY <1>1, FS_Subset
<1>3. Cardinality(Empty) \in Nat /\ Len(Entities) \in Nat
  BY <1>1, <1>2, FS_CardinalityType
<1>4. \A e \in AllEntities : RoutesOf(e, Routes) # {} => volume[e] # 0
  BY RoutedIsUsable
<1>5. Unserved => Empty # AllEntities
  BY <1>4 DEF Unserved, Empty
<1>. QED BY <1>2, <1>3, <1>4, <1>5

\* A round uses an entity up, or leaves one that has less than its routes.
LEMMA RoundProgresses ==
  ASSUME NobodyNamedTwice, MatcherInv, SoundInv, MatchRound
  PROVE  /\ IsFiniteSet(Empty') /\ Cardinality(Empty') \in Nat
         /\ \/ Cardinality(Empty) + 1 <= Cardinality(Empty')
            \/ ~Unserved /\ Unserved' /\ Cardinality(Empty) = Cardinality(Empty')
<1>. DEFINE c == Scarcest(Routes)
            s == Share(c, Routes)
            m == RoundMatches(Routes)
<1>1. /\ Routes # {} /\ input' = input
      /\ \A e \in AllEntities : volume'[e] = volume[e] - Given(m, e)
      /\ \A e \in AllEntities : volume[e] = 0 => volume'[e] = 0
  BY RoundLeaves
<1>2. InputOK /\ VolumesAre(volume) /\ volume \in [AllEntities -> Int]
  BY DEF MatcherInv, SoundInv
<1>3. /\ c \in AllEntities /\ s \in Nat
      /\ s # 0 => volume[c] - Given(m, c) < Cardinality(RoutesOf(c, Routes))
      /\ s = 0 => Given(m, c) = volume[c]
  BY <1>1, <1>2, RoundGives
<1>4. /\ RoutesOf(c, Routes) # {}
      /\ \A e \in AllEntities : RoutesOf(e, Routes) # {} => s <= Share(e, Routes)
  BY <1>1, <1>2, ScarcestIs
<1>5. Empty' = {e \in AllEntities : volume'[e] = 0}
  BY DEF Empty
<1>6. IsFiniteSet(Empty') /\ Cardinality(Empty') \in Nat
  <2>1. IsFiniteSet(AllEntities) /\ Empty' \subseteq AllEntities
    BY <1>5, AllIsFinite
  <2>. QED BY <2>1, FS_Subset, FS_CardinalityType
<1>7. Empty \subseteq Empty'
  <2>1. ASSUME NEW e \in AllEntities, volume[e] = 0 PROVE volume'[e] = 0
    BY <1>1, <2>1
  <2>. QED BY <1>5, <2>1 DEF Empty
<1>8. IsFiniteSet(Empty) /\ Cardinality(Empty) \in Nat
  BY <1>2, EmptyAre
<1>9. ASSUME NEW e \in Empty', e \notin Empty PROVE Cardinality(Empty) + 1 <= Cardinality(Empty')
  <2>1. Empty \cup {e} \in SUBSET Empty'
    BY <1>7, <1>9
  <2>2. Cardinality(Empty \cup {e}) = Cardinality(Empty) + 1
    BY <1>8, <1>9, FS_AddElement
  <2>3. Cardinality(Empty \cup {e}) <= Cardinality(Empty')
    BY <1>6, <2>1, FS_Subset
  <2>. QED BY <2>2, <2>3
<1>10. CASE s = 0
  <2>1. volume'[c] = 0 /\ volume[c] # 0
    <3>1. volume[c] # 0
      BY <1>2, <1>3, <1>4, EmptyAre
    <3>2. volume[c] \in Nat /\ volume'[c] = volume[c] - Given(m, c) /\ Given(m, c) = volume[c]
      BY <1>1, <1>2, <1>3, <1>10 DEF VolumesAre
    <3>. HIDE DEF m, c
    <3>. QED BY <3>1, <3>2
  <2>2. c \in Empty' /\ c \notin Empty
    BY <1>3, <1>5, <2>1 DEF Empty
  <2>. QED BY <1>6, <1>9, <2>2
<1>11. CASE s # 0 /\ Empty' # Empty
  BY <1>6, <1>7, <1>9, <1>11
<1>12. CASE s # 0 /\ Empty' = Empty
  <2>1. ~Unserved
    <3>1. \A e \in AllEntities : RoutesOf(e, Routes) # {} => Share(e, Routes) \in Nat
      BY <1>2, ShareNat DEF VolumesAre
    <3>. HIDE DEF s, c, m
    <3>. QED BY <1>3, <1>4, <1>12, <3>1 DEF Unserved
  <2>2. \A e \in AllEntities : volume'[e] = 0 <=> volume[e] = 0
    BY <1>5, <1>12 DEF Empty
  <2>3. Routes' = Routes
    BY <1>1, <2>2, RoutesStay
  <2>. DEFINE k == Cardinality(RoutesOf(c, Routes))
              v == volume'[c]
  <2>4. v \in Nat /\ k \in Nat \ {0} /\ v < k
    <3>1. v \in Nat /\ v = volume[c] - Given(m, c)
      <4>1. volume[c] \in Nat /\ Given(m, c) \in Nat /\ Given(m, c) <= volume[c]
        BY <1>1, <1>2, <1>3, RoundGives, GivenNat DEF VolumesAre
      <4>2. v = volume[c] - Given(m, c)
        BY <1>1, <1>3
      <4>. HIDE DEF v, c, m
      <4>. QED BY <4>1, <4>2
    <3>2. k \in Nat \ {0}
      BY <1>2, <1>4, RoutesOfAre
    <3>3. volume[c] - Given(m, c) < k
      BY <1>3, <1>12
    <3>. HIDE DEF v, k, c, m
    <3>. QED BY <3>1, <3>2, <3>3
  <2>5. (IF v >= 0 THEN v \div k ELSE -((-v) \div k)) = 0
    <3>. HIDE DEF v, k
    <3>. QED BY <2>4
  <2>6. \E e \in AllEntities :
          /\ RoutesOf(e, Routes) # {}
          /\ (IF volume'[e] >= 0 THEN volume'[e] \div Cardinality(RoutesOf(e, Routes))
             ELSE -((-volume'[e]) \div Cardinality(RoutesOf(e, Routes)))) = 0
    BY <1>3, <1>4, <2>5
  <2>7. Unserved'
    <3>. HIDE DEF c, s, m, v, k
    <3>. QED BY <2>3, <2>6 DEF Unserved, Share
  <2>8. Cardinality(Empty) = Cardinality(Empty')
    BY <1>12
  <2>. QED BY <1>6, <2>1, <2>7, <2>8
<1>. QED BY <1>10, <1>11, <1>12

\* Unless a group names an id twice, the matcher ends after at most two rounds
\* for each entity, and does not throw if the limit allows for them: for any
\* entities, volumes and limit (spreadMatcher.ts:106-127, 233-253).
THEOREM MatchingEnds == Spec => []RoundsBounded
<1>1. Init => RoundsInv
  <2>. SUFFICES ASSUME Init PROVE RoundsInv
    OBVIOUS
  <2>1. rounds = 1 /\ outcome = "running" /\ MatcherInv
    BY MatcherStarts DEF Init, MatcherInit
  <2>2. Cardinality(Empty) \in Nat
    BY EmptyAre
  <2>. QED BY <2>1, <2>2 DEF RoundsInv
<1>2. MatcherInv /\ (NobodyNamedTwice => SoundInv /\ RoundsInv) /\ [Next]_vars
        => (NobodyNamedTwice' => RoundsInv')
  <2>. SUFFICES ASSUME NobodyNamedTwice, MatcherInv, SoundInv, RoundsInv, [Next]_vars
                PROVE  RoundsInv'
    BY InputStays
  <2>1. Cardinality(Empty) \in Nat
    BY EmptyAre
  <2>2. CASE MatchRound
    <3>1. rounds' = rounds + 1 /\ outcome' = "running"
      BY <2>2 DEF MatchRound
    <3>2. /\ Cardinality(Empty') \in Nat
          /\ \/ Cardinality(Empty) + 1 <= Cardinality(Empty')
             \/ ~Unserved /\ Unserved' /\ Cardinality(Empty) = Cardinality(Empty')
      BY <2>2, RoundProgresses
    <3>. QED BY <2>1, <3>1, <3>2 DEF RoundsInv
  <2>3. CASE Stop
    <3>1. /\ Empty' = Empty /\ Unserved' = Unserved /\ rounds' = rounds
          /\ outcome' = "threw" => rounds > MaxRounds
      <4>1. input' = input /\ volume' = volume /\ rounds' = rounds
        BY <2>3 DEF Stop
      <4>2. Empty' = Empty
        BY <4>1 DEF Empty
      <4>3. Routes' = Routes
        BY <4>1, RoutesStay
      <4>4. Unserved' = Unserved
        BY <4>1, <4>3 DEF Unserved, Share
      <4>. QED BY <2>3, <4>1, <4>2, <4>4 DEF Stop
    <3>2. MaxRounds \in Nat
      BY MatcherAssumption DEF MatcherAssumption
    <3>. QED BY <2>1, <3>1, <3>2 DEF RoundsInv
  <2>4. CASE UNCHANGED matcherVars
    <3>1. Empty' = Empty /\ Unserved' = Unserved /\ rounds' = rounds /\ outcome' = outcome
      <4>1. input' = input /\ volume' = volume /\ rounds' = rounds /\ outcome' = outcome
        BY <2>4 DEF matcherVars
      <4>2. Empty' = Empty
        BY <4>1 DEF Empty
      <4>3. Routes' = Routes
        BY <4>1, RoutesStay
      <4>4. Unserved' = Unserved
        BY <4>1, <4>3 DEF Unserved, Share
      <4>. QED BY <4>1, <4>2, <4>4
    <3>. QED BY <3>1 DEF RoundsInv
  <2>. QED BY <2>2, <2>3, <2>4, ServiceStep DEF MatcherStep
<1>3. MatcherInv /\ (NobodyNamedTwice => RoundsInv) => RoundsBounded
  <2>. SUFFICES ASSUME MatcherInv, RoundsInv PROVE RoundsBounded
    BY DEF RoundsBounded
  <2>1. /\ Cardinality(Empty) \in Nat /\ Cardinality(Empty) <= Len(Entities)
        /\ Unserved => Cardinality(Empty) < Len(Entities)
    BY EmptyAre
  <2>2. Len(Entities) \in Nat /\ MaxRounds \in Nat
    <3>1. \A a, b \in Nat : a + b \in Nat
      OBVIOUS
    <3>2. Len(Entities) \in Nat
      BY <3>1, EntitiesAre, Zenon
    <3>. QED BY <3>2, MatcherAssumption DEF MatcherAssumption
  <2>. QED BY <2>1, <2>2 DEF RoundsInv, RoundsBounded
<1>. QED BY <1>1, <1>2, <1>3, MatcherInvariant, SoundInvariant, PTL DEF Spec

-----------------------------------------------------------------------------
(* Consumptions of one rank *)

\* No id is in two groups: then the place of a consumption in the priorities
\* is one, and so is what it prefers.
IdsOnce(groups) ==
  \A k, l \in DOMAIN groups :
    \A m \in DOMAIN groups[k] : \A n \in DOMAIN groups[l] :
      groups[k][m].id = groups[l][n].id => k = l

\* Consumptions of one rank that are not used up have the same routes.
LEMMA EqualsShareRoutes ==
  ASSUME NobodyNamedTwice, InputOK, IdsOnce(input.priority),
         NEW i \in Consumptions, NEW j \in Consumptions, Equals(i, j),
         volume[<<1, i>>] # 0, NEW g, <<j, g>> \in Linked
  PROVE  <<i, g>> \in Linked
<1>1. PICK r \in Routes : r[1] = <<j, g>>
  BY LinkedAre
<1>. DEFINE n == r[2]
            m == r[3]
<1>2. /\ g \in Generations /\ volume[<<2, g>>] # 0
      /\ n \in DOMAIN ConsumerGroup /\ ConsumerGroup[n].id = Ids[1][j]
      /\ m \in DOMAIN Preferred(n) /\ Preferred(n)[m].id = Ids[2][g]
  <2>1. r[1][1] = j /\ r[1][2] = g
    BY <1>1
  <2>2. <<j, g>> \in Pairs
    BY LinkedAre
  <2>3. g \in Generations
    BY <2>2 DEF Pairs
  <2>. QED BY <2>1, <2>3, RouteIs
<1>. HIDE DEF n, m
<1>3. PICK k \in DOMAIN input.priority : ConsumerGroup = input.priority[k]
  BY <1>2, GroupsOfRound DEF UsableGroups
<1>4. PICK l \in DOMAIN input.priority :
        \E a, b \in ToSet(input.priority[l]) :
          a.id = Ids[1][i] /\ b.id = Ids[1][j] /\ a.groupPriority = b.groupPriority
  BY DEF Equals
<1>5. PICK a \in DOMAIN input.priority[l], b \in DOMAIN input.priority[l] :
        /\ input.priority[l][a].id = Ids[1][i] /\ input.priority[l][b].id = Ids[1][j]
        /\ input.priority[l][a].groupPriority = input.priority[l][b].groupPriority
  BY <1>4 DEF ToSet
<1>6. k = l
  BY <1>2, <1>3, <1>5 DEF IdsOnce
<1>7. n = b
  <2>1. NamesOnce(input.priority)
    BY DEF NobodyNamedTwice
  <2>. QED BY <1>2, <1>3, <1>5, <1>6, <2>1 DEF NamesOnce
<1>8. Preferred(a) = Preferred(n)
  BY <1>3, <1>5, <1>6, <1>7 DEF Preferred, GeneratorGroup
<1>. DEFINE x == <<i, g>>
<1>9. x \in Pairs /\ x[1] = i /\ x[2] = g
  BY <1>2 DEF Pairs
<1>10. a \in DOMAIN ConsumerGroup /\ ConsumerGroup[a].id = Ids[1][i]
  BY <1>3, <1>5, <1>6
<1>. HIDE DEF x
<1>11. <<x, a, m>> \in Routes
  BY <1>2, <1>8, <1>9, <1>10, RouteExists
<1>12. <<x, a, m>>[1] = x
  OBVIOUS
<1>13. x \in Linked
  BY <1>11, <1>12, LinkedAre
<1>. QED BY <1>13 DEF x

\* The generations that a consumption has routes to, and those used up.
Sources(i) == {g \in Generations : <<i, g>> \in Linked}
Exhausted  == {g \in Generations : volume[<<2, g>>] = 0}

LEMMA SourcesAre ==
  ASSUME NobodyNamedTwice, InputOK, NEW i \in Consumptions
  PROVE  /\ IsFiniteSet(Sources(i)) /\ Cardinality(Sources(i)) \in Nat
         /\ Cardinality(RoutesOf(<<1, i>>, Routes)) = Cardinality(Sources(i))
         /\ IsFiniteSet(Exhausted) /\ Cardinality(Exhausted) \in Nat
         /\ Cardinality(Exhausted) <= Len(Ids[2])
         /\ Cardinality(Sources(i)) + Cardinality(Exhausted) <= Len(Ids[2])
<1>1. /\ IsFiniteSet(Generations) /\ Cardinality(Generations) = Len(Ids[2])
      /\ Sources(i) \subseteq Generations /\ Exhausted \subseteq Generations
  BY AllIsFinite DEF Sources, Exhausted
<1>2. /\ IsFiniteSet(Sources(i)) /\ Cardinality(Sources(i)) \in Nat
      /\ IsFiniteSet(Exhausted) /\ Cardinality(Exhausted) \in Nat
      /\ Cardinality(Exhausted) <= Len(Ids[2])
  BY <1>1, FS_Subset, FS_CardinalityType
<1>3. Cardinality(RoutesOf(<<1, i>>, Routes)) = Cardinality({i} \X Sources(i))
  <2>1. ASSUME NEW x \in At(<<1, i>>) \cap Linked PROVE x \in {i} \X Sources(i)
    <3>1. x \in Linked /\ x[1] = i /\ x \in Consumptions \X Generations
      BY DEF At, Pairs
    <3>2. x = <<i, x[2]>> /\ x[2] \in Generations
      BY <3>1
    <3>3. x[2] \in Sources(i)
      BY <3>1, <3>2 DEF Sources
    <3>. QED BY <3>2, <3>3
  <2>2. ASSUME NEW g \in Sources(i) PROVE <<i, g>> \in At(<<1, i>>) \cap Linked
    BY LinkedAre DEF Sources, At
  <2>3. At(<<1, i>>) \cap Linked = {i} \X Sources(i)
    BY <2>1, <2>2
  <2>. QED BY <2>3, LinkedCount
<1>4. Cardinality({i} \X Sources(i)) = Cardinality(Sources(i))
  <2>1. IsFiniteSet({i}) /\ Cardinality({i}) = 1
    BY FS_Singleton
  <2>2. Cardinality({i} \X Sources(i)) = 1 * Cardinality(Sources(i))
    BY <1>2, <2>1, FS_Product
  <2>. QED BY <1>2, <2>2
<1>5. Cardinality(Sources(i)) + Cardinality(Exhausted) <= Len(Ids[2])
  <2>1. Sources(i) \cap Exhausted = {}
    BY LinkedAre DEF Sources, Exhausted
  <2>2. Cardinality(Sources(i) \cup Exhausted) = Cardinality(Sources(i)) + Cardinality(Exhausted)
    <3>1. Cardinality(Sources(i) \cup Exhausted)
            = Cardinality(Sources(i)) + Cardinality(Exhausted) - Cardinality(Sources(i) \cap Exhausted)
      BY <1>2, FS_Union
    <3>2. Cardinality(Sources(i) \cap Exhausted) = 0
      BY <2>1, FS_EmptySet
    <3>3. \A a, b \in Nat : a + b - 0 = a + b
      OBVIOUS
    <3>. QED BY <1>2, <3>1, <3>2, <3>3
  <2>3. Cardinality(Sources(i) \cup Exhausted) <= Len(Ids[2])
    BY <1>1, FS_Subset
  <2>. QED BY <2>2, <2>3
<1>. QED BY <1>2, <1>3, <1>4, <1>5

\* The inductive invariant.  What puts a consumption ahead of another one of
\* its rank are the last units of a generation, of each one once; and once
\* its own last units, of which it has fewer than there are generations left.
SpreadInv ==
  \A i, j \in Consumptions :
    Equals(i, j) /\ volume[<<1, i>>] > 0 =>
      /\ Given(matched, <<1, j>>) - Given(matched, <<1, i>>) <= Len(Ids[2])
      /\ volume[<<1, j>>] > 0 =>
           Given(matched, <<1, j>>) - Given(matched, <<1, i>>) <= Cardinality(Exhausted)

LEMMA RoundSpreads ==
  ASSUME NobodyNamedTwice, MatcherInv, SoundInv, SoundInv', MatchRound, SpreadInv,
         IdsOnce(input.priority)
  PROVE  SpreadInv'
<1>. DEFINE c == Scarcest(Routes)
            s == Share(c, Routes)
            m == RoundMatches(Routes)
<1>1. /\ Routes # {} /\ input' = input /\ VolumesAre(volume')
      /\ \A e \in AllEntities : /\ volume'[e] = volume[e] - Given(m, e)
                                /\ volume[e] = 0 => volume'[e] = 0
                                /\ Given(m, e) \in Nat
      /\ \A e : Given(matched', e) = Given(matched, e) + Given(m, e)
  <2>1. m \in [Pairs -> Nat]
    <3>1. Routes # {}
      BY RoundLeaves
    <3>. QED BY <3>1, RoundGives DEF MatcherInv, SoundInv
  <2>2. \A e \in AllEntities : Given(m, e) \in Nat
    <3>. HIDE DEF m
    <3>. QED BY <2>1, GivenNat
  <2>3. VolumesAre(volume')
    BY DEF SoundInv, VolumesAre
  <2>. QED BY <2>2, <2>3, RoundLeaves
<1>2. /\ InputOK /\ VolumesAre(volume) /\ matched \in [Pairs -> Nat]
      /\ volume \in [AllEntities -> Int]
  BY DEF MatcherInv, SoundInv
<1>3. /\ c \in AllEntities /\ s \in Nat
      /\ s # 0 => \A e : Given(m, e) = s * Cardinality(RoutesOf(e, Routes))
      /\ s = 0 => /\ Given(m, c) = volume[c]
                  /\ \A e \in AllEntities \ {c} : /\ Given(m, e) \in {0, 1}
                                                  /\ e[1] = c[1] => Given(m, e) = 0
      /\ \A e \in AllEntities : RoutesOf(e, Routes) = {} => Given(m, e) = 0
  BY <1>1, <1>2, RoundGives
<1>4. RoutesOf(c, Routes) # {} /\ volume[c] # 0
  BY <1>1, <1>2, <1>3, ScarcestIs, EmptyAre
<1>5. s = 0 => volume[c] < Cardinality(RoutesOf(c, Routes))
  BY <1>2, <1>3, <1>4, ShareNat DEF VolumesAre
<1>. HIDE DEF c, s, m
<1>6. /\ Cardinality(Exhausted) \in Nat /\ Cardinality(Exhausted') \in Nat /\ Len(Ids[2]) \in Nat
      /\ Cardinality(Exhausted) <= Cardinality(Exhausted')
      /\ Cardinality(Exhausted') <= Len(Ids[2])
      /\ \A g \in Generations : volume[<<2, g>>] # 0 /\ volume'[<<2, g>>] = 0 =>
           Cardinality(Exhausted) + 1 <= Cardinality(Exhausted')
  <2>1. Exhausted' = {g \in Generations : volume'[<<2, g>>] = 0}
    BY DEF Exhausted
  <2>2. \A g \in Generations : <<2, g>> \in AllEntities
    BY EntitiesAre
  <2>3. \A g \in Generations : volume[<<2, g>>] = 0 => volume'[<<2, g>>] = 0
    BY <1>1, <2>2
  <2>4. Exhausted \subseteq Exhausted' /\ Exhausted' \subseteq Generations
    BY <2>1, <2>3 DEF Exhausted
  <2>5. IsFiniteSet(Generations) /\ Cardinality(Generations) = Len(Ids[2])
    BY AllIsFinite
  <2>6. IsFiniteSet(Exhausted') /\ Cardinality(Exhausted') <= Len(Ids[2])
    BY <2>4, <2>5, FS_Subset
  <2>7. IsFiniteSet(Exhausted) /\ Cardinality(Exhausted) <= Cardinality(Exhausted')
    BY <2>4, <2>6, FS_Subset
  <2>8. Cardinality(Exhausted) \in Nat /\ Cardinality(Exhausted') \in Nat /\ Len(Ids[2]) \in Nat
    BY <2>5, <2>6, <2>7, FS_CardinalityType
  <2>9. ASSUME NEW g \in Generations, volume[<<2, g>>] # 0, volume'[<<2, g>>] = 0
        PROVE  Cardinality(Exhausted) + 1 <= Cardinality(Exhausted')
    <3>1. g \notin Exhausted /\ Exhausted \cup {g} \in SUBSET Exhausted'
      BY <2>1, <2>4, <2>9 DEF Exhausted
    <3>2. Cardinality(Exhausted \cup {g}) = Cardinality(Exhausted) + 1
      BY <2>7, <3>1, FS_AddElement
    <3>3. Cardinality(Exhausted \cup {g}) <= Cardinality(Exhausted')
      BY <2>6, <3>1, FS_Subset
    <3>. QED BY <3>2, <3>3
  <2>. QED BY <2>6, <2>7, <2>8, <2>9
<1>. SUFFICES ASSUME NEW i \in Consumptions, NEW j \in Consumptions, Equals(i, j),
                     volume'[<<1, i>>] > 0
              PROVE  /\ Given(matched', <<1, j>>) - Given(matched', <<1, i>>) <= Len(Ids[2])
                     /\ volume'[<<1, j>>] > 0 =>
                          Given(matched', <<1, j>>) - Given(matched', <<1, i>>) <= Cardinality(Exhausted')
  <2>1. \A i, j \in Consumptions : Equals(i, j)' <=> Equals(i, j)
    BY <1>1 DEF Equals
  <2>. QED BY <2>1 DEF SpreadInv
<1>. DEFINE I == <<1, i>>
            J == <<1, j>>
            dI == Given(m, I)
            dJ == Given(m, J)
            D == Given(matched, J) - Given(matched, I)
            z == Cardinality(Exhausted)
            y == Cardinality(Exhausted')
            n == Len(Ids[2])
            vI == volume[I]
            vJ == volume[J]
<1>7. I \in AllEntities /\ J \in AllEntities /\ I[1] = 1 /\ J[1] = 1
  BY EntitiesAre
<1>8. /\ Given(matched', J) - Given(matched', I) = D + dJ - dI
      /\ D \in Int /\ dI \in Nat /\ dJ \in Nat
  <2>1. Given(matched, I) \in Nat /\ Given(matched, J) \in Nat
    BY <1>2, GivenNat
  <2>. QED BY <1>1, <1>7, <2>1
<1>9. /\ vI \in Nat /\ vJ \in Nat /\ volume'[I] = vI - dI /\ volume'[J] = vJ - dJ
      /\ volume'[I] \in Nat /\ volume'[J] \in Nat /\ vI > 0
  <2>1. vI \in Nat /\ vJ \in Nat /\ volume'[I] \in Nat /\ volume'[J] \in Nat
    BY <1>1, <1>2, <1>7 DEF VolumesAre
  <2>. QED BY <1>1, <1>7, <2>1
<1>10. D <= n /\ (vJ > 0 => D <= z)
  BY <1>9 DEF SpreadInv
<1>11. z \in Nat /\ y \in Nat /\ n \in Nat /\ z <= y /\ y <= n
  BY <1>6
<1>12. vJ = 0 => dJ = 0
  <2>1. vJ = 0 => RoutesOf(J, Routes) = {}
    BY <1>2, <1>7, EmptyAre
  <2>. QED BY <1>3, <1>7, <2>1
<1>13. /\ Cardinality(Sources(j)) <= Cardinality(Sources(i)) /\ Cardinality(Sources(j)) + z <= n
       /\ Cardinality(Sources(i)) \in Nat /\ Cardinality(Sources(j)) \in Nat
       /\ Cardinality(RoutesOf(I, Routes)) = Cardinality(Sources(i))
       /\ Cardinality(RoutesOf(J, Routes)) = Cardinality(Sources(j))
  <2>1. Sources(j) \subseteq Sources(i)
    BY <1>2, <1>9, EqualsShareRoutes DEF Sources
  <2>2. Cardinality(Sources(j)) <= Cardinality(Sources(i))
    BY <1>2, <2>1, SourcesAre, FS_Subset
  <2>. QED BY <1>2, <2>2, SourcesAre
<1>14. volume'[J] > 0 => vJ > 0
  BY <1>8, <1>9
<1>15. CASE s # 0
  <2>1. dI = s * Cardinality(Sources(i)) /\ dJ = s * Cardinality(Sources(j))
    BY <1>3, <1>13, <1>15
  <2>2. dJ <= dI
    <3>1. \A a, b \in Nat : a <= b => s * a <= s * b
      BY <1>3
    <3>. QED BY <1>13, <2>1, <3>1
  <2>3. D + dJ - dI <= n /\ (volume'[J] > 0 => D + dJ - dI <= y)
    <3>. HIDE DEF D, dI, dJ, n, y, z, vI, vJ, I, J
    <3>. QED BY <1>8, <1>10, <1>11, <1>14, <2>2
  <2>. QED BY <1>8, <2>3
<1>16. CASE s = 0 /\ c = J
  <2>1. dJ = vJ /\ volume'[J] = 0
    BY <1>3, <1>9, <1>16
  <2>2. vJ < Cardinality(Sources(j)) /\ vJ > 0
    BY <1>4, <1>5, <1>9, <1>13, <1>16
  <2>3. D + dJ - dI <= n /\ ~(volume'[J] > 0)
    <3>. DEFINE k == Cardinality(Sources(j))
    <3>1. k \in Nat /\ k + z <= n /\ vJ < k
      BY <1>13, <2>2
    <3>. HIDE DEF D, dI, dJ, n, y, z, vI, vJ, I, J, k
    <3>. QED BY <1>8, <1>9, <1>10, <1>11, <2>1, <2>2, <3>1
  <2>. QED BY <1>8, <2>3
<1>17. c # I \/ s # 0
  <2>1. CASE s = 0 /\ c = I
    <3>1. dI = vI
      BY <1>3, <2>1
    <3>. QED BY <1>9, <3>1
  <2>. QED BY <1>3, <2>1
<1>18. CASE s = 0 /\ c # J /\ c # I /\ c[1] = 1
  <2>1. dJ = 0 /\ dI = 0
    BY <1>3, <1>7, <1>18
  <2>2. D + dJ - dI <= n /\ (volume'[J] > 0 => D + dJ - dI <= y)
    <3>. HIDE DEF D, dI, dJ, n, y, z, vI, vJ, I, J
    <3>. QED BY <1>8, <1>10, <1>11, <1>14, <2>1
  <2>. QED BY <1>8, <2>2
<1>19. CASE s = 0 /\ c # J /\ c # I /\ c[1] # 1
  <2>1. dJ <= 1
    BY <1>3, <1>7, <1>19
  <2>2. PICK g \in Generations : c = <<2, g>>
    BY <1>3, <1>19, EntitiesAre
  <2>3. volume'[c] = 0
    <3>1. volume[c] \in Nat
      BY <1>2, <1>3 DEF VolumesAre
    <3>. QED BY <1>1, <1>3, <1>19, <3>1
  <2>4. z + 1 <= y
    BY <1>4, <1>6, <2>2, <2>3
  <2>5. D + dJ - dI <= n /\ (volume'[J] > 0 => D + dJ - dI <= y)
    <3>. HIDE DEF D, dI, dJ, n, y, z, vI, vJ, I, J
    <3>. QED BY <1>8, <1>9, <1>10, <1>11, <1>12, <1>14, <2>1, <2>4
  <2>. QED BY <1>8, <2>5
<1>. QED BY <1>3, <1>15, <1>16, <1>17, <1>18, <1>19

\* Unless a group names an id twice, a consumption is behind another one of
\* its rank by at most one unit for each generation, or got all it wanted: for
\* any entities and volumes, and any priorities in which no id is in two
\* groups of consumers (spreadMatcher.ts:233-258, 290-302).
THEOREM MatchingSpreadsEvenly ==
  ASSUME \A groups \in Priorities : IdsOnce(groups)
  PROVE  Spec => []SpreadEvenly
<1>1. Init => (NobodyNamedTwice => SpreadInv)
  <2>. SUFFICES ASSUME NobodyNamedTwice, Init PROVE SpreadInv
    OBVIOUS
  <2>1. MatcherInv /\ VolumesAre(volume) /\ volume = input.volume
    BY MatcherStarts DEF Init, MatcherInit
  <2>2. \A i \in Consumptions : Given(matched, <<1, i>>) = 0
    <3>1. ASSUME NEW i \in Consumptions PROVE Given(matched, <<1, i>>) = 0
      <4>1. <<1, i>> \in AllEntities
        BY EntitiesAre
      <4>2. /\ volume[<<1, i>>] \in Nat /\ Given(matched, <<1, i>>) \in Int
            /\ volume[<<1, i>>] + Given(matched, <<1, i>>) = volume[<<1, i>>]
        BY <2>1, <4>1, GivenInt DEF MatcherInv, VolumesAre
      <4>. QED BY <4>2
    <3>. QED BY <3>1
  <2>3. Len(Ids[2]) \in Nat /\ \A i \in Consumptions : Cardinality(Exhausted) \in Nat
    BY <2>1, EntitiesAre, SourcesAre DEF MatcherInv
  <2>. QED BY <2>2, <2>3 DEF SpreadInv
<1>2. (/\ MatcherInv /\ (NobodyNamedTwice => SoundInv /\ SpreadInv)
       /\ (NobodyNamedTwice' => SoundInv') /\ [Next]_vars)
         => (NobodyNamedTwice' => SpreadInv')
  <2>. SUFFICES ASSUME NobodyNamedTwice, MatcherInv, SoundInv, SoundInv', SpreadInv, [Next]_vars
                PROVE  SpreadInv'
    BY InputStays
  <2>1. CASE MatchRound
    <3>1. IdsOnce(input.priority)
      BY DEF MatcherInv, InputOK
    <3>. QED BY <2>1, <3>1, RoundSpreads
  <2>2. CASE UNCHANGED <<input, volume, matched>>
    <3>1. \A i, j : Equals(i, j)' <=> Equals(i, j)
      BY <2>2 DEF Equals
    <3>2. Exhausted' = Exhausted
      BY <2>2 DEF Exhausted
    <3>. QED BY <2>2, <3>1, <3>2 DEF SpreadInv
  <2>. QED BY <2>1, <2>2, ServiceStep DEF MatcherStep, Stop, matcherVars
<1>3. (NobodyNamedTwice => SpreadInv) => SpreadEvenly
  BY DEF SpreadInv, SpreadEvenly
<1>. QED BY <1>1, <1>2, <1>3, MatcherInvariant, SoundInvariant, PTL DEF Spec
=============================================================================
