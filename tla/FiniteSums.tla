------------------------------ MODULE FiniteSums ------------------------------
(***************************************************************************)
(* Sums over finite sets, as the folds of the models compute them, and     *)
(* what they are: independent of the order, and of values outside the set. *)
(* The folds are defined by a function on the subsets of a set; what it is *)
(* at a set follows from a smallest subset for which it would be wrong.    *)
(***************************************************************************)
EXTENDS Integers, FiniteSetsExt, Functions, TLAPS, FiniteSetTheorems, WellFoundedInduction

-----------------------------------------------------------------------------
(* Sums over finite sets *)

\* Among the subsets of a finite set that fail, one has no part that fails.
LEMMA SmallestFailure ==
  ASSUME NEW S, IsFiniteSet(S), NEW failing, failing \subseteq SUBSET S, failing # {}
  PROVE  \E U \in failing : \A W \in failing : W \subseteq U => W = U
<1>1. IsWellFoundedOn(StrictSubsetOrdering(S), SUBSET S)
  BY FS_StrictSubsetOrderingWellFounded, FS_FiniteSubsetsOfFinite
<1>2. PICK U \in failing : \A W \in failing : <<W, U>> \notin StrictSubsetOrdering(S)
  BY <1>1, WFMin
<1>3. ASSUME NEW W \in failing, W \subseteq U, W # U PROVE FALSE
  <2>1. <<W, U>> \in (SUBSET S) \X (SUBSET S)
    OBVIOUS
  <2>2. <<W, U>> \in StrictSubsetOrdering(S)
    BY <1>3, <2>1 DEF StrictSubsetOrdering
  <2>. QED BY <1>2, <2>2
<1>. QED BY <1>3

\* f is the function behind a sum of the values of v, as the folds define it.
AddsUp(f, v, S) ==
  f = [s \in SUBSET S |-> IF s = {} THEN 0
                          ELSE LET x == CHOOSE x \in s : TRUE IN v[x] + f[s \ {x}]]

Total(v, S) == (CHOOSE f : AddsUp(f, v, S))[S]

\* What such a function is at each set.
LEMMA AddsUpAt ==
  ASSUME NEW f, NEW v, NEW S, AddsUp(f, v, S)
  PROVE  /\ f[{}] = 0
         /\ \A s \in SUBSET S : s # {} =>
              LET x == CHOOSE x \in s : TRUE IN x \in s /\ f[s] = v[x] + f[s \ {x}]
<1>1. \A s \in SUBSET S : f[s] = IF s = {} THEN 0
                                 ELSE LET x == CHOOSE x \in s : TRUE IN v[x] + f[s \ {x}]
  BY Zenon DEF AddsUp
<1>2. \A s : s # {} => (CHOOSE x \in s : TRUE) \in s
  OBVIOUS
<1>. QED BY <1>1, <1>2

\* Two of them agree where their values do.
LEMMA AddsUpOnce ==
  ASSUME NEW f, NEW v, NEW S, AddsUp(f, v, S), NEW g, NEW w, NEW T, AddsUp(g, w, T),
         NEW U, IsFiniteSet(U), U \subseteq S, U \subseteq T, \A x \in U : v[x] = w[x]
  PROVE  f[U] = g[U]
<1>. DEFINE failing == {s \in SUBSET U : f[s] # g[s]}
<1>1. SUFFICES ASSUME failing # {} PROVE FALSE
  OBVIOUS
<1>2. PICK s \in failing : \A t \in failing : t \subseteq s => t = s
  <2>1. failing \subseteq SUBSET U
    OBVIOUS
  <2>. HIDE DEF failing
  <2>. QED BY <1>1, <2>1, SmallestFailure
<1>3. s # {}
  BY <1>2, AddsUpAt
<1>. DEFINE x == CHOOSE x \in s : TRUE
<1>4. x \in s /\ f[s] = v[x] + f[s \ {x}] /\ g[s] = w[x] + g[s \ {x}]
  BY <1>2, <1>3, AddsUpAt
<1>5. s \ {x} \notin failing
  BY <1>2, <1>4
<1>6. f[s \ {x}] = g[s \ {x}] /\ v[x] = w[x]
  BY <1>2, <1>4, <1>5
<1>. QED BY <1>2, <1>4, <1>6

\* There is one on every finite set.
LEMMA AddsUpExists ==
  ASSUME NEW v, NEW S, IsFiniteSet(S)
  PROVE  \E f : AddsUp(f, v, S)
<1>. DEFINE failing == {s \in SUBSET S : ~\E f : AddsUp(f, v, s)}
<1>1. SUFFICES ASSUME failing # {} PROVE FALSE
  OBVIOUS
<1>2. PICK U \in failing : \A W \in failing : W \subseteq U => W = U
  <2>1. failing \subseteq SUBSET S
    OBVIOUS
  <2>. HIDE DEF failing
  <2>. QED BY <1>1, <2>1, SmallestFailure
<1>. DEFINE at(s) == CHOOSE f : AddsUp(f, v, s)
            last(s) == CHOOSE x \in s : TRUE
<1>3. \A s \in SUBSET U : s # U => AddsUp(at(s), v, s) /\ IsFiniteSet(s)
  <2>1. ASSUME NEW s \in SUBSET U, s # U PROVE \E f : AddsUp(f, v, s)
    BY <1>2, <2>1
  <2>2. ASSUME NEW s \in SUBSET U PROVE IsFiniteSet(s)
    BY FS_Subset
  <2>. QED BY <2>1, <2>2
<1>4. \A s \in SUBSET U : s # {} => last(s) \in s /\ s \ {last(s)} \in SUBSET U /\ s \ {last(s)} # U
  OBVIOUS
<1>5. \A s \in SUBSET U : s # U /\ s # {} =>
        at(s)[s] = v[last(s)] + at(s \ {last(s)})[s \ {last(s)}]
  <2>1. ASSUME NEW s \in SUBSET U, s # U, s # {}
        PROVE  at(s)[s] = v[last(s)] + at(s \ {last(s)})[s \ {last(s)}]
    <3>1. AddsUp(at(s), v, s) /\ AddsUp(at(s \ {last(s)}), v, s \ {last(s)})
          /\ IsFiniteSet(s \ {last(s)})
      BY <1>3, <1>4, <2>1
    <3>2. at(s)[s] = v[last(s)] + at(s)[s \ {last(s)}]
      BY <2>1, <3>1, AddsUpAt
    <3>. HIDE DEF at, last
    <3>3. at(s)[s \ {last(s)}] = at(s \ {last(s)})[s \ {last(s)}]
      BY <3>1, AddsUpOnce
    <3>. QED BY <3>2, <3>3
  <2>. QED BY <2>1
<1>6. U # {} => at({})[{}] = 0
  BY <1>3, AddsUpAt
<1>. DEFINE f == [s \in SUBSET U |-> IF s = {} THEN 0
                                     ELSE v[last(s)] + at(s \ {last(s)})[s \ {last(s)}]]
<1>7. \A s \in SUBSET U : s # U => f[s] = at(s)[s]
  BY <1>5, <1>6
<1>8. \A s \in SUBSET U : f[s] = IF s = {} THEN 0 ELSE v[last(s)] + f[s \ {last(s)}]
  <2>1. ASSUME NEW s \in SUBSET U, s # {} PROVE f[s] = v[last(s)] + f[s \ {last(s)}]
    <3>1. f[s] = v[last(s)] + at(s \ {last(s)})[s \ {last(s)}]
      BY <2>1
    <3>2. f[s \ {last(s)}] = at(s \ {last(s)})[s \ {last(s)}]
      <4>. HIDE DEF f, at, last
      <4>. QED BY <1>4, <1>7, <2>1
    <3>. HIDE DEF f, at, last
    <3>. QED BY <3>1, <3>2
  <2>2. \A s \in SUBSET U : s = {} => f[s] = 0
    OBVIOUS
  <2>. HIDE DEF f, last
  <2>. QED BY <2>1, <2>2
<1>9. f = [s \in SUBSET U |-> IF s = {} THEN 0 ELSE v[last(s)] + f[s \ {last(s)}]]
  <2>1. f = [s \in SUBSET U |-> f[s]]
    OBVIOUS
  <2>. HIDE DEF f
  <2>. QED BY <1>8, <2>1
<1>10. AddsUp(f, v, U)
  BY <1>9, Zenon DEF AddsUp
<1>. QED BY <1>2, <1>10

\* A sum takes the values one by one.
LEMMA TotalAt ==
  ASSUME NEW v, NEW S, IsFiniteSet(S)
  PROVE  /\ S = {} => Total(v, S) = 0
         /\ S # {} => \E x \in S : Total(v, S) = v[x] + Total(v, S \ {x})
<1>. DEFINE at(s) == CHOOSE f : AddsUp(f, v, s)
<1>1. ASSUME NEW s \in SUBSET S PROVE AddsUp(at(s), v, s) /\ IsFiniteSet(s)
  <2>1. IsFiniteSet(s)
    BY FS_Subset
  <2>. QED BY <2>1, AddsUpExists
<1>2. \A s : Total(v, s) = at(s)[s]
  BY DEF Total
<1>3. CASE S = {}
  <2>. HIDE DEF at
  <2>. QED BY <1>1, <1>2, <1>3, AddsUpAt
<1>4. CASE S # {}
  <2>. DEFINE x == CHOOSE x \in S : TRUE
  <2>. HIDE DEF at
  <2>1. x \in S /\ at(S)[S] = v[x] + at(S)[S \ {x}]
    BY <1>1, <1>4, AddsUpAt
  <2>2. at(S)[S \ {x}] = at(S \ {x})[S \ {x}]
    <3>1. AddsUp(at(S), v, S) /\ AddsUp(at(S \ {x}), v, S \ {x}) /\ IsFiniteSet(S \ {x})
      BY <1>1
    <3>. HIDE DEF x
    <3>. QED BY <3>1, AddsUpOnce
  <2>. QED BY <1>2, <1>4, <2>1, <2>2
<1>. QED BY <1>3, <1>4

\* Only the values in the set matter.
LEMMA TotalSame ==
  ASSUME NEW v, NEW w, NEW S, IsFiniteSet(S), \A x \in S : v[x] = w[x]
  PROVE  Total(v, S) = Total(w, S)
<1>1. AddsUp(CHOOSE f : AddsUp(f, v, S), v, S) /\ AddsUp(CHOOSE f : AddsUp(f, w, S), w, S)
  BY AddsUpExists
<1>. QED BY <1>1, AddsUpOnce DEF Total

\* A sum of integers is one.
LEMMA TotalInt ==
  ASSUME NEW v, NEW S, IsFiniteSet(S), \A x \in S : v[x] \in Int
  PROVE  Total(v, S) \in Int
<1>. DEFINE failing == {s \in SUBSET S : Total(v, s) \notin Int}
<1>1. SUFFICES ASSUME failing # {} PROVE FALSE
  OBVIOUS
<1>2. PICK s \in failing : \A t \in failing : t \subseteq s => t = s
  <2>1. failing \subseteq SUBSET S
    OBVIOUS
  <2>. HIDE DEF failing
  <2>. QED BY <1>1, <2>1, SmallestFailure
<1>3. IsFiniteSet(s)
  BY <1>2, FS_Subset
<1>4. s # {}
  BY <1>2, <1>3, TotalAt
<1>5. PICK x \in s : Total(v, s) = v[x] + Total(v, s \ {x})
  BY <1>3, <1>4, TotalAt
<1>6. s \ {x} \notin failing
  BY <1>2
<1>7. Total(v, s \ {x}) \in Int /\ v[x] \in Int
  BY <1>2, <1>6
<1>. QED BY <1>2, <1>5, <1>7

\* The order does not matter: any element may be taken out.
LEMMA TotalTakes ==
  ASSUME NEW v, NEW S, IsFiniteSet(S), \A x \in S : v[x] \in Int, NEW y \in S
  PROVE  Total(v, S) = v[y] + Total(v, S \ {y})
<1>. DEFINE failing == {s \in SUBSET S : \E e \in s : Total(v, s) # v[e] + Total(v, s \ {e})}
<1>1. SUFFICES ASSUME failing # {} PROVE FALSE
  OBVIOUS
<1>2. PICK s \in failing : \A t \in failing : t \subseteq s => t = s
  <2>1. failing \subseteq SUBSET S
    OBVIOUS
  <2>. HIDE DEF failing
  <2>. QED BY <1>1, <2>1, SmallestFailure
<1>3. PICK e \in s : Total(v, s) # v[e] + Total(v, s \ {e})
  BY <1>2
<1>4. \A t \in SUBSET s : IsFiniteSet(t) /\ Total(v, t) \in Int
  <2>1. ASSUME NEW t \in SUBSET s PROVE IsFiniteSet(t) /\ Total(v, t) \in Int
    <3>1. t \in SUBSET S /\ \A x \in t : v[x] \in Int
      BY <1>2
    <3>2. IsFiniteSet(t)
      BY <3>1, FS_Subset
    <3>. QED BY <3>1, <3>2, TotalInt
  <2>. QED BY <2>1
<1>5. PICK c \in s : Total(v, s) = v[c] + Total(v, s \ {c})
  BY <1>3, <1>4, TotalAt
<1>6. c # e
  BY <1>3, <1>5
<1>7. s \ {c} \notin failing /\ s \ {e} \notin failing
  BY <1>2, <1>3, <1>5
<1>8. Total(v, s \ {c}) = v[e] + Total(v, (s \ {c}) \ {e})
  BY <1>2, <1>3, <1>6, <1>7
<1>9. Total(v, s \ {e}) = v[c] + Total(v, (s \ {e}) \ {c})
  BY <1>2, <1>5, <1>6, <1>7
<1>10. (s \ {c}) \ {e} = (s \ {e}) \ {c} /\ (s \ {c}) \ {e} \in SUBSET s
  OBVIOUS
<1>11. Total(v, (s \ {c}) \ {e}) \in Int /\ v[c] \in Int /\ v[e] \in Int
  BY <1>2, <1>4, <1>10
<1>12. v[c] + Total(v, s \ {c}) = v[e] + Total(v, s \ {e})
  <2>. DEFINE rest == Total(v, (s \ {c}) \ {e})
  <2>1. Total(v, s \ {c}) = v[e] + rest /\ Total(v, s \ {e}) = v[c] + rest
    BY <1>8, <1>9, <1>10, Zenon
  <2>2. rest \in Int
    BY <1>11
  <2>. HIDE DEF rest
  <2>. QED BY <1>11, <2>1, <2>2
<1>. QED BY <1>3, <1>5, <1>12

\* An element that is added adds its value.
LEMMA TotalAdds ==
  ASSUME NEW v, NEW S, IsFiniteSet(S), NEW y, y \notin S, \A x \in S \cup {y} : v[x] \in Int
  PROVE  Total(v, S \cup {y}) = Total(v, S) + v[y] /\ Total(v, S) \in Int
<1>1. IsFiniteSet(S \cup {y}) /\ (S \cup {y}) \ {y} = S
  BY FS_AddElement
<1>2. Total(v, S \cup {y}) = v[y] + Total(v, S)
  BY <1>1, TotalTakes
<1>3. Total(v, S) \in Int /\ v[y] \in Int
  BY TotalInt
<1>. QED BY <1>2, <1>3

\* The two sums of the model.
LEMMA SumsAreTotals ==
  ASSUME NEW S, IsFiniteSet(S)
  PROVE  /\ MapThenSumSet(LAMBDA e : e.payload.volume, S)
              = Total([e \in S |-> e.payload.volume], S)
         /\ \A f : MapThenSumSet(LAMBDA a : f[a], S) = Total(f, S)
<1>. DEFINE v == [e \in S |-> e.payload.volume]
            Adder(f) ==
              f = [s \in SUBSET S |-> IF s = {} THEN 0
                                      ELSE LET x == CHOOSE x \in s : TRUE
                                           IN  x.payload.volume + f[s \ {x}]]
<1>1. MapThenSumSet(LAMBDA e : e.payload.volume, S) = (CHOOSE f : Adder(f))[S]
  BY DEF MapThenSumSet, MapThenFoldSet
<1>2. ASSUME NEW f PROVE Adder(f) <=> AddsUp(f, v, S)
  <2>1. \A s \in SUBSET S : s # {} => (CHOOSE x \in s : TRUE) \in S
    OBVIOUS
  <2>2. [s \in SUBSET S |-> IF s = {} THEN 0
                            ELSE LET x == CHOOSE x \in s : TRUE
                                 IN  x.payload.volume + f[s \ {x}]]
        = [s \in SUBSET S |-> IF s = {} THEN 0
                              ELSE LET x == CHOOSE x \in s : TRUE IN v[x] + f[s \ {x}]]
    BY <2>1
  <2>. QED BY <2>2 DEF AddsUp
<1>3. (CHOOSE f : Adder(f)) = (CHOOSE f : AddsUp(f, v, S))
  <2>. HIDE DEF Adder, v
  <2>. QED BY <1>2
<1>4. ASSUME NEW f PROVE MapThenSumSet(LAMBDA a : f[a], S) = Total(f, S)
  BY DEF MapThenSumSet, MapThenFoldSet, Total, AddsUp
<1>. QED BY <1>1, <1>3, <1>4 DEF Total

LEMMA FoldsAreTotals ==
  ASSUME NEW f, NEW S
  PROVE  FoldFunctionOnSet(+, 0, f, S) = Total(f, S)
BY DEF FoldFunctionOnSet, MapThenFoldSet, Total, AddsUp

\* Nothing negative adds up to nothing negative.
LEMMA TotalNat ==
  ASSUME NEW v, NEW S, IsFiniteSet(S), \A x \in S : v[x] \in Nat
  PROVE  Total(v, S) \in Nat
<1>. DEFINE failing == {s \in SUBSET S : Total(v, s) \notin Nat}
<1>1. SUFFICES ASSUME failing # {} PROVE FALSE
  OBVIOUS
<1>2. PICK s \in failing : \A t \in failing : t \subseteq s => t = s
  <2>1. failing \subseteq SUBSET S
    OBVIOUS
  <2>. HIDE DEF failing
  <2>. QED BY <1>1, <2>1, SmallestFailure
<1>3. IsFiniteSet(s)
  BY <1>2, FS_Subset
<1>4. s # {}
  BY <1>2, <1>3, TotalAt
<1>5. PICK x \in s : Total(v, s) = v[x] + Total(v, s \ {x})
  BY <1>3, <1>4, TotalAt
<1>6. s \ {x} \notin failing
  BY <1>2
<1>7. Total(v, s \ {x}) \in Nat /\ v[x] \in Nat
  BY <1>2, <1>6
<1>. QED BY <1>2, <1>5, <1>7

\* The sum of sums.
LEMMA TotalOfSums ==
  ASSUME NEW u, NEW v, NEW w, NEW S, IsFiniteSet(S),
         \A x \in S : u[x] \in Int /\ v[x] \in Int /\ w[x] = u[x] + v[x]
  PROVE  Total(w, S) = Total(u, S) + Total(v, S)
<1>. DEFINE failing == {s \in SUBSET S : Total(w, s) # Total(u, s) + Total(v, s)}
<1>1. SUFFICES ASSUME failing # {} PROVE FALSE
  OBVIOUS
<1>2. PICK s \in failing : \A t \in failing : t \subseteq s => t = s
  <2>1. failing \subseteq SUBSET S
    OBVIOUS
  <2>. HIDE DEF failing
  <2>. QED BY <1>1, <2>1, SmallestFailure
<1>3. IsFiniteSet(s) /\ \A x \in s : u[x] \in Int /\ v[x] \in Int /\ w[x] \in Int /\ w[x] = u[x] + v[x]
  BY <1>2, FS_Subset
<1>4. s # {}
  BY <1>2, <1>3, TotalAt
<1>5. PICK x \in s : TRUE
  BY <1>4
<1>. DEFINE r == s \ {x}
<1>6. r \notin failing /\ r \in SUBSET S
  BY <1>2, <1>5
<1>7. IsFiniteSet(r) /\ \A y \in r : u[y] \in Int /\ v[y] \in Int /\ w[y] \in Int
  BY <1>3, FS_RemoveElement
<1>8. Total(u, r) \in Int /\ Total(v, r) \in Int /\ Total(w, r) = Total(u, r) + Total(v, r)
  <2>1. Total(w, r) = Total(u, r) + Total(v, r)
    BY <1>6
  <2>. HIDE DEF r, failing
  <2>. QED BY <1>7, <2>1, TotalInt
<1>9. /\ Total(u, s) = u[x] + Total(u, r) /\ Total(v, s) = v[x] + Total(v, r)
      /\ Total(w, s) = w[x] + Total(w, r)
  BY <1>3, <1>5, TotalTakes
<1>10. Total(w, s) = Total(u, s) + Total(v, s)
  <2>. HIDE DEF r, failing
  <2>. QED BY <1>3, <1>5, <1>8, <1>9
<1>. QED BY <1>2, <1>10

\* The sum of one value and nothing else.
LEMMA TotalOfConstant ==
  ASSUME NEW v, NEW S, IsFiniteSet(S), NEW k \in Nat, NEW R,
         \A x \in S : v[x] = IF x \in R THEN k ELSE 0
  PROVE  Total(v, S) = k * Cardinality(S \cap R)
<1>. DEFINE failing == {s \in SUBSET S : Total(v, s) # k * Cardinality(s \cap R)}
<1>1. SUFFICES ASSUME failing # {} PROVE FALSE
  OBVIOUS
<1>2. PICK s \in failing : \A t \in failing : t \subseteq s => t = s
  <2>1. failing \subseteq SUBSET S
    OBVIOUS
  <2>. HIDE DEF failing
  <2>. QED BY <1>1, <2>1, SmallestFailure
<1>3. IsFiniteSet(s) /\ \A x \in s : v[x] \in Int /\ v[x] = IF x \in R THEN k ELSE 0
  BY <1>2, FS_Subset
<1>4. s # {}
  <2>1. ASSUME s = {} PROVE FALSE
    <3>1. Total(v, s) = 0
      BY <1>3, <2>1, TotalAt
    <3>2. s \cap R = {} /\ Cardinality({}) = 0 /\ k * 0 = 0
      BY <2>1, FS_EmptySet
    <3>. QED BY <1>2, <3>1, <3>2
  <2>. QED BY <2>1
<1>5. PICK x \in s : TRUE
  BY <1>4
<1>. DEFINE r == s \ {x}
            n == Cardinality(r \cap R)
<1>6. r \notin failing /\ r \in SUBSET S
  BY <1>2, <1>5
<1>7. IsFiniteSet(r \cap R) /\ n \in Nat
  <2>1. IsFiniteSet(r \cap R)
    BY <1>3, FS_Subset
  <2>. QED BY <2>1, FS_CardinalityType
<1>8. Total(v, r) = k * n
  BY <1>6
<1>9. Total(v, s) = v[x] + Total(v, r)
  BY <1>3, <1>5, TotalTakes
<1>10. CASE x \in R
  <2>1. s \cap R = (r \cap R) \cup {x} /\ x \notin r \cap R
    BY <1>5, <1>10
  <2>2. Cardinality(s \cap R) = n + 1
    <3>. HIDE DEF r
    <3>. QED BY <1>7, <2>1, FS_AddElement
  <2>3. v[x] = k
    BY <1>3, <1>10
  <2>4. k + k * n = k * (n + 1)
    <3>. HIDE DEF n
    <3>. QED BY <1>7
  <2>. QED BY <1>2, <1>8, <1>9, <2>2, <2>3, <2>4
<1>11. CASE x \notin R
  <2>1. s \cap R = r \cap R
    BY <1>11
  <2>2. v[x] = 0
    BY <1>3, <1>11
  <2>3. 0 + k * n = k * n
    <3>. HIDE DEF n
    <3>. QED BY <1>7
  <2>. QED BY <1>2, <1>8, <1>9, <2>1, <2>2, <2>3
<1>. QED BY <1>10, <1>11

\* Some number is the least.
LEMMA LeastOfNumbers ==
  ASSUME NEW S \in SUBSET Nat, S # {}
  PROVE  \E m \in S : \A n \in S : m <= n
<1>1. PICK m \in S : \A n \in S : <<n, m>> \notin OpToRel(<, Nat)
  BY NatLessThanWellFounded, WFMin
<1>2. ASSUME NEW n \in S, n < m PROVE FALSE
  <2>1. <<n, m>> \in Nat \X Nat
    OBVIOUS
  <2>2. <<n, m>> \in OpToRel(<, Nat)
    BY <1>2, <2>1 DEF OpToRel
  <2>. QED BY <1>1, <2>2
<1>. QED BY <1>2
=============================================================================
