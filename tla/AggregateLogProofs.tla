------------------------- MODULE AggregateLogProofs -------------------------
(***************************************************************************)
(* The replay of the log of a certificate, for logs of any length over any *)
(* accounts and volumes: balances are what the log says, volume is         *)
(* conserved but for transfers to oneself, a certificate is synced when    *)
(* all its movements were persisted, and a log that was refused for its    *)
(* movements stays refused.                                                *)
(***************************************************************************)
EXTENDS AggregateLog, FiniteSums

-----------------------------------------------------------------------------
(* The replay, event by event *)

\* Events can be put in order: createdAt is a number and unique.
Ordered(S) ==
  /\ IsFiniteSet(S)
  /\ \A e \in S : e.at \in Nat
  /\ \A e, f \in S : e.at = f.at => e = f

\* Some event is the latest, and some the first.
LEMMA LatestIsThere ==
  ASSUME NEW S, Ordered(S), S # {}
  PROVE  /\ Latest(S) \in S /\ \A f \in S : f.at <= Latest(S).at
         /\ First(S) \in S /\ \A f \in S : First(S).at <= f.at
<1>. DEFINE failing == {s \in SUBSET S : /\ s # {}
                                         /\ \/ ~\E e \in s : \A f \in s : f.at <= e.at
                                            \/ ~\E e \in s : \A f \in s : e.at <= f.at}
<1>1. failing = {}
  <2>1. SUFFICES ASSUME failing # {} PROVE FALSE
    OBVIOUS
  <2>2. PICK s \in failing : \A t \in failing : t \subseteq s => t = s
    <3>1. failing \subseteq SUBSET S
      OBVIOUS
    <3>. HIDE DEF failing
    <3>. QED BY <2>1, <3>1, SmallestFailure DEF Ordered
  <2>3. PICK y \in s : TRUE
    BY <2>2
  <2>4. s \ {y} \notin failing /\ s \ {y} \in SUBSET S
    BY <2>2
  <2>5. \A e \in s : e.at \in Nat
    BY <2>2 DEF Ordered
  <2>6. CASE s = {y}
    BY <2>2, <2>5, <2>6
  <2>7. CASE s \ {y} # {}
    <3>1. PICK e \in s \ {y} : \A f \in s \ {y} : f.at <= e.at
      BY <2>4, <2>7
    <3>2. PICK d \in s \ {y} : \A f \in s \ {y} : d.at <= f.at
      BY <2>4, <2>7
    <3>3. \E m \in {e, y} : \A f \in s : f.at <= m.at
      BY <2>5, <3>1
    <3>4. \E m \in {d, y} : \A f \in s : m.at <= f.at
      BY <2>5, <3>2
    <3>. QED BY <2>2, <3>3, <3>4
  <2>. QED BY <2>3, <2>6, <2>7
<1>2. S \notin failing
  BY <1>1
<1>3. (\E e \in S : \A f \in S : f.at <= e.at) /\ (\E e \in S : \A f \in S : e.at <= f.at)
  BY <1>2
<1>. QED BY <1>3 DEF Latest, First

\* It is the only one that is.
LEMMA LatestIs ==
  ASSUME NEW S, Ordered(S), NEW y \in S
  PROVE  /\ (\A f \in S : f.at <= y.at) => Latest(S) = y
         /\ (\A f \in S : y.at <= f.at) => First(S) = y
<1>1. /\ Latest(S) \in S /\ \A f \in S : f.at <= Latest(S).at
      /\ First(S) \in S /\ \A f \in S : First(S).at <= f.at
  BY LatestIsThere
<1>2. Latest(S).at \in Nat /\ First(S).at \in Nat /\ y.at \in Nat
  BY <1>1 DEF Ordered
<1>3. (\A f \in S : f.at <= y.at) => Latest(S).at = y.at
  BY <1>1, <1>2
<1>4. (\A f \in S : y.at <= f.at) => First(S).at = y.at
  BY <1>1, <1>2
<1>. QED BY <1>1, <1>3, <1>4 DEF Ordered

\* Parts of them can be put in order, too.
LEMMA PartIsOrdered ==
  ASSUME NEW S, Ordered(S), NEW s \in SUBSET S
  PROVE  Ordered(s)
BY FS_Subset DEF Ordered

\* f is the function behind a replay that starts with the certificate base.
Replayed(f, base, S) ==
  f = [s \in SUBSET S |-> IF s = {} THEN base ELSE Apply(f[s \ {Latest(s)}], Latest(s))]

After(base, S) == (CHOOSE f : Replayed(f, base, S))[S]

\* What such a function is at each set.
LEMMA ReplayedAt ==
  ASSUME NEW f, NEW base, NEW S, Replayed(f, base, S)
  PROVE  /\ f[{}] = base
         /\ \A s \in SUBSET S : s # {} => f[s] = Apply(f[s \ {Latest(s)}], Latest(s))
<1>1. \A s \in SUBSET S : f[s] = IF s = {} THEN base ELSE Apply(f[s \ {Latest(s)}], Latest(s))
  BY Zenon DEF Replayed
<1>. QED BY <1>1

\* Two of them agree.
LEMMA ReplayedOnce ==
  ASSUME NEW base, NEW S, NEW f, Replayed(f, base, S), NEW T, NEW g, Replayed(g, base, T),
         NEW U, Ordered(U), U \subseteq S, U \subseteq T
  PROVE  f[U] = g[U]
<1>. DEFINE failing == {s \in SUBSET U : f[s] # g[s]}
<1>1. SUFFICES ASSUME failing # {} PROVE FALSE
  OBVIOUS
<1>2. PICK s \in failing : \A t \in failing : t \subseteq s => t = s
  <2>1. failing \subseteq SUBSET U
    OBVIOUS
  <2>. HIDE DEF failing
  <2>. QED BY <1>1, <2>1, SmallestFailure DEF Ordered
<1>3. s # {}
  BY <1>2, ReplayedAt
<1>4. Latest(s) \in s
  BY <1>2, <1>3, PartIsOrdered, LatestIsThere
<1>5. f[s] = Apply(f[s \ {Latest(s)}], Latest(s)) /\ g[s] = Apply(g[s \ {Latest(s)}], Latest(s))
  BY <1>2, <1>3, ReplayedAt
<1>6. s \ {Latest(s)} \notin failing
  BY <1>2, <1>4
<1>7. f[s \ {Latest(s)}] = g[s \ {Latest(s)}]
  BY <1>2, <1>6
<1>. QED BY <1>2, <1>5, <1>7

\* There is one for all events that can be put in order.
LEMMA ReplayedExists ==
  ASSUME NEW base, NEW S, Ordered(S)
  PROVE  \E f : Replayed(f, base, S)
<1>. DEFINE failing == {s \in SUBSET S : ~\E f : Replayed(f, base, s)}
<1>1. SUFFICES ASSUME failing # {} PROVE FALSE
  OBVIOUS
<1>2. PICK U \in failing : \A W \in failing : W \subseteq U => W = U
  <2>1. failing \subseteq SUBSET S
    OBVIOUS
  <2>. HIDE DEF failing
  <2>. QED BY <1>1, <2>1, SmallestFailure DEF Ordered
<1>. DEFINE at(s) == CHOOSE f : Replayed(f, base, s)
<1>3. \A s \in SUBSET U : Ordered(s) /\ (s # U => Replayed(at(s), base, s))
  <2>1. ASSUME NEW s \in SUBSET U, s # U PROVE \E f : Replayed(f, base, s)
    BY <1>2, <2>1
  <2>2. ASSUME NEW s \in SUBSET U PROVE Ordered(s)
    BY PartIsOrdered
  <2>. QED BY <2>1, <2>2
<1>4. \A s \in SUBSET U : s # {} => /\ Latest(s) \in s /\ s \ {Latest(s)} \in SUBSET U
                                    /\ s \ {Latest(s)} # U
  BY <1>3, LatestIsThere
<1>5. \A s \in SUBSET U : s # U /\ s # {} =>
        at(s)[s] = Apply(at(s \ {Latest(s)})[s \ {Latest(s)}], Latest(s))
  <2>1. ASSUME NEW s \in SUBSET U, s # U, s # {}
        PROVE  at(s)[s] = Apply(at(s \ {Latest(s)})[s \ {Latest(s)}], Latest(s))
    <3>1. Replayed(at(s), base, s) /\ Replayed(at(s \ {Latest(s)}), base, s \ {Latest(s)})
          /\ Ordered(s \ {Latest(s)})
      BY <1>3, <1>4, <2>1
    <3>. HIDE DEF at
    <3>2. at(s)[s] = Apply(at(s)[s \ {Latest(s)}], Latest(s))
      BY <2>1, <3>1, ReplayedAt
    <3>3. at(s)[s \ {Latest(s)}] = at(s \ {Latest(s)})[s \ {Latest(s)}]
      BY <3>1, ReplayedOnce
    <3>. QED BY <3>2, <3>3
  <2>. QED BY <2>1
<1>6. U # {} => at({})[{}] = base
  BY <1>3, ReplayedAt
<1>. DEFINE f == [s \in SUBSET U |->
                    IF s = {} THEN base
                    ELSE Apply(at(s \ {Latest(s)})[s \ {Latest(s)}], Latest(s))]
<1>7. \A s \in SUBSET U : s # U => f[s] = at(s)[s]
  BY <1>5, <1>6
<1>8. \A s \in SUBSET U : f[s] = IF s = {} THEN base ELSE Apply(f[s \ {Latest(s)}], Latest(s))
  <2>1. ASSUME NEW s \in SUBSET U, s # {} PROVE f[s] = Apply(f[s \ {Latest(s)}], Latest(s))
    <3>1. f[s] = Apply(at(s \ {Latest(s)})[s \ {Latest(s)}], Latest(s))
      BY <2>1
    <3>2. f[s \ {Latest(s)}] = at(s \ {Latest(s)})[s \ {Latest(s)}]
      <4>. HIDE DEF f, at
      <4>. QED BY <1>4, <1>7, <2>1
    <3>. HIDE DEF f, at
    <3>. QED BY <3>1, <3>2
  <2>2. \A s \in SUBSET U : s = {} => f[s] = base
    OBVIOUS
  <2>. HIDE DEF f
  <2>. QED BY <2>1, <2>2
<1>9. f = [s \in SUBSET U |-> IF s = {} THEN base ELSE Apply(f[s \ {Latest(s)}], Latest(s))]
  <2>1. f = [s \in SUBSET U |-> f[s]]
    OBVIOUS
  <2>. HIDE DEF f
  <2>. QED BY <1>8, <2>1
<1>10. Replayed(f, base, U)
  BY <1>9, Zenon DEF Replayed
<1>. QED BY <1>2, <1>10

\* So a replay of more events is the replay of fewer, and then the last one.
LEMMA AfterMore ==
  ASSUME NEW base, NEW S, NEW e, e \notin S, Ordered(S \cup {e}), \A f \in S : f.at <= e.at
  PROVE  After(base, S \cup {e}) = Apply(After(base, S), e)
<1>. DEFINE T == S \cup {e}
            at(s) == CHOOSE f : Replayed(f, base, s)
<1>1. Ordered(S) /\ Replayed(at(S), base, S) /\ Replayed(at(T), base, T)
  BY PartIsOrdered, ReplayedExists
<1>2. Latest(T) = e
  <2>1. e \in T /\ \A f \in T : f.at <= e.at
    BY DEF Ordered
  <2>. QED BY <2>1, LatestIs
<1>3. T \ {e} = S /\ T # {} /\ S \subseteq T
  OBVIOUS
<1>. HIDE DEF at
<1>4. at(T)[T] = Apply(at(T)[S], e)
  <2>. HIDE DEF T
  <2>. QED BY <1>1, <1>2, <1>3, ReplayedAt
<1>5. at(T)[S] = at(S)[S]
  <2>. HIDE DEF T
  <2>. QED BY <1>1, <1>3, ReplayedOnce
<1>. QED BY <1>4, <1>5 DEF After, at

\* The reducer of the model is such a replay.
LEMMA ReduceIsReplay ==
  ASSUME NEW S
  PROVE  Reduce(S) = After(CreateCertificate(First(S)), S \ {First(S)})
BY DEF Reduce, MapThenFoldSet, After, Replayed

\* A replay of no events is what it starts with.
LEMMA AfterNothing ==
  ASSUME NEW base
  PROVE  After(base, {}) = base
<1>1. Ordered({})
  BY FS_EmptySet DEF Ordered
<1>2. Replayed(CHOOSE f : Replayed(f, base, {}), base, {})
  BY <1>1, ReplayedExists
<1>. QED BY <1>2, ReplayedAt DEF After

\* The certificate of a first event, and of one event more.
LEMMA ReduceFirst ==
  ASSUME NEW e, e.at \in Nat
  PROVE  First({e}) = e /\ Reduce({e}) = CreateCertificate(e)
<1>1. Ordered({e}) /\ e \in {e}
  BY FS_Singleton DEF Ordered
<1>2. First({e}) = e
  BY <1>1, LatestIsThere
<1>3. {e} \ {First({e})} = {}
  BY <1>2
<1>. QED BY <1>2, <1>3, ReduceIsReplay, AfterNothing

LEMMA ReduceMore ==
  ASSUME NEW S, S # {}, NEW e, e \notin S, Ordered(S \cup {e}), \A f \in S : f.at <= e.at
  PROVE  First(S \cup {e}) = First(S) /\ Reduce(S \cup {e}) = Apply(Reduce(S), e)
<1>1. Ordered(S)
  BY PartIsOrdered
<1>2. First(S) \in S /\ \A f \in S : First(S).at <= f.at
  BY <1>1, LatestIsThere
<1>3. First(S \cup {e}) = First(S)
  BY <1>2, LatestIs
<1>. DEFINE R == S \ {First(S)}
<1>4. (S \cup {e}) \ {First(S)} = R \cup {e} /\ e \notin R
  BY <1>2
<1>5. Ordered(R \cup {e}) /\ \A f \in R : f.at <= e.at
  BY <1>4, PartIsOrdered
<1>6. After(CreateCertificate(First(S)), R \cup {e})
        = Apply(After(CreateCertificate(First(S)), R), e)
  <2>. HIDE DEF R
  <2>. QED BY <1>4, <1>5, AfterMore
<1>. QED BY <1>3, <1>4, <1>6, ReduceIsReplay

-----------------------------------------------------------------------------
(* Answers in a replay *)

\* What a replay makes is always a certificate with its four fields.
Shaped(c) ==
  c = [owners |-> c.owners, claimers |-> c.claimers, isSynced |-> c.isSynced, error |-> c.error]

LEMMA ApplyShaped ==
  ASSUME NEW c, Shaped(c), NEW e
  PROVE  /\ Shaped(Apply(c, e))
         /\ e.type \notin Synchronizable => Apply(c, e) = c
<1>1. Shaped(Thrown("CertificateAlreadyIssued")) /\ Shaped(Thrown("ValidationFailed"))
  BY DEF Shaped, Thrown
<1>. DEFINE Owning(x)      == [c EXCEPT !.owners = x]
            Claiming(x, y) == [c EXCEPT !.owners = x, !.claimers = y]
<1>2. \A x, y : Shaped(Owning(x)) /\ Shaped(Claiming(x, y))
  <2>. TAKE x, y
  <2>1. PICK a, b, d, f : c = [owners |-> a, claimers |-> b, isSynced |-> d, error |-> f]
    BY DEF Shaped
  <2>2. Owning(x) = [owners |-> x, claimers |-> b, isSynced |-> d, error |-> f]
    BY <2>1
  <2>3. Claiming(x, y) = [owners |-> x, claimers |-> y, isSynced |-> d, error |-> f]
    <3>1. Claiming(x, y) = [Owning(x) EXCEPT !.claimers = y]
      OBVIOUS
    <3>. HIDE DEF Owning, Claiming
    <3>. QED BY <2>2, <3>1
  <2>4. \A z, w : Shaped([owners |-> z, claimers |-> w, isSynced |-> d, error |-> f])
    BY DEF Shaped
  <2>. HIDE DEF Owning, Claiming
  <2>. QED BY <2>2, <2>3, <2>4
<1>3. Shaped(Transfer(c, e.payload)) /\ Shaped(Claim(c, e.payload))
  BY <1>2 DEF Transfer, Claim
<1>4. e.type \notin Synchronizable => Apply(c, e) = c
  BY DEF Apply, Synchronizable
<1>. QED BY <1>1, <1>3, <1>4 DEF Apply, Synchronizable

\* A replay that starts with a certificate makes one, and answers do not
\* change what it makes.
LEMMA AnswersReplayNothing ==
  ASSUME NEW base, Shaped(base), NEW W, Ordered(W), NEW V \in SUBSET W,
         \A e \in W \ V : e.type \notin Synchronizable
  PROVE  Shaped(After(base, W)) /\ After(base, W) = After(base, V)
<1>. DEFINE failing == {s \in SUBSET W : ~(Shaped(After(base, s)) /\ After(base, s) = After(base, s \cap V))}
<1>1. SUFFICES ASSUME failing # {} PROVE FALSE
  <2>1. W \notin failing => Shaped(After(base, W)) /\ After(base, W) = After(base, W \cap V)
    OBVIOUS
  <2>2. W \cap V = V
    OBVIOUS
  <2>. QED BY <2>1, <2>2
<1>2. PICK s \in failing : \A t \in failing : t \subseteq s => t = s
  <2>1. failing \subseteq SUBSET W
    OBVIOUS
  <2>. HIDE DEF failing
  <2>. QED BY <1>1, <2>1, SmallestFailure DEF Ordered
<1>3. s # {}
  <2>1. SUFFICES ASSUME s = {} PROVE FALSE
    OBVIOUS
  <2>2. s \cap V = {}
    BY <2>1
  <2>. QED BY <1>2, <2>1, <2>2, AfterNothing
<1>4. Ordered(s)
  BY <1>2, PartIsOrdered
<1>. DEFINE e == Latest(s)
            r == s \ {e}
<1>5. e \in s /\ \A f \in s : f.at <= e.at
  BY <1>3, <1>4, LatestIsThere
<1>. HIDE DEF e
<1>6. e \notin r /\ r \cup {e} = s /\ \A f \in r : f.at <= e.at
  BY <1>5
<1>7. Shaped(After(base, r)) /\ After(base, r) = After(base, r \cap V)
  <2>1. r \in SUBSET W /\ r \subseteq s /\ r # s
    BY <1>2, <1>5
  <2>2. r \notin failing
    <3>. HIDE DEF failing, r
    <3>. QED BY <1>2, <2>1
  <2>. QED BY <2>1, <2>2
<1>. HIDE DEF r
<1>8. After(base, s) = Apply(After(base, r), e)
  BY <1>4, <1>6, AfterMore
<1>9. CASE e \in V
  <2>. DEFINE q == r \cap V
  <2>1. q \cup {e} = s \cap V /\ e \notin q /\ \A f \in q : f.at <= e.at
    BY <1>6, <1>9
  <2>2. s \cap V \in SUBSET s
    OBVIOUS
  <2>3. Ordered(s \cap V)
    BY <1>4, <2>2, PartIsOrdered
  <2>4. After(base, s \cap V) = Apply(After(base, q), e)
    <3>. HIDE DEF q
    <3>. QED BY <2>1, <2>3, AfterMore
  <2>. QED BY <1>2, <1>7, <1>8, <2>4, ApplyShaped
<1>10. CASE e \notin V
  <2>1. s \cap V = r \cap V
    BY <1>6, <1>10
  <2>2. e.type \notin Synchronizable
    BY <1>2, <1>5, <1>10
  <2>. QED BY <1>2, <1>7, <1>8, <2>1, <2>2, ApplyShaped
<1>. QED BY <1>9, <1>10

\* A list of events is replayed when its first event is an issuance, no event
\* is refused, and there are not too many answers.
LEMMA ReplaysWhen ==
  ASSUME NEW S, Ordered(S), S # {}
  PROVE  Replays(S) <=> /\ First(S).type = "Issued"
                        /\ Reduce(S).error = "none"
                        /\ ~(ToPersist(S) < 0)
<1>. DEFINE c == Reduce(S)
            R == S \ {First(S)}
<1>1. First(S) \in S /\ \A f \in S : First(S).at <= f.at
  BY LatestIsThere
<1>2. (\E e \in S : e.type = "Issued" /\ \A f \in S : e.at <= f.at) <=> First(S).type = "Issued"
  <2>1. ASSUME NEW e \in S, e.type = "Issued", \A f \in S : e.at <= f.at
        PROVE  First(S).type = "Issued"
    BY <2>1, LatestIs
  <2>. QED BY <1>1, <2>1
<1>3. Shaped(c)
  <2>1. Shaped(CreateCertificate(First(S)))
    BY DEF CreateCertificate, Shaped
  <2>2. R \in SUBSET S /\ \A e \in R \ R : e.type \notin Synchronizable
    OBVIOUS
  <2>3. Ordered(R)
    BY <2>2, PartIsOrdered
  <2>4. Shaped(After(CreateCertificate(First(S)), R))
    <3>. HIDE DEF R
    <3>. QED BY <2>1, <2>2, <2>3, AnswersReplayNothing
  <2>. QED BY <2>4, ReduceIsReplay
<1>4. First(S).type = "Issued" =>
        FromEvents(S) = IF c.error = "none" /\ ToPersist(S) < 0
                        THEN Thrown("CertificateTooManyPersisted")
                        ELSE [c EXCEPT !.isSynced = (ToPersist(S) = 0)]
  BY DEF FromEvents
<1>. HIDE DEF c
<1>5. \A b : [c EXCEPT !.isSynced = b].error = c.error
  BY <1>3 DEF Shaped
<1>6. Thrown("CertificateTooManyPersisted").error # "none"
  BY DEF Thrown
<1>7. First(S).type = "Issued" =>
        (FromEvents(S).error = "none" <=> c.error = "none" /\ ~(ToPersist(S) < 0))
  <2>1. CASE c.error = "none" /\ ToPersist(S) < 0
    BY <1>4, <1>6, <2>1
  <2>2. CASE ~(c.error = "none" /\ ToPersist(S) < 0)
    BY <1>4, <1>5, <2>2
  <2>. QED BY <2>1, <2>2
<1>. QED BY <1>2, <1>7 DEF Replays, c

\* Answers among the events of a list that is replayed change nothing, unless
\* they are too many.
LEMMA AnswersKeepReplay ==
  ASSUME NEW W, Ordered(W), NEW V \in SUBSET W, Replays(V),
         \A e \in W \ V : e.type \notin Synchronizable,
         \E e \in V : \A f \in W : e.at <= f.at,
         ~(ToPersist(W) < 0)
  PROVE  Replays(W)
<1>1. V # {} /\ W # {} /\ Ordered(V)
  BY PartIsOrdered
<1>2. First(V) \in V /\ First(V) = First(W)
  <2>1. PICK e \in V : \A f \in W : e.at <= f.at
    OBVIOUS
  <2>2. First(V) = e
    BY <1>1, <2>1, LatestIs
  <2>3. First(W) = e
    BY <2>1, LatestIs
  <2>. QED BY <2>2, <2>3
<1>3. Reduce(W) = Reduce(V)
  <2>. DEFINE R == W \ {First(W)}
              Q == V \ {First(V)}
  <2>1. Shaped(CreateCertificate(First(W)))
    BY DEF CreateCertificate, Shaped
  <2>2. Q \in SUBSET R /\ R \in SUBSET W /\ \A e \in R \ Q : e.type \notin Synchronizable
    BY <1>2
  <2>3. Ordered(R)
    BY <2>2, PartIsOrdered
  <2>4. After(CreateCertificate(First(W)), R) = After(CreateCertificate(First(W)), Q)
    <3>. HIDE DEF R, Q
    <3>. QED BY <2>1, <2>2, <2>3, AnswersReplayNothing
  <2>. QED BY <1>2, <2>4, ReduceIsReplay
<1>. QED BY <1>1, <1>2, <1>3, ReplaysWhen

-----------------------------------------------------------------------------
(* Balances *)

Balances == {b \in UNION {[A -> Nat] : A \in SUBSET Addresses} : IsFiniteSet(DOMAIN b)}
Errors == {"none", "CertificateAlreadyIssued", "ValidationFailed"}
Certificates == [owners: Balances, claimers: Balances, isSynced: BOOLEAN, error: Errors]

\* No balance at all, and one balance more or another one.
LEMMA NoBalance == <<>> \in Balances /\ DOMAIN <<>> = {} /\ Total(<<>>, {}) = 0
<1>1. <<>> \in [{} -> Nat] /\ DOMAIN <<>> = {}
  OBVIOUS
<1>2. IsFiniteSet({})
  BY FS_EmptySet
<1>. QED BY <1>1, <1>2, TotalAt DEF Balances

LEMMA BalanceRead ==
  ASSUME NEW b, NEW a, NEW v, NEW c
  PROVE  BalanceOf(WithBalance(b, a, v), c) = IF c = a THEN v ELSE BalanceOf(b, c)
BY DEF BalanceOf, WithBalance

LEMMA BalanceWritten ==
  ASSUME NEW b \in Balances, NEW a \in Addresses, NEW v \in Nat
  PROVE  /\ WithBalance(b, a, v) \in Balances
         /\ BalanceOf(b, a) \in Nat
         /\ Total(b, DOMAIN b) \in Int
         /\ Total(WithBalance(b, a, v), DOMAIN WithBalance(b, a, v))
              = Total(b, DOMAIN b) - BalanceOf(b, a) + v
<1>. DEFINE w == WithBalance(b, a, v)
            D == DOMAIN b
<1>1. PICK A \in SUBSET Addresses : b \in [A -> Nat]
  BY DEF Balances
<1>2. D = A /\ IsFiniteSet(D)
  BY <1>1 DEF Balances
<1>3. DOMAIN w = D \cup {a} /\ IsFiniteSet(D \cup {a}) /\ IsFiniteSet(D \ {a})
  BY <1>2, FS_AddElement, FS_RemoveElement DEF WithBalance
<1>4. w \in [D \cup {a} -> Nat] /\ D \cup {a} \in SUBSET Addresses
  BY <1>1, <1>2 DEF WithBalance
<1>5. w \in Balances
  BY <1>3, <1>4 DEF Balances
<1>6. BalanceOf(b, a) \in Nat
  BY <1>1, <1>2 DEF BalanceOf
<1>8. (\A x \in D \ {a} : w[x] = b[x]) /\ w[a] = v
  BY DEF WithBalance
<1>9. (\A x \in D : b[x] \in Int) /\ (\A x \in D \cup {a} : w[x] \in Int)
  BY <1>1, <1>2, <1>4
<1>10. Total(w, D \ {a}) = Total(b, D \ {a}) /\ Total(b, D \ {a}) \in Int /\ Total(b, D) \in Int
  <2>. HIDE DEF w, D
  <2>. QED BY <1>2, <1>3, <1>8, <1>9, TotalSame, TotalInt
<1>11. Total(w, D \cup {a}) = v + Total(w, D \ {a})
  <2>1. (D \cup {a}) \ {a} = D \ {a} /\ a \in D \cup {a}
    OBVIOUS
  <2>. HIDE DEF w, D
  <2>. QED BY <1>3, <1>8, <1>9, <2>1, TotalTakes
<1>12. Total(b, D) = BalanceOf(b, a) + Total(b, D \ {a})
  <2>1. CASE a \in D
    <3>1. Total(b, D) = b[a] + Total(b, D \ {a})
      <4>. HIDE DEF w, D
      <4>. QED BY <1>2, <1>9, <2>1, TotalTakes
    <3>. QED BY <2>1, <3>1 DEF BalanceOf
  <2>2. CASE a \notin D
    <3>1. D \ {a} = D /\ BalanceOf(b, a) = 0
      BY <2>2 DEF BalanceOf
    <3>. HIDE DEF D
    <3>. QED BY <1>10, <3>1
  <2>. QED BY <2>1, <2>2
<1>13. Total(w, DOMAIN w) = Total(b, D) - BalanceOf(b, a) + v
  <2>. DEFINE rest == Total(b, D \ {a})
  <2>1. rest \in Int /\ Total(w, DOMAIN w) = v + rest /\ Total(b, D) = BalanceOf(b, a) + rest
    BY <1>3, <1>10, <1>11, <1>12
  <2>. HIDE DEF rest, w, D
  <2>. QED BY <1>6, <2>1
<1>. QED BY <1>5, <1>6, <1>10, <1>13

-----------------------------------------------------------------------------
(* One event applied *)

\* A transfer: the receiver's balance is written last.
LEMMA TransferApplied ==
  ASSUME NEW c \in Certificates, NEW m, m.from \in Addresses, m.to \in Addresses,
         m.volume \in Nat, TransferIsValid(c, m)
  PROVE  LET d == Transfer(c, m)
         IN  /\ d \in Certificates /\ d.error = c.error /\ d.claimers = c.claimers
             /\ \A a : BalanceOf(d.owners, a) =
                         IF a = m.to THEN BalanceOf(c.owners, a) + m.volume
                         ELSE IF a = m.from THEN BalanceOf(c.owners, a) - m.volume
                         ELSE BalanceOf(c.owners, a)
             /\ Total(c.owners, DOMAIN c.owners) \in Int
             /\ Total(d.owners, DOMAIN d.owners) = Total(c.owners, DOMAIN c.owners)
                                                  + IF m.from = m.to THEN m.volume ELSE 0
<1>. DEFINE from == m.from
            to == m.to
            v == m.volume
            newFrom == BalanceOf(c.owners, from) - v
            newTo == BalanceOf(c.owners, to) + v
            w == WithBalance(c.owners, from, newFrom)
            x == WithBalance(w, to, newTo)
            d == Transfer(c, m)
<1>1. c.owners \in Balances /\ v \in Nat /\ from \in Addresses /\ to \in Addresses
  BY DEF Certificates
<1>2. BalanceOf(c.owners, from) >= v
  BY DEF TransferIsValid, HasEnoughBalance, BalanceOf
<1>3. BalanceOf(c.owners, from) \in Nat /\ BalanceOf(c.owners, to) \in Nat
  BY <1>1, BalanceWritten
<1>4. newFrom \in Nat /\ newTo \in Nat
  <2>. DEFINE p == BalanceOf(c.owners, from)
              q == BalanceOf(c.owners, to)
  <2>1. p \in Nat /\ q \in Nat /\ v \in Nat /\ p >= v
    BY <1>1, <1>2, <1>3
  <2>. HIDE DEF p, q, v
  <2>2. p - v \in Nat /\ q + v \in Nat
    BY <2>1
  <2>. QED BY <2>2 DEF p, q
<1>5. /\ w \in Balances /\ Total(c.owners, DOMAIN c.owners) \in Int
      /\ Total(w, DOMAIN w) = Total(c.owners, DOMAIN c.owners) - BalanceOf(c.owners, from) + newFrom
  <2>. HIDE DEF newFrom, from
  <2>. QED BY <1>1, <1>4, BalanceWritten
<1>6. /\ x \in Balances
      /\ Total(x, DOMAIN x) = Total(w, DOMAIN w) - BalanceOf(w, to) + newTo
  <2>. HIDE DEF newTo, to, w
  <2>. QED BY <1>1, <1>4, <1>5, BalanceWritten
<1>6a. \A a : /\ BalanceOf(w, a) = IF a = from THEN newFrom ELSE BalanceOf(c.owners, a)
              /\ BalanceOf(x, a) = IF a = to THEN newTo ELSE BalanceOf(w, a)
  BY BalanceRead
<1>7. d = [c EXCEPT !.owners = x]
  BY DEF Transfer
<1>8. d \in Certificates /\ d.error = c.error /\ d.claimers = c.claimers /\ d.owners = x
  <2>. HIDE DEF x, d
  <2>. QED BY <1>6, <1>7 DEF Certificates
<1>9. \A a : BalanceOf(x, a) = IF a = to THEN BalanceOf(c.owners, a) + v
                               ELSE IF a = from THEN BalanceOf(c.owners, a) - v
                               ELSE BalanceOf(c.owners, a)
  <2>. HIDE DEF w, x
  <2>. QED BY <1>6a
<1>10. Total(x, DOMAIN x) = Total(c.owners, DOMAIN c.owners) + IF from = to THEN v ELSE 0
  <2>. DEFINE t == Total(c.owners, DOMAIN c.owners)
              p == BalanceOf(c.owners, from)
              q == BalanceOf(c.owners, to)
  <2>1. t \in Int /\ p \in Nat /\ q \in Nat /\ v \in Nat
    BY <1>1, <1>3, <1>5
  <2>2. Total(w, DOMAIN w) = t - p + (p - v)
    BY <1>5
  <2>3. Total(x, DOMAIN x) = Total(w, DOMAIN w) - (IF to = from THEN p - v ELSE q) + (q + v)
    BY <1>6, <1>6a
  <2>4. from = to => p = q
    OBVIOUS
  <2>. HIDE DEF t, p, q, v, w, x, from, to
  <2>5. Total(x, DOMAIN x) = t + IF from = to THEN v ELSE 0
    <3>1. CASE from = to
      BY <2>1, <2>2, <2>3, <2>4, <3>1
    <3>2. CASE from # to
      BY <2>1, <2>2, <2>3, <3>2
    <3>. QED BY <3>1, <3>2
  <2>. QED BY <2>5 DEF t
<1>. QED BY <1>5, <1>8, <1>9, <1>10

\* A claim: what leaves the owner's balance enters the claimed one.
LEMMA ClaimApplied ==
  ASSUME NEW c \in Certificates, NEW m, m.from \in Addresses, m.volume \in Nat,
         ClaimIsValid(c, m)
  PROVE  LET d == Claim(c, m)
         IN  /\ d \in Certificates /\ d.error = c.error
             /\ \A a : /\ BalanceOf(d.owners, a) =
                            IF a = m.from THEN BalanceOf(c.owners, a) - m.volume
                            ELSE BalanceOf(c.owners, a)
                       /\ BalanceOf(d.claimers, a) =
                            IF a = m.from THEN BalanceOf(c.claimers, a) + m.volume
                            ELSE BalanceOf(c.claimers, a)
             /\ Total(d.owners, DOMAIN d.owners) + Total(d.claimers, DOMAIN d.claimers)
                  = Total(c.owners, DOMAIN c.owners) + Total(c.claimers, DOMAIN c.claimers)
<1>. DEFINE from == m.from
            v == m.volume
            p == BalanceOf(c.owners, from)
            q == BalanceOf(c.claimers, from)
            w == WithBalance(c.owners, from, p - v)
            x == WithBalance(c.claimers, from, q + v)
            d == Claim(c, m)
<1>1. c.owners \in Balances /\ c.claimers \in Balances /\ v \in Nat /\ from \in Addresses
  BY DEF Certificates
<1>2. p >= v /\ c.owners[from] = p
  BY DEF ClaimIsValid, HasEnoughBalance, BalanceOf
<1>3. p \in Nat /\ q \in Nat
  BY <1>1, BalanceWritten
<1>4. p - v \in Nat /\ q + v \in Nat
  <2>. HIDE DEF p, q, v
  <2>. QED BY <1>1, <1>2, <1>3
<1>5. /\ w \in Balances /\ Total(c.owners, DOMAIN c.owners) \in Int
      /\ Total(w, DOMAIN w) = Total(c.owners, DOMAIN c.owners) - BalanceOf(c.owners, from) + (p - v)
  <2>. HIDE DEF p, v, from
  <2>. QED BY <1>1, <1>4, BalanceWritten
<1>6. /\ x \in Balances /\ Total(c.claimers, DOMAIN c.claimers) \in Int
      /\ Total(x, DOMAIN x) = Total(c.claimers, DOMAIN c.claimers) - BalanceOf(c.claimers, from) + (q + v)
  <2>. HIDE DEF q, v, from
  <2>. QED BY <1>1, <1>4, BalanceWritten
<1>7. d = [c EXCEPT !.owners = w, !.claimers = x]
  BY <1>2 DEF Claim
<1>8. d \in Certificates /\ d.error = c.error /\ d.owners = w /\ d.claimers = x
  <2>. HIDE DEF w, x, d
  <2>. QED BY <1>5, <1>6, <1>7 DEF Certificates
<1>9. \A a : /\ BalanceOf(w, a) = IF a = from THEN BalanceOf(c.owners, a) - v
                                  ELSE BalanceOf(c.owners, a)
             /\ BalanceOf(x, a) = IF a = from THEN BalanceOf(c.claimers, a) + v
                                  ELSE BalanceOf(c.claimers, a)
  BY BalanceRead
<1>10. Total(w, DOMAIN w) + Total(x, DOMAIN x)
         = Total(c.owners, DOMAIN c.owners) + Total(c.claimers, DOMAIN c.claimers)
  <2>. DEFINE t == Total(c.owners, DOMAIN c.owners)
              u == Total(c.claimers, DOMAIN c.claimers)
  <2>1. t \in Int /\ u \in Int /\ p \in Nat /\ q \in Nat /\ v \in Nat
    BY <1>1, <1>3, <1>5, <1>6
  <2>2. Total(w, DOMAIN w) = t - p + (p - v) /\ Total(x, DOMAIN x) = u - q + (q + v)
    BY <1>5, <1>6
  <2>. HIDE DEF t, u, p, q, v, w, x
  <2>3. Total(w, DOMAIN w) + Total(x, DOMAIN x) = t + u
    BY <2>1, <2>2
  <2>. QED BY <2>3 DEF t, u
<1>. QED BY <1>8, <1>9, <1>10

-----------------------------------------------------------------------------
(* The balance sheet *)

\* What events stand for: movements over the accounts, and answers to them.
Sensible(S) ==
  \A e \in S :
    /\ e.type \in EventTypes
    /\ e.type \in Synchronizable =>
         /\ e.payload.from \in Addresses /\ e.payload.to \in Addresses
         /\ e.payload.volume \in Nat
         /\ e.type = "Claimed" => e.payload.from = e.payload.to

VolumeOf(S) == Total([e \in S |-> e.payload.volume], S)

MovementsTo(S, a)   == {e \in S : e.type \in Synchronizable /\ e.type # "Claimed" /\ e.payload.to = a}
MovementsFrom(S, a) == {e \in S : e.type \in Synchronizable
                                  /\ (e.type = "Transferred" /\ e.payload.from = a /\ e.payload.to # a)}
ClaimsOf(S, a)      == {e \in S : e.type \in Synchronizable /\ e.type = "Claimed" /\ e.payload.from = a}
ToThemselves(S)     == {e \in S : e.type \in Synchronizable
                                  /\ (e.type = "Transferred" /\ e.payload.from = e.payload.to)}
Issuances(S)        == {e \in S : e.type \in Synchronizable /\ e.type = "Issued"}

\* The sums of the model are over these sets.
LEMMA SheetSets ==
  ASSUME IsFiniteSet(events)
  PROVE  /\ \A a : /\ Received(a) = VolumeOf(MovementsTo(events, a))
                   /\ Sent(a) = VolumeOf(MovementsFrom(events, a))
                   /\ Claimed(a) = VolumeOf(ClaimsOf(events, a))
         /\ SentToSelf = VolumeOf(ToThemselves(events))
         /\ IssuedTotal = VolumeOf(Issuances(events))
<1>1. \A S : IsFiniteSet(S) =>
        MapThenSumSet(LAMBDA e : e.payload.volume, S) = VolumeOf(S)
  BY SumsAreTotals DEF VolumeOf
<1>2. \A T \in SUBSET events : IsFiniteSet(T)
  BY FS_Subset
<1>3. ASSUME NEW a
      PROVE  /\ Received(a) = VolumeOf(MovementsTo(events, a))
             /\ Sent(a) = VolumeOf(MovementsFrom(events, a))
             /\ Claimed(a) = VolumeOf(ClaimsOf(events, a))
  <2>1. /\ IsFiniteSet(MovementsTo(events, a)) /\ IsFiniteSet(MovementsFrom(events, a))
        /\ IsFiniteSet(ClaimsOf(events, a))
    BY <1>2 DEF MovementsTo, MovementsFrom, ClaimsOf
  <2>. QED BY <1>1, <2>1 DEF Received, Sent, Claimed, Volume, MovementsTo, MovementsFrom, ClaimsOf
<1>4. IsFiniteSet(ToThemselves(events)) /\ IsFiniteSet(Issuances(events))
  BY <1>2 DEF ToThemselves, Issuances
<1>5. SentToSelf = VolumeOf(ToThemselves(events)) /\ IssuedTotal = VolumeOf(Issuances(events))
  BY <1>1, <1>4 DEF SentToSelf, IssuedTotal, Volume, ToThemselves, Issuances
<1>. QED BY <1>3, <1>5

\* A set that gets one event more, or does not.
LEMMA VolumeGrows ==
  ASSUME NEW S, IsFiniteSet(S), \A x \in S : x.payload.volume \in Nat,
         NEW e, e \notin S, NEW T,
         T = S \/ (T = S \cup {e} /\ e.payload.volume \in Nat)
  PROVE  /\ VolumeOf(S) \in Int
         /\ VolumeOf(T) = VolumeOf(S) + IF T = S THEN 0 ELSE e.payload.volume
<1>. DEFINE v == [x \in S |-> x.payload.volume]
            w == [x \in S \cup {e} |-> x.payload.volume]
<1>1. VolumeOf(S) \in Int
  <2>1. \A x \in S : v[x] \in Int
    OBVIOUS
  <2>. HIDE DEF v
  <2>2. Total(v, S) \in Int
    BY <2>1, TotalInt
  <2>. QED BY <2>2 DEF VolumeOf, v
<1>2. CASE T = S
  BY <1>1, <1>2
<1>3. CASE T = S \cup {e} /\ e.payload.volume \in Nat
  <2>1. T # S
    BY <1>3
  <2>2. (\A x \in S : w[x] = v[x]) /\ w[e] = e.payload.volume /\ \A x \in S \cup {e} : w[x] \in Int
    BY <1>3
  <2>. HIDE DEF v, w
  <2>3. Total(w, S \cup {e}) = Total(w, S) + w[e]
    BY <2>2, TotalAdds
  <2>4. Total(w, S) = Total(v, S)
    BY <2>2, TotalSame
  <2>5. VolumeOf(T) = Total(w, S \cup {e}) /\ VolumeOf(S) = Total(v, S)
    BY <1>3 DEF VolumeOf, v, w
  <2>. QED BY <1>1, <2>1, <2>2, <2>3, <2>4, <2>5
<1>. QED BY <1>2, <1>3

\* What the sheet gains with an event.
LEMMA SheetGrows ==
  ASSUME NEW S, IsFiniteSet(S), Sensible(S), NEW e, e \notin S, Sensible({e})
  PROVE  LET T == S \cup {e}
             v == e.payload.volume
         IN  /\ \A a : /\ VolumeOf(MovementsTo(S, a)) \in Int
                       /\ VolumeOf(MovementsFrom(S, a)) \in Int
                       /\ VolumeOf(ClaimsOf(S, a)) \in Int
                       /\ VolumeOf(MovementsTo(T, a)) = VolumeOf(MovementsTo(S, a))
                            + IF e.type \in {"Issued", "Transferred"} /\ e.payload.to = a THEN v ELSE 0
                       /\ VolumeOf(MovementsFrom(T, a)) = VolumeOf(MovementsFrom(S, a))
                            + IF e.type = "Transferred" /\ e.payload.from = a /\ e.payload.to # a
                              THEN v ELSE 0
                       /\ VolumeOf(ClaimsOf(T, a)) = VolumeOf(ClaimsOf(S, a))
                            + IF e.type = "Claimed" /\ e.payload.from = a THEN v ELSE 0
             /\ VolumeOf(ToThemselves(S)) \in Int
             /\ VolumeOf(Issuances(S)) \in Int
             /\ VolumeOf(ToThemselves(T)) = VolumeOf(ToThemselves(S))
                  + IF e.type = "Transferred" /\ e.payload.from = e.payload.to THEN v ELSE 0
             /\ VolumeOf(Issuances(T)) = VolumeOf(Issuances(S)) + IF e.type = "Issued" THEN v ELSE 0
<1>. DEFINE T == S \cup {e}
            v == e.payload.volume
<1>1. ASSUME NEW A, A \subseteq {x \in S : x.type \in Synchronizable}, NEW B,
             NEW p \in BOOLEAN, p => e.type \in Synchronizable,
             B = IF p THEN A \cup {e} ELSE A
      PROVE  VolumeOf(A) \in Int /\ VolumeOf(B) = VolumeOf(A) + IF p THEN v ELSE 0
  <2>1. IsFiniteSet(A) /\ e \notin A /\ \A x \in A : x.payload.volume \in Nat
    <3>1. A \in SUBSET S
      BY <1>1
    <3>2. IsFiniteSet(A)
      BY <3>1, FS_Subset
    <3>. QED BY <1>1, <3>1, <3>2 DEF Sensible
  <2>2. p => e.payload.volume \in Nat
    BY <1>1 DEF Sensible
  <2>3. B = A \/ (B = A \cup {e} /\ e.payload.volume \in Nat)
    BY <1>1, <2>2
  <2>4. VolumeOf(A) \in Int /\ VolumeOf(B) = VolumeOf(A) + IF B = A THEN 0 ELSE e.payload.volume
    BY <2>1, <2>3, VolumeGrows
  <2>5. B = A <=> ~p
    BY <1>1, <2>1
  <2>. QED BY <2>4, <2>5
<1>2. Synchronizable = {"Issued", "Transferred", "Claimed"}
  BY DEF Synchronizable
<1>3. ASSUME NEW a
      PROVE  /\ VolumeOf(MovementsTo(S, a)) \in Int
             /\ VolumeOf(MovementsFrom(S, a)) \in Int
             /\ VolumeOf(ClaimsOf(S, a)) \in Int
             /\ VolumeOf(MovementsTo(T, a)) = VolumeOf(MovementsTo(S, a))
                  + IF e.type \in {"Issued", "Transferred"} /\ e.payload.to = a THEN v ELSE 0
             /\ VolumeOf(MovementsFrom(T, a)) = VolumeOf(MovementsFrom(S, a))
                  + IF e.type = "Transferred" /\ e.payload.from = a /\ e.payload.to # a
                    THEN v ELSE 0
             /\ VolumeOf(ClaimsOf(T, a)) = VolumeOf(ClaimsOf(S, a))
                  + IF e.type = "Claimed" /\ e.payload.from = a THEN v ELSE 0
  <2>1. MovementsTo(T, a) = IF e.type \in {"Issued", "Transferred"} /\ e.payload.to = a
                            THEN MovementsTo(S, a) \cup {e} ELSE MovementsTo(S, a)
    BY <1>2 DEF MovementsTo
  <2>2. MovementsFrom(T, a) = IF e.type = "Transferred" /\ e.payload.from = a /\ e.payload.to # a
                              THEN MovementsFrom(S, a) \cup {e} ELSE MovementsFrom(S, a)
    BY <1>2 DEF MovementsFrom
  <2>3. ClaimsOf(T, a) = IF e.type = "Claimed" /\ e.payload.from = a
                         THEN ClaimsOf(S, a) \cup {e} ELSE ClaimsOf(S, a)
    BY <1>2 DEF ClaimsOf
  <2>4. /\ MovementsTo(S, a) \subseteq {x \in S : x.type \in Synchronizable}
        /\ MovementsFrom(S, a) \subseteq {x \in S : x.type \in Synchronizable}
        /\ ClaimsOf(S, a) \subseteq {x \in S : x.type \in Synchronizable}
    BY DEF MovementsTo, MovementsFrom, ClaimsOf
  <2>. HIDE DEF T, v
  <2>5. /\ VolumeOf(MovementsTo(S, a)) \in Int
        /\ VolumeOf(MovementsTo(T, a)) = VolumeOf(MovementsTo(S, a))
             + IF e.type \in {"Issued", "Transferred"} /\ e.payload.to = a THEN v ELSE 0
    BY <1>1, <1>2, <2>1, <2>4
  <2>6. /\ VolumeOf(MovementsFrom(S, a)) \in Int
        /\ VolumeOf(MovementsFrom(T, a)) = VolumeOf(MovementsFrom(S, a))
             + IF e.type = "Transferred" /\ e.payload.from = a /\ e.payload.to # a THEN v ELSE 0
    BY <1>1, <1>2, <2>2, <2>4
  <2>7. /\ VolumeOf(ClaimsOf(S, a)) \in Int
        /\ VolumeOf(ClaimsOf(T, a)) = VolumeOf(ClaimsOf(S, a))
             + IF e.type = "Claimed" /\ e.payload.from = a THEN v ELSE 0
    BY <1>1, <1>2, <2>3, <2>4
  <2>. QED BY <2>5, <2>6, <2>7
<1>4. /\ VolumeOf(ToThemselves(S)) \in Int
      /\ VolumeOf(ToThemselves(T)) = VolumeOf(ToThemselves(S))
           + IF e.type = "Transferred" /\ e.payload.from = e.payload.to THEN v ELSE 0
  <2>1. ToThemselves(T) = IF e.type = "Transferred" /\ e.payload.from = e.payload.to
                          THEN ToThemselves(S) \cup {e} ELSE ToThemselves(S)
    BY <1>2 DEF ToThemselves
  <2>2. ToThemselves(S) \subseteq {x \in S : x.type \in Synchronizable}
    BY DEF ToThemselves
  <2>. HIDE DEF T, v
  <2>. QED BY <1>1, <1>2, <2>1, <2>2
<1>5. /\ VolumeOf(Issuances(S)) \in Int
      /\ VolumeOf(Issuances(T)) = VolumeOf(Issuances(S)) + IF e.type = "Issued" THEN v ELSE 0
  <2>1. Issuances(T) = IF e.type = "Issued" THEN Issuances(S) \cup {e} ELSE Issuances(S)
    BY <1>2 DEF Issuances
  <2>2. Issuances(S) \subseteq {x \in S : x.type \in Synchronizable}
    BY DEF Issuances
  <2>. HIDE DEF T, v
  <2>. QED BY <1>1, <1>2, <2>1, <2>2
<1>. QED BY <1>3, <1>4, <1>5

\* A certificate says of its accounts what the events say.
Balanced(c, S) ==
  c.error = "none" =>
    /\ \A a \in Addresses :
         /\ BalanceOf(c.owners, a) = VolumeOf(MovementsTo(S, a)) - VolumeOf(MovementsFrom(S, a))
                                       - VolumeOf(ClaimsOf(S, a))
         /\ BalanceOf(c.claimers, a) = VolumeOf(ClaimsOf(S, a))
    /\ Total(c.owners, DOMAIN c.owners) + Total(c.claimers, DOMAIN c.claimers)
         = VolumeOf(Issuances(S)) + VolumeOf(ToThemselves(S))

\* The first event.
LEMMA FirstBalanced ==
  ASSUME NEW e, e.type = "Issued", Sensible({e})
  PROVE  CreateCertificate(e) \in Certificates /\ Balanced(CreateCertificate(e), {e})
<1>. DEFINE to == e.payload.to
            v == e.payload.volume
            b == WithBalance(<<>>, to, v)
            c == CreateCertificate(e)
<1>1. e.type \in Synchronizable /\ to \in Addresses /\ v \in Nat
  BY DEF Sensible, Synchronizable
<1>2. /\ b \in Balances
      /\ Total(b, DOMAIN b) = Total(<<>>, DOMAIN <<>>) - BalanceOf(<<>>, to) + v
      /\ \A a : BalanceOf(b, a) = IF a = to THEN v ELSE BalanceOf(<<>>, a)
  <2>. HIDE DEF to, v
  <2>. QED BY <1>1, NoBalance, BalanceWritten, BalanceRead
<1>3. (\A a : BalanceOf(<<>>, a) = 0) /\ Total(<<>>, DOMAIN <<>>) = 0
  BY NoBalance DEF BalanceOf
<1>4. c = [owners |-> b, claimers |-> <<>>, isSynced |-> FALSE, error |-> "none"]
  BY DEF CreateCertificate
<1>5. c \in Certificates /\ c.owners = b /\ c.claimers = <<>>
  <2>1. b \in Balances /\ <<>> \in Balances
    BY <1>2, NoBalance
  <2>. HIDE DEF b
  <2>2. \A k \in Balances :
          LET d == [owners |-> b, claimers |-> k, isSynced |-> FALSE, error |-> "none"]
          IN  d \in Certificates /\ d.owners = b /\ d.claimers = k
    BY <2>1 DEF Certificates, Errors
  <2>. QED BY <1>4, <2>1, <2>2
<1>6. VolumeOf({}) = 0
  BY FS_EmptySet, TotalAt DEF VolumeOf
<1>7. /\ \A a : MovementsTo({}, a) = {} /\ MovementsFrom({}, a) = {} /\ ClaimsOf({}, a) = {}
      /\ ToThemselves({}) = {} /\ Issuances({}) = {}
  BY DEF MovementsTo, MovementsFrom, ClaimsOf, ToThemselves, Issuances
<1>8. IsFiniteSet({}) /\ Sensible({}) /\ e \notin {} /\ {} \cup {e} = {e}
  BY FS_EmptySet DEF Sensible
<1>9. /\ \A a : /\ VolumeOf(MovementsTo({e}, a)) = 0 + IF to = a THEN v ELSE 0
                /\ VolumeOf(MovementsFrom({e}, a)) = 0 + 0
                /\ VolumeOf(ClaimsOf({e}, a)) = 0 + 0
      /\ VolumeOf(ToThemselves({e})) = 0 + 0
      /\ VolumeOf(Issuances({e})) = 0 + v
  <2>1. LET T == {} \cup {e}
             u == e.payload.volume
         IN  /\ \A a : /\ VolumeOf(MovementsTo({}, a)) \in Int
                       /\ VolumeOf(MovementsFrom({}, a)) \in Int
                       /\ VolumeOf(ClaimsOf({}, a)) \in Int
                       /\ VolumeOf(MovementsTo(T, a)) = VolumeOf(MovementsTo({}, a))
                            + IF e.type \in {"Issued", "Transferred"} /\ e.payload.to = a THEN u ELSE 0
                       /\ VolumeOf(MovementsFrom(T, a)) = VolumeOf(MovementsFrom({}, a))
                            + IF e.type = "Transferred" /\ e.payload.from = a /\ e.payload.to # a
                              THEN u ELSE 0
                       /\ VolumeOf(ClaimsOf(T, a)) = VolumeOf(ClaimsOf({}, a))
                            + IF e.type = "Claimed" /\ e.payload.from = a THEN u ELSE 0
             /\ VolumeOf(ToThemselves({})) \in Int
             /\ VolumeOf(Issuances({})) \in Int
             /\ VolumeOf(ToThemselves(T)) = VolumeOf(ToThemselves({}))
                  + IF e.type = "Transferred" /\ e.payload.from = e.payload.to THEN u ELSE 0
             /\ VolumeOf(Issuances(T)) = VolumeOf(Issuances({})) + IF e.type = "Issued" THEN u ELSE 0
    BY <1>8, SheetGrows
  <2>. QED BY <1>6, <1>7, <1>8, <2>1
<1>10. Balanced(c, {e})
  <2>1. ASSUME NEW a \in Addresses
        PROVE  /\ BalanceOf(b, a) = VolumeOf(MovementsTo({e}, a))
                                       - VolumeOf(MovementsFrom({e}, a)) - VolumeOf(ClaimsOf({e}, a))
               /\ BalanceOf(<<>>, a) = VolumeOf(ClaimsOf({e}, a))
    <3>1. BalanceOf(b, a) = (IF a = to THEN v ELSE 0) /\ BalanceOf(<<>>, a) = 0
      BY <1>2, <1>3
    <3>2. /\ VolumeOf(MovementsTo({e}, a)) = 0 + (IF to = a THEN v ELSE 0)
          /\ VolumeOf(MovementsFrom({e}, a)) = 0 /\ VolumeOf(ClaimsOf({e}, a)) = 0
      BY <1>9
    <3>. HIDE DEF b, v, to
    <3>. QED BY <1>1, <3>1, <3>2
  <2>2. Total(b, DOMAIN b) + Total(<<>>, DOMAIN <<>>)
          = VolumeOf(Issuances({e})) + VolumeOf(ToThemselves({e}))
    <3>1. BalanceOf(<<>>, to) = 0
      BY <1>3
    <3>2. Total(b, DOMAIN b) = 0 - 0 + v
      <4>. HIDE DEF b, v, to
      <4>. QED BY <1>2, <1>3, <3>1
    <3>. HIDE DEF b, v, to
    <3>. QED BY <1>1, <1>3, <1>9, <3>2
  <2>. HIDE DEF b, c
  <2>. QED BY <1>5, <2>1, <2>2 DEF Balanced
<1>. QED BY <1>5, <1>10

\* Every other.
LEMMA AppliedBalanced ==
  ASSUME NEW c \in Certificates, NEW S, IsFiniteSet(S), Sensible(S), Balanced(c, S),
         NEW e, e \notin S, Sensible({e})
  PROVE  Apply(c, e) \in Certificates /\ Balanced(Apply(c, e), S \cup {e})
<1>. DEFINE m == e.payload
            v == e.payload.volume
            T == S \cup {e}
<1>1. \A x : Thrown(x).error = x /\ (x \in Errors => Thrown(x) \in Certificates)
  BY NoBalance DEF Thrown, Certificates
<1>2. CASE c.error # "none"
  <2>1. Apply(c, e) = c
    BY <1>2 DEF Apply
  <2>. QED BY <1>2, <2>1 DEF Balanced
<1>3. ASSUME NEW x \in Errors \ {"none"}, Apply(c, e) = Thrown(x)
      PROVE  Apply(c, e) \in Certificates /\ Balanced(Apply(c, e), S \cup {e})
  BY <1>1, <1>3 DEF Balanced
<1>4. CASE c.error = "none" /\ e.type = "Issued"
  <2>1. Apply(c, e) = Thrown("CertificateAlreadyIssued")
    BY <1>4 DEF Apply
  <2>2. "CertificateAlreadyIssued" \in Errors \ {"none"}
    BY DEF Errors
  <2>. QED BY <1>3, <2>1, <2>2
<1>5. /\ \A a : /\ VolumeOf(MovementsTo(S, a)) \in Int
                /\ VolumeOf(MovementsFrom(S, a)) \in Int
                /\ VolumeOf(ClaimsOf(S, a)) \in Int
                /\ VolumeOf(MovementsTo(T, a)) = VolumeOf(MovementsTo(S, a))
                     + IF e.type \in {"Issued", "Transferred"} /\ e.payload.to = a THEN v ELSE 0
                /\ VolumeOf(MovementsFrom(T, a)) = VolumeOf(MovementsFrom(S, a))
                     + IF e.type = "Transferred" /\ e.payload.from = a /\ e.payload.to # a
                       THEN v ELSE 0
                /\ VolumeOf(ClaimsOf(T, a)) = VolumeOf(ClaimsOf(S, a))
                     + IF e.type = "Claimed" /\ e.payload.from = a THEN v ELSE 0
      /\ VolumeOf(ToThemselves(S)) \in Int
      /\ VolumeOf(Issuances(S)) \in Int
      /\ VolumeOf(ToThemselves(T)) = VolumeOf(ToThemselves(S))
           + IF e.type = "Transferred" /\ e.payload.from = e.payload.to THEN v ELSE 0
      /\ VolumeOf(Issuances(T)) = VolumeOf(Issuances(S)) + IF e.type = "Issued" THEN v ELSE 0
  BY SheetGrows
<1>6. e.type \in Synchronizable =>
        /\ m.from \in Addresses /\ m.to \in Addresses /\ v \in Nat
        /\ e.type = "Claimed" => m.from = m.to
  BY DEF Sensible
<1>7. c.error = "none" =>
        \A a \in Addresses :
         /\ BalanceOf(c.owners, a) = VolumeOf(MovementsTo(S, a)) - VolumeOf(MovementsFrom(S, a))
                                       - VolumeOf(ClaimsOf(S, a))
         /\ BalanceOf(c.claimers, a) = VolumeOf(ClaimsOf(S, a))
  BY DEF Balanced
<1>8. c.error = "none" =>
         Total(c.owners, DOMAIN c.owners) + Total(c.claimers, DOMAIN c.claimers)
           = VolumeOf(Issuances(S)) + VolumeOf(ToThemselves(S))
  BY DEF Balanced
<1>8a. \A a \in Addresses : BalanceOf(c.owners, a) \in Nat /\ BalanceOf(c.claimers, a) \in Nat
  <2>1. c.owners \in Balances /\ c.claimers \in Balances
    BY DEF Certificates
  <2>. QED BY <2>1, BalanceWritten
<1>8b. Addresses # {} => Total(c.owners, DOMAIN c.owners) \in Int
                         /\ Total(c.claimers, DOMAIN c.claimers) \in Int
  <2>1. c.owners \in Balances /\ c.claimers \in Balances /\ 0 \in Nat
    BY DEF Certificates
  <2>. QED BY <2>1, BalanceWritten
<1>9. CASE c.error = "none" /\ e.type = "Transferred"
  <2>1. CASE ~TransferIsValid(c, m)
    <3>1. Apply(c, e) = Thrown("ValidationFailed")
      BY <1>9, <2>1 DEF Apply
    <3>2. "ValidationFailed" \in Errors \ {"none"}
      BY DEF Errors
    <3>. QED BY <1>3, <3>1, <3>2
  <2>2. CASE TransferIsValid(c, m)
    <3>. DEFINE d == Transfer(c, m)
    <3>1. Apply(c, e) = d
      BY <1>9, <2>2 DEF Apply
    <3>2. m.from \in Addresses /\ m.to \in Addresses /\ v \in Nat
      BY <1>6, <1>9 DEF Synchronizable
    <3>3. /\ d \in Certificates /\ d.error = "none" /\ d.claimers = c.claimers
          /\ \A a : BalanceOf(d.owners, a) =
                      IF a = m.to THEN BalanceOf(c.owners, a) + v
                      ELSE IF a = m.from THEN BalanceOf(c.owners, a) - v
                      ELSE BalanceOf(c.owners, a)
          /\ Total(c.owners, DOMAIN c.owners) \in Int
          /\ Total(d.owners, DOMAIN d.owners) = Total(c.owners, DOMAIN c.owners)
                                               + IF m.from = m.to THEN v ELSE 0
      BY <1>9, <2>2, <3>2, TransferApplied
    <3>. HIDE DEF d, v, m, T
    <3>4. ASSUME NEW a \in Addresses
          PROVE  /\ BalanceOf(d.owners, a) = VolumeOf(MovementsTo(T, a))
                      - VolumeOf(MovementsFrom(T, a)) - VolumeOf(ClaimsOf(T, a))
                 /\ BalanceOf(d.claimers, a) = VolumeOf(ClaimsOf(T, a))
      <4>1. /\ VolumeOf(MovementsTo(T, a)) = VolumeOf(MovementsTo(S, a)) + IF m.to = a THEN v ELSE 0
            /\ VolumeOf(MovementsFrom(T, a)) = VolumeOf(MovementsFrom(S, a))
                 + IF m.from = a /\ m.to # a THEN v ELSE 0
            /\ VolumeOf(ClaimsOf(T, a)) = VolumeOf(ClaimsOf(S, a)) + 0
        BY <1>5, <1>9 DEF m
      <4>2. /\ VolumeOf(MovementsTo(S, a)) \in Int /\ VolumeOf(MovementsFrom(S, a)) \in Int
            /\ VolumeOf(ClaimsOf(S, a)) \in Int
        BY <1>5
      <4>. QED BY <1>7, <1>9, <3>2, <3>3, <4>1, <4>2
    <3>5. Total(d.owners, DOMAIN d.owners) + Total(d.claimers, DOMAIN d.claimers)
            = VolumeOf(Issuances(T)) + VolumeOf(ToThemselves(T))
      <4>1. /\ VolumeOf(ToThemselves(T)) = VolumeOf(ToThemselves(S)) + IF m.from = m.to THEN v ELSE 0
            /\ VolumeOf(Issuances(T)) = VolumeOf(Issuances(S)) + 0
            /\ VolumeOf(ToThemselves(S)) \in Int /\ VolumeOf(Issuances(S)) \in Int
        BY <1>5, <1>9 DEF m
      <4>2. Total(c.claimers, DOMAIN c.claimers) \in Int
        BY <1>8b, <3>2
      <4>. DEFINE o == Total(c.owners, DOMAIN c.owners)
                  k == Total(c.claimers, DOMAIN c.claimers)
                  p == Total(d.owners, DOMAIN d.owners)
                  i == VolumeOf(Issuances(S))
                  z == VolumeOf(ToThemselves(S))
      <4>3. o + k = i + z /\ p = o + (IF m.from = m.to THEN v ELSE 0) /\ o \in Int
            /\ Total(d.claimers, DOMAIN d.claimers) = k
        BY <1>8, <1>9, <3>3
      <4>4. VolumeOf(ToThemselves(T)) = z + (IF m.from = m.to THEN v ELSE 0)
            /\ VolumeOf(Issuances(T)) = i + 0 /\ z \in Int /\ i \in Int /\ k \in Int
        BY <4>1, <4>2
      <4>. HIDE DEF o, k, p, i, z
      <4>5. p + k = VolumeOf(Issuances(T)) + VolumeOf(ToThemselves(T))
        BY <3>2, <4>3, <4>4
      <4>. QED BY <4>3, <4>5 DEF p
    <3>6. Balanced(d, T)
      BY <3>4, <3>5 DEF Balanced
    <3>. QED BY <3>1, <3>3, <3>6 DEF T
  <2>. QED BY <2>1, <2>2
<1>10. CASE c.error = "none" /\ e.type = "Claimed"
  <2>1. CASE ~ClaimIsValid(c, m)
    <3>1. Apply(c, e) = Thrown("ValidationFailed")
      BY <1>10, <2>1 DEF Apply
    <3>2. "ValidationFailed" \in Errors \ {"none"}
      BY DEF Errors
    <3>. QED BY <1>3, <3>1, <3>2
  <2>2. CASE ClaimIsValid(c, m)
    <3>. DEFINE d == Claim(c, m)
    <3>1. Apply(c, e) = d
      BY <1>10, <2>2 DEF Apply
    <3>2. m.from \in Addresses /\ m.to = m.from /\ v \in Nat
      BY <1>6, <1>10 DEF Synchronizable
    <3>3. /\ d \in Certificates /\ d.error = "none"
          /\ \A a : /\ BalanceOf(d.owners, a) =
                         IF a = m.from THEN BalanceOf(c.owners, a) - v ELSE BalanceOf(c.owners, a)
                    /\ BalanceOf(d.claimers, a) =
                         IF a = m.from THEN BalanceOf(c.claimers, a) + v
                         ELSE BalanceOf(c.claimers, a)
          /\ Total(d.owners, DOMAIN d.owners) + Total(d.claimers, DOMAIN d.claimers)
               = Total(c.owners, DOMAIN c.owners) + Total(c.claimers, DOMAIN c.claimers)
      BY <1>10, <2>2, <3>2, ClaimApplied
    <3>. HIDE DEF d, v, m, T
    <3>4. ASSUME NEW a \in Addresses
          PROVE  /\ BalanceOf(d.owners, a) = VolumeOf(MovementsTo(T, a))
                      - VolumeOf(MovementsFrom(T, a)) - VolumeOf(ClaimsOf(T, a))
                 /\ BalanceOf(d.claimers, a) = VolumeOf(ClaimsOf(T, a))
      <4>1. /\ VolumeOf(MovementsTo(T, a)) = VolumeOf(MovementsTo(S, a)) + 0
            /\ VolumeOf(MovementsFrom(T, a)) = VolumeOf(MovementsFrom(S, a)) + 0
            /\ VolumeOf(ClaimsOf(T, a)) = VolumeOf(ClaimsOf(S, a)) + IF m.from = a THEN v ELSE 0
        BY <1>5, <1>10 DEF m
      <4>2. /\ VolumeOf(MovementsTo(S, a)) \in Int /\ VolumeOf(MovementsFrom(S, a)) \in Int
            /\ VolumeOf(ClaimsOf(S, a)) \in Int
        BY <1>5
      <4>. QED BY <1>7, <1>10, <3>2, <3>3, <4>1, <4>2
    <3>5. Total(d.owners, DOMAIN d.owners) + Total(d.claimers, DOMAIN d.claimers)
            = VolumeOf(Issuances(T)) + VolumeOf(ToThemselves(T))
      <4>1. /\ VolumeOf(ToThemselves(T)) = VolumeOf(ToThemselves(S)) + 0
            /\ VolumeOf(Issuances(T)) = VolumeOf(Issuances(S)) + 0
            /\ VolumeOf(ToThemselves(S)) \in Int /\ VolumeOf(Issuances(S)) \in Int
        BY <1>5, <1>10
      <4>. QED BY <1>8, <1>10, <3>3, <4>1
    <3>6. Balanced(d, T)
      BY <3>4, <3>5 DEF Balanced
    <3>. QED BY <3>1, <3>3, <3>6 DEF T
  <2>. QED BY <2>1, <2>2
<1>11. CASE c.error = "none" /\ e.type \notin Synchronizable
  <2>1. Apply(c, e) = c
    BY <1>11 DEF Apply, Synchronizable
  <2>. HIDE DEF T, v
  <2>2. ASSUME NEW a
        PROVE  /\ VolumeOf(MovementsTo(T, a)) = VolumeOf(MovementsTo(S, a))
               /\ VolumeOf(MovementsFrom(T, a)) = VolumeOf(MovementsFrom(S, a))
               /\ VolumeOf(ClaimsOf(T, a)) = VolumeOf(ClaimsOf(S, a))
    BY <1>5, <1>11 DEF Synchronizable
  <2>3. /\ VolumeOf(ToThemselves(T)) = VolumeOf(ToThemselves(S))
        /\ VolumeOf(Issuances(T)) = VolumeOf(Issuances(S))
    BY <1>5, <1>11 DEF Synchronizable
  <2>4. Balanced(c, T)
    BY <2>2, <2>3 DEF Balanced
  <2>. QED BY <2>1, <2>4 DEF T
<1>. QED BY <1>2, <1>4, <1>9, <1>10, <1>11 DEF Synchronizable

-----------------------------------------------------------------------------
(* Every log *)

\* An answer is to an event of the log.
Answering(S) ==
  \A f \in S :
    f.type \notin Synchronizable =>
      \E e \in S : /\ e.type \in Synchronizable
                   /\ f.type \in {PersistedType[e.type], "PersistError"}
                   /\ f.payload = [persistedEventId |-> e.at]

\* The inductive invariant: the replay is balanced even when it is not
\* accepted because of too many answers, for one event more may change that.
LogInv ==
  /\ Ordered(events) /\ \A e \in events : e.at \in 1..Cardinality(events)
  /\ Sensible(events) /\ Answering(events)
  /\ events # {} /\ First(events).type = "Issued" =>
       Reduce(events) \in Certificates /\ Balanced(Reduce(events), events)

\* An event that a step adds.
LEMMA EventAdded ==
  ASSUME LogInv, Next
  PROVE  \E e : /\ events' = events \cup {e} /\ e \notin events
                /\ Ordered(events') /\ \A f \in events : f.at <= e.at
                /\ \A f \in events' : f.at \in 1..Cardinality(events')
                /\ Sensible({e}) /\ Sensible(events') /\ Answering(events')
                /\ (events = {} => e.type \in Synchronizable)
<1>. DEFINE n == Cardinality(events)
<1>1. IsFiniteSet(events) /\ n \in Nat
  BY FS_CardinalityType DEF LogInv, Ordered
<1>2. PICK t, payload :
        /\ events' = events \cup {[type |-> t, cert |-> 1, payload |-> payload, at |-> n + 1,
                                   cmd |-> n + 1]}
        /\ \/ /\ t \in Synchronizable
              /\ payload.from \in Addresses /\ payload.to \in Addresses /\ payload.volume \in Nat
              /\ t = "Claimed" => payload.from = payload.to
           \/ \E e \in events : /\ e.type \in Synchronizable
                                /\ t \in {PersistedType[e.type], "PersistError"}
                                /\ payload = [persistedEventId |-> e.at]
  <2>1. CASE Move
    <3>1. PICK t \in Synchronizable, a \in Addresses, b \in Addresses, v \in Volumes :
            /\ t = "Claimed" => a = b
            /\ Append(t, [from |-> a, to |-> b, volume |-> v])
      BY <2>1 DEF Move
    <3>2. v \in Nat
      BY AggregateLogAssumption DEF AggregateLogAssumption
    <3>3. \E payload : /\ Append(t, payload)
                       /\ payload.from \in Addresses /\ payload.to \in Addresses
                       /\ payload.volume \in Nat /\ (t = "Claimed" => payload.from = payload.to)
      BY <3>1, <3>2
    <3>. QED BY <3>3 DEF Append, NewEvent
  <2>2. CASE Acknowledge
    BY <2>2 DEF Acknowledge, Append, NewEvent
  <2>. QED BY <2>1, <2>2 DEF Next
<1>. DEFINE e == [type |-> t, cert |-> 1, payload |-> payload, at |-> n + 1, cmd |-> n + 1]
<1>3. e.type = t /\ e.payload = payload /\ e.at = n + 1
  OBVIOUS
<1>4. events' = events \cup {e}
  BY <1>2
<1>. HIDE DEF e
<1>5. \A f \in events : f.at \in Nat /\ f.at <= n
  BY <1>1 DEF LogInv
<1>6. e \notin events /\ IsFiniteSet(events') /\ Cardinality(events') = n + 1
  <2>1. e \notin events
    <3>. HIDE DEF n
    <3>. QED BY <1>1, <1>3, <1>5
  <2>2. IsFiniteSet(events \cup {e}) /\ Cardinality(events \cup {e}) = n + 1
    BY <1>1, <2>1, FS_AddElement
  <2>. QED BY <1>4, <2>1, <2>2
<1>7. Ordered(events') /\ \A f \in events : f.at <= e.at
  <2>. HIDE DEF n
  <2>. QED BY <1>1, <1>3, <1>4, <1>5, <1>6 DEF Ordered, LogInv
<1>8. \A f \in events' : f.at \in 1..Cardinality(events')
  <2>1. \A f \in events : f.at \in 1..n
    BY DEF LogInv
  <2>. HIDE DEF n
  <2>. QED BY <1>1, <1>3, <1>4, <1>6, <2>1
<1>9. Sensible({e})
  <2>1. \A s \in Synchronizable : PersistedType[s] \in Acknowledgements
    BY DEF Acknowledgements
  <2>2. Synchronizable \cap (Acknowledgements \cup {"PersistError"}) = {}
    BY DEF Synchronizable, Acknowledgements, PersistedType
  <2>. QED BY <1>2, <1>3, <2>1, <2>2 DEF Sensible, EventTypes
<1>10. Sensible(events')
  BY <1>4, <1>9 DEF LogInv, Sensible
<1>11. Answering(events')
  <2>1. ASSUME NEW f \in events', f.type \notin Synchronizable
        PROVE  \E d \in events' : /\ d.type \in Synchronizable
                                  /\ f.type \in {PersistedType[d.type], "PersistError"}
                                  /\ f.payload = [persistedEventId |-> d.at]
    <3>1. CASE f \in events
      BY <1>4, <2>1, <3>1 DEF LogInv, Answering
    <3>2. CASE f = e
      BY <1>2, <1>3, <1>4, <2>1, <3>2
    <3>. QED BY <1>4, <3>1, <3>2
  <2>. QED BY <2>1 DEF Answering
<1>12. events = {} => e.type \in Synchronizable
  BY <1>2, <1>3
<1>. QED BY <1>4, <1>6, <1>7, <1>8, <1>9, <1>10, <1>11, <1>12

\* The replay of the log with one event more.
LEMMA ReplayGrows ==
  ASSUME LogInv, NEW e, e \notin events, events # {}, Ordered(events \cup {e}),
         \A f \in events : f.at <= e.at
  PROVE  /\ First(events \cup {e}) = First(events)
         /\ Reduce(events \cup {e}) = Apply(Reduce(events), e)
BY ReduceMore

\* Every step keeps the invariant.
LEMMA LogStep == LogInv /\ [Next]_events => LogInv'
<1>. SUFFICES ASSUME LogInv, [Next]_events PROVE LogInv'
  OBVIOUS
<1>1. CASE UNCHANGED events
  BY <1>1 DEF LogInv
<1>2. CASE Next
  <2>1. PICK e : /\ events' = events \cup {e} /\ e \notin events
                 /\ Ordered(events') /\ \A f \in events : f.at <= e.at
                 /\ \A f \in events' : f.at \in 1..Cardinality(events')
                 /\ Sensible({e}) /\ Sensible(events') /\ Answering(events')
    BY <1>2, EventAdded
  <2>2. ASSUME First(events').type = "Issued"
        PROVE  Reduce(events') \in Certificates /\ Balanced(Reduce(events'), events')
    <3>1. CASE events = {}
      <4>1. events' = {e} /\ e.at \in Nat
        BY <2>1, <3>1 DEF Ordered
      <4>2. First({e}) = e /\ Reduce({e}) = CreateCertificate(e)
        BY <4>1, ReduceFirst
      <4>3. e.type = "Issued"
        BY <2>2, <4>1, <4>2
      <4>. QED BY <2>1, <4>1, <4>2, <4>3, FirstBalanced
    <3>2. CASE events # {}
      <4>1. First(events') = First(events) /\ Reduce(events') = Apply(Reduce(events), e)
        BY <2>1, <3>2, ReplayGrows
      <4>2. Reduce(events) \in Certificates /\ Balanced(Reduce(events), events)
        BY <2>2, <3>2, <4>1 DEF LogInv
      <4>3. IsFiniteSet(events) /\ Sensible(events)
        BY DEF LogInv, Ordered
      <4>4. Apply(Reduce(events), e) \in Certificates
            /\ Balanced(Apply(Reduce(events), e), events \cup {e})
        BY <2>1, <4>2, <4>3, AppliedBalanced
      <4>. QED BY <2>1, <4>1, <4>4
    <3>. QED BY <3>1, <3>2
  <2>. QED BY <2>1, <2>2 DEF LogInv
<1>. QED BY <1>1, <1>2

\* It holds for the empty log.
LEMMA LogInit == Init => LogInv
BY FS_EmptySet DEF Init, LogInv, Ordered, Sensible, Answering

\* What a certificate is, by its replay.
LEMMA FromEventsIs ==
  ASSUME NEW S, S # {}, First(S).type = "Issued", Reduce(S) \in Certificates
  PROVE  /\ Reduce(S).error # "none" => FromEvents(S).error = Reduce(S).error
         /\ Reduce(S).error = "none" => FromEvents(S).error \in {"none", "CertificateTooManyPersisted"}
         /\ FromEvents(S).error = "none" =>
              /\ Reduce(S).error = "none"
              /\ FromEvents(S).owners = Reduce(S).owners
              /\ FromEvents(S).claimers = Reduce(S).claimers
              /\ FromEvents(S).isSynced = (ToPersist(S) = 0)
<1>. DEFINE c == Reduce(S)
<1>1. FromEvents(S) = IF c.error = "none" /\ ToPersist(S) < 0
                      THEN Thrown("CertificateTooManyPersisted")
                      ELSE [c EXCEPT !.isSynced = (ToPersist(S) = 0)]
  BY DEF FromEvents
<1>2. \A b \in BOOLEAN : LET d == [c EXCEPT !.isSynced = b]
                         IN  /\ d.error = c.error /\ d.owners = c.owners
                             /\ d.claimers = c.claimers /\ d.isSynced = b
  BY DEF Certificates
<1>3. Thrown("CertificateTooManyPersisted").error = "CertificateTooManyPersisted"
  BY DEF Thrown
<1>. HIDE DEF c
<1>4. CASE c.error = "none" /\ ToPersist(S) < 0
  BY <1>1, <1>3, <1>4 DEF c
<1>5. CASE ~(c.error = "none" /\ ToPersist(S) < 0)
  <2>1. FromEvents(S) = [c EXCEPT !.isSynced = (ToPersist(S) = 0)]
    BY <1>1, <1>5
  <2>2. (ToPersist(S) = 0) \in BOOLEAN
    OBVIOUS
  <2>3. /\ FromEvents(S).error = c.error /\ FromEvents(S).owners = c.owners
        /\ FromEvents(S).claimers = c.claimers /\ FromEvents(S).isSynced = (ToPersist(S) = 0)
    BY <1>2, <2>1, <2>2, Zenon
  <2>. QED BY <2>3 DEF c
<1>. QED BY <1>4, <1>5

\* A log that replays begins with an issuance, and its replay is balanced.
LEMMA ReplaysIs ==
  ASSUME LogInv, Replays(events)
  PROVE  /\ events # {} /\ First(events).type = "Issued"
         /\ Reduce(events) \in Certificates /\ Reduce(events).error = "none"
         /\ Balanced(Reduce(events), events)
         /\ Certificate.owners = Reduce(events).owners
         /\ Certificate.claimers = Reduce(events).claimers
         /\ Certificate.isSynced = (ToPersist(events) = 0)
<1>1. PICK e \in events : e.type = "Issued" /\ \A f \in events : e.at <= f.at
  BY DEF Replays
<1>2. First(events) = e
  BY <1>1, LatestIs DEF LogInv
<1>3. Reduce(events) \in Certificates /\ Balanced(Reduce(events), events)
  BY <1>1, <1>2 DEF LogInv
<1>. QED BY <1>1, <1>2, <1>3, FromEventsIs DEF Replays, Certificate

\* The invariant is one.
LEMMA LogInvariant == Spec => []LogInv
<1>1. Init => LogInv
  BY LogInit
<1>2. LogInv /\ [Next]_events => LogInv'
  BY LogStep
<1>. QED BY <1>1, <1>2, PTL DEF Spec

-----------------------------------------------------------------------------
(* The theorems *)

\* Every account's balance and claimed volume after a replay is what the log
\* says it received, sent and claimed (certificate.aggregate.ts:133-207), for
\* logs of any length.
THEOREM ReplayIsBalanceSheet == Spec => []BalanceSheet
<1>1. LogInv => BalanceSheet
  <2>1. SUFFICES ASSUME LogInv, Replays(events), NEW a \in Addresses
        PROVE  /\ BalanceOf(Certificate.owners, a) = Received(a) - Sent(a) - Claimed(a)
               /\ BalanceOf(Certificate.claimers, a) = Claimed(a)
    BY DEF BalanceSheet
  <2>2. /\ Received(a) = VolumeOf(MovementsTo(events, a))
        /\ Sent(a) = VolumeOf(MovementsFrom(events, a))
        /\ Claimed(a) = VolumeOf(ClaimsOf(events, a))
    BY <2>1, SheetSets DEF LogInv, Ordered
  <2>3. /\ Balanced(Reduce(events), events) /\ Reduce(events).error = "none"
        /\ Certificate.owners = Reduce(events).owners
        /\ Certificate.claimers = Reduce(events).claimers
    BY <2>1, ReplaysIs
  <2>4. /\ BalanceOf(Reduce(events).owners, a) =
             VolumeOf(MovementsTo(events, a)) - VolumeOf(MovementsFrom(events, a))
                                              - VolumeOf(ClaimsOf(events, a))
        /\ BalanceOf(Reduce(events).claimers, a) = VolumeOf(ClaimsOf(events, a))
    BY <2>3 DEF Balanced
  <2>. QED BY <2>2, <2>3, <2>4, Zenon
<1>. QED BY <1>1, LogInvariant, PTL

\* What is owned and what is claimed is what was issued, plus exactly the
\* volume of transfers to oneself (certificate.aggregate.ts:138-149), and no
\* balance is negative, for logs of any length.
THEOREM ReplayConservesVolume == Spec => []VolumeConserved
<1>1. LogInv => VolumeConserved
  <2>1. SUFFICES ASSUME LogInv, Replays(events)
        PROVE  /\ Sum(Certificate.owners) + Sum(Certificate.claimers) = IssuedTotal + SentToSelf
               /\ \A a \in DOMAIN Certificate.owners : Certificate.owners[a] >= 0
    BY DEF VolumeConserved
  <2>. DEFINE owners == Reduce(events).owners
              claimers == Reduce(events).claimers
  <2>2. /\ Balanced(Reduce(events), events) /\ Reduce(events).error = "none"
        /\ Certificate.owners = owners /\ Certificate.claimers = claimers
        /\ owners \in Balances /\ claimers \in Balances
    BY <2>1, ReplaysIs DEF Certificates
  <2>3. SentToSelf = VolumeOf(ToThemselves(events)) /\ IssuedTotal = VolumeOf(Issuances(events))
    BY <2>1, SheetSets DEF LogInv, Ordered
  <2>4. ASSUME NEW b \in Balances PROVE Sum(b) = Total(b, DOMAIN b)
    <3>1. IsFiniteSet(DOMAIN b)
      BY DEF Balances
    <3>. QED BY <3>1, SumsAreTotals DEF Sum
  <2>5. Sum(owners) = Total(owners, DOMAIN owners) /\ Sum(claimers) = Total(claimers, DOMAIN claimers)
    <3>. HIDE DEF owners, claimers
    <3>. QED BY <2>2, <2>4
  <2>6. Total(owners, DOMAIN owners) + Total(claimers, DOMAIN claimers)
          = VolumeOf(Issuances(events)) + VolumeOf(ToThemselves(events))
    BY <2>2 DEF Balanced
  <2>7. ASSUME NEW a \in DOMAIN owners PROVE owners[a] >= 0
    <3>1. PICK A \in SUBSET Addresses : owners \in [A -> Nat]
      BY <2>2 DEF Balances
    <3>. HIDE DEF owners
    <3>. QED BY <2>7, <3>1
  <2>. HIDE DEF owners, claimers
  <2>. QED BY <2>2, <2>3, <2>5, <2>6, <2>7
<1>. QED BY <1>1, LogInvariant, PTL

\* Counting answers is as good as matching them with events
\* (certificate.aggregate.ts:272-303) when no event is answered with success
\* twice: the successful answers then are as many as the events they answer.
THEOREM CountingIsMatching == Spec => []SyncedWhenAllPersisted
<1>. DEFINE M == {e \in events : e.type \in Synchronizable}
            A == {f \in events : f.type \in Acknowledgements}
            persists(f, e) == f.type = PersistedType[e.type] /\ f.payload.persistedEventId = e.at
            P == {e \in M : \E f \in events : persists(f, e)}
            answered == [f \in A |-> CHOOSE e \in P : persists(f, e)]
<1>1. ASSUME LogInv, AnsweredOnce PROVE Cardinality(A) = Cardinality(P)
  <2>1. \A e \in M : PersistedType[e.type] \in Acknowledgements
    BY DEF Acknowledgements
  <2>2. Acknowledgements \cap (Synchronizable \cup {"PersistError"}) = {}
    BY DEF Acknowledgements, Synchronizable, PersistedType
  <2>3. ASSUME NEW f \in A
        PROVE  \E e \in P : persists(f, e) /\ f.payload = [persistedEventId |-> e.at]
    <3>1. PICK e \in events : /\ e.type \in Synchronizable
                              /\ f.type \in {PersistedType[e.type], "PersistError"}
                              /\ f.payload = [persistedEventId |-> e.at]
      BY <1>1, <2>2 DEF LogInv, Answering
    <3>2. f.type = PersistedType[e.type]
      BY <2>2, <3>1
    <3>. QED BY <3>1, <3>2
  <2>4. \A f \in A : answered[f] \in P /\ persists(f, answered[f])
    BY <2>3
  <2>5. \A f \in A : f.payload = [persistedEventId |-> answered[f].at]
    <3>. HIDE DEF answered
    <3>. QED BY <2>3, <2>4
  <2>6. answered \in [A -> P]
    BY <2>4
  <2>7. ASSUME NEW f \in A, NEW g \in A, answered[f] = answered[g] PROVE f = g
    <3>1. f.payload = g.payload
      BY <2>5, <2>7
    <3>. QED BY <1>1, <3>1 DEF AnsweredOnce
  <2>8. ASSUME NEW e \in P PROVE \E f \in A : answered[f] = e
    <3>1. PICK f \in events : persists(f, e)
      OBVIOUS
    <3>2. f \in A
      BY <2>1, <3>1
    <3>3. answered[f].at = e.at
      BY <2>4, <3>1, <3>2
    <3>4. answered[f] \in events /\ e \in events
      BY <2>4, <3>2
    <3>. HIDE DEF answered
    <3>. QED BY <1>1, <3>2, <3>3, <3>4 DEF LogInv, Ordered
  <2>9. answered \in Bijection(A, P)
    <3>. HIDE DEF answered, A, P
    <3>. QED BY <2>6, <2>7, <2>8 DEF Bijection, Injection, Surjection, IsInjective
  <2>10. IsFiniteSet(A)
    BY <1>1, FS_Subset DEF LogInv, Ordered
  <2>. QED BY <2>9, <2>10, FS_Bijection DEF ExistsBijection
<1>2. LogInv => IsFiniteSet(M) /\ Cardinality(M) \in Nat /\ Cardinality(P) \in Nat
                /\ (Cardinality(M) = Cardinality(P) <=> M = P)
  <2>1. LogInv => IsFiniteSet(M)
    BY FS_Subset DEF LogInv, Ordered
  <2>2. P \subseteq M
    OBVIOUS
  <2>. HIDE DEF M, P
  <2>. QED BY <2>1, <2>2, FS_Subset, FS_CardinalityType
<1>3. LogInv => SyncedWhenAllPersisted
  <2>1. SUFFICES ASSUME LogInv, Replays(events), AnsweredOnce
        PROVE  Certificate.isSynced <=>
                 \A e \in events :
                   e.type \in Synchronizable => \E f \in events : persists(f, e)
    BY DEF SyncedWhenAllPersisted
  <2>2. Certificate.isSynced <=> ToPersist(events) = 0
    BY <2>1, ReplaysIs
  <2>3. ToPersist(events) = Cardinality(M) - Cardinality(A)
    BY DEF ToPersist
  <2>4. ToPersist(events) = 0 <=> M = P
    <3>. HIDE DEF M, A, P
    <3>. QED BY <1>1, <1>2, <2>1, <2>3
  <2>5. M = P <=> \A e \in events :
                    e.type \in Synchronizable => \E f \in events : persists(f, e)
    OBVIOUS
  <2>. QED BY <2>2, <2>4, <2>5
<1>. QED BY <1>3, LogInvariant, PTL

\* A log that was refused for its movements stays refused with the same
\* error, whatever is appended and however often.
THEOREM PoisonedForGood == Spec => RefusedForGood
<1>. DEFINE refusals == {"ValidationFailed", "CertificateAlreadyIssued",
                         "FirstCertificateEventIsNotIssuance"}
<1>1. ASSUME LogInv, [Next]_events, Certificate.error \in refusals
      PROVE  events' = events \/ Certificate'.error = Certificate.error
  <2>1. CASE Next
    <3>1. PICK e : /\ events' = events \cup {e} /\ e \notin events
                   /\ Ordered(events') /\ \A f \in events : f.at <= e.at
      BY <1>1, <2>1, EventAdded
    <3>2. events # {}
      BY <1>1 DEF Certificate, FromEvents, Thrown
    <3>3. /\ First(events') = First(events) /\ events' # {}
          /\ Reduce(events') = Apply(Reduce(events), e)
      BY <1>1, <3>1, <3>2, ReplayGrows
    <3>4. CASE First(events).type # "Issued"
      BY <3>2, <3>3, <3>4 DEF Certificate, FromEvents, Thrown
    <3>5. CASE First(events).type = "Issued"
      <4>1. Reduce(events) \in Certificates
        BY <1>1, <3>2, <3>5 DEF LogInv
      <4>2. /\ Reduce(events).error # "none" => Certificate.error = Reduce(events).error
            /\ Reduce(events).error = "none" =>
                 Certificate.error \in {"none", "CertificateTooManyPersisted"}
        BY <3>2, <3>5, <4>1, FromEventsIs DEF Certificate
      <4>3. Reduce(events).error # "none" /\ Certificate.error = Reduce(events).error
        BY <1>1, <4>2
      <4>4. Reduce(events') = Reduce(events)
        BY <3>3, <4>3 DEF Apply
      <4>5. Reduce(events').error # "none" => FromEvents(events').error = Reduce(events').error
        BY <3>3, <3>5, <4>1, <4>4, FromEventsIs
      <4>. QED BY <4>3, <4>4, <4>5 DEF Certificate
    <3>. QED BY <3>4, <3>5
  <2>. QED BY <1>1, <2>1
<1>2. LogInv /\ [Next]_events =>
        [Certificate.error \in refusals => Certificate'.error = Certificate.error]_events
  BY <1>1
<1>. QED BY <1>2, LogInvariant, PTL DEF Spec, RefusedForGood
=============================================================================
