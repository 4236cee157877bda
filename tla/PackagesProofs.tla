---------------------------- MODULE PackagesProofs ----------------------------
(***************************************************************************)
(* Terminology, and Pico over it, for every set of packages.               *)
(*                                                                         *)
(* First, why comparing the time of a cache with the time of the last      *)
(* change is enough, although the clock may stand still: no cache is dated *)
(* later than now, a change is dated now, and a cache of the time of the   *)
(* change counts as expired.  Then, why asking upwards and downwards gives *)
(* the same answer: what is reached in as many steps as there are pairs is *)
(* the least closed set, and that of the converse has the same pairs.      *)
(*                                                                         *)
(* Then, why every valid answer is right, the attributes of a class too,   *)
(* which are collected from the cached answers about the classes above it. *)
(* To be inductive it must say what becomes of the cached dictionary of    *)
(* own attributes that they are collected in.  What an answer should be    *)
(* is stated over all classes above; that it can be had from those right   *)
(* above needs no induction over the hierarchy: what is reached from a     *)
(* class is the class and what is reached from where one step leads.  And  *)
(* so an individual has a value for each attribute of its class.           *)
(*                                                                         *)
(* Then facts about Pico.  What an installed package requires is installed *)
(* or known to be lost: to be inductive it must also say what is on its    *)
(* way, since requirements are written after the packages that need them.  *)
(* The answers about the terminology that it fills stay fresh, in          *)
(* whichever state an operation stops.  Kahn's algorithm never puts a      *)
(* package before its requirements, so that they are loaded first; and     *)
(* what was loaded is all that is installed when it comes to its end.      *)
(***************************************************************************)
EXTENDS Packages, FiniteSetTheorems, WellFoundedInduction, TLAPS

(* Induction over the natural numbers, for sets.                           *)
LEMMA LeastNumber ==
    ASSUME NEW T \in SUBSET Nat, T # {}
    PROVE  \E m \in T : \A k \in T : m <= k
<1> DEFINE R == OpToRel(<, Nat)
<1>1. PICK m \in T : \A k \in T : ~(<<k, m>> \in R)
  <2>1. IsWellFoundedOn(R, Nat)
    BY NatLessThanWellFounded
  <2> HIDE DEF R
  <2> QED BY <2>1, WFMin
<1>2. \A k, n \in Nat : k < n => <<k, n>> \in R
  BY DEF OpToRel
<1> HIDE DEF R
<1>3. ASSUME NEW k \in T PROVE m <= k
  <2>1. k \in Nat /\ m \in Nat
    OBVIOUS
  <2>2. ~(k < m)
    BY <1>1, <1>2, <2>1
  <2> QED BY <2>1, <2>2
<1> QED BY <1>3

(* What holds at zero and is kept by every step holds of 0..n.             *)
LEMMA FromZero ==
    ASSUME NEW n \in Nat, NEW P, 0 \in P, \A k \in 1..n : k - 1 \in P => k \in P
    PROVE  0..n \subseteq P
<1> DEFINE Bad == {k \in 0..n : k \notin P}
<1> SUFFICES ASSUME Bad # {} PROVE FALSE
  OBVIOUS
<1>1. PICK m \in Bad : \A k \in Bad : m <= k
  <2>1. Bad \in SUBSET Nat
    OBVIOUS
  <2> HIDE DEF Bad
  <2> QED BY <2>1, LeastNumber
<1>2. m \in 1..n /\ m - 1 \in 0..n /\ m - 1 \notin Bad
  BY <1>1
<1> QED BY <1>1, <1>2

(* The value at k comes from k and from the value at k - 1.                *)
Stepwise(g, n, x, F) == g = [k \in 0..n |-> IF k = 0 THEN x ELSE F[<<k, g[k - 1]>>]]

(* A recursive function on 0..n, whose values are made of the number and   *)
(* of the value before, is well defined.                                   *)
LEMMA StepByStep ==
    ASSUME NEW V, NEW x \in V, NEW n \in Nat, NEW F \in [Nat \X V -> V]
    PROVE  \E g \in [0..n -> V] : Stepwise(g, n, x, F)
<1> DEFINE Eq(m, g) == /\ g \in [0..m -> V]
                       /\ g = [k \in 0..m |-> IF k = 0 THEN x ELSE F[<<k, g[k - 1]>>]]
           P == {m \in Nat : \E g : Eq(m, g)}
<1>1. 0 \in P
  <2>1. Eq(0, [k \in 0..0 |-> x])
    OBVIOUS
  <2> QED BY <2>1
<1>2. ASSUME NEW m \in 1..n, m - 1 \in P PROVE m \in P
  <2>1. m \in Nat /\ m - 1 \in Nat /\ m # 0
    OBVIOUS
  <2>2. PICK g : Eq(m - 1, g)
    BY <1>2
  <2> DEFINE h == [k \in 0..m |-> IF k = m THEN F[<<m, g[m - 1]>>] ELSE g[k]]
             body == [k \in 0..m |-> IF k = 0 THEN x ELSE F[<<k, h[k - 1]>>]]
  <2>3. \A k \in 0..m - 1 : h[k] = g[k] /\ g[k] \in V
                           /\ g[k] = IF k = 0 THEN x ELSE F[<<k, g[k - 1]>>]
    BY <2>1, <2>2
  <2>4. ASSUME NEW k \in 0..m PROVE h[k] = body[k] /\ h[k] \in V
    <3>1. CASE k = m
      <4>1. h[k] = F[<<m, g[m - 1]>>] /\ body[k] = F[<<m, h[m - 1]>>] /\ m - 1 \in 0..m - 1
        BY <3>1, <2>1
      <4> QED BY <4>1, <2>1, <2>3
    <3>2. CASE k # m /\ k # 0
      <4>1. k \in 0..m - 1 /\ k - 1 \in 0..m - 1
        BY <3>2, <2>1
      <4> QED BY <4>1, <3>2, <2>3
    <3>3. CASE k # m /\ k = 0
      <4>1. k \in 0..m - 1
        BY <3>3, <2>1
      <4>2. h[k] = g[k] /\ g[k] = x
        BY <4>1, <3>3, <2>3
      <4> QED BY <4>2, <3>3
    <3> QED BY <3>1, <3>2, <3>3
  <2>5. Eq(m, h)
    BY <2>4
  <2> QED BY <2>1, <2>5
<1>3. n \in P
  <2> HIDE DEF P
  <2> QED BY <1>1, <1>2, FromZero
<1> QED BY <1>3 DEF Stepwise

-----------------------------------------------------------------------------
Times ==
    /\ clock \in Nat /\ stamp \in Nat /\ stamp <= clock
    /\ \A h \in DOMAIN held : held[h] \in Nat /\ held[h] <= clock
    /\ \A q \in DOMAIN cached : Cache(q) \in DOMAIN held

TInv == Times /\ LookupsFresh

-----------------------------------------------------------------------------
(* The answer to such a question depends on the graph only.                *)
LEMMA AnswersStay ==
    ASSUME graph' = graph, NEW q, q.method \in Lookups
    PROVE  Answers(q)' = Answers(q)
<1>1. Declared' = Declared /\ All(SubOf)' = All(SubOf)
  BY DEF Declared, All
<1>2. CASE q.method = "direct"
  BY <1>1, <1>2 DEF Answers, Found, DirectSuperclasses
<1>3. CASE q.method = "superclasses"
  BY <1>1, <1>3 DEF Answers, Closure, Found, Superclasses
<1>4. CASE q.method = "subclasses"
  BY <1>1, <1>4 DEF Answers, Closure, Found, Subclasses
<1>5. CASE q.method = "labelled"
  BY <1>1, <1>5 DEF Answers
<1> QED BY <1>2, <1>3, <1>4, <1>5 DEF Lookups

(* If what is cached stays, or less of it, and the graph with the times,   *)
(* it stays fresh.                                                         *)
LEMMA LessStaysFresh ==
    ASSUME TInv, UNCHANGED <<graph, stamp, held>>,
           clock' \in Nat, clock <= clock',
           DOMAIN cached' \subseteq DOMAIN cached,
           \A q \in DOMAIN cached' : cached'[q] = cached[q],
           "interrupted" \in since => "interrupted" \in since'
    PROVE  TInv'
<1>1. Times'
  BY DEF TInv, Times, Cache
<1>2. ASSUME NEW q \in DOMAIN cached', q.method \in Lookups, Valid(q)', "interrupted" \notin since'
      PROVE  cached'[q] \in Answers(q)'
  <2>1. StampOf(q)' = StampOf(q)
    BY <1>2 DEF StampOf, Lookups
  <2>2. Valid(q)
    BY <1>2, <2>1 DEF Valid, Expired, Cache
  <2> QED BY <1>2, <2>2, AnswersStay DEF TInv, LookupsFresh
<1> QED BY <1>1, <1>2 DEF TInv, LookupsFresh

(* A change that is dated now leaves nothing valid but what it keeps: no   *)
(* labels.                                                                 *)
LEMMA ChangeExpires ==
    ASSUME Times, stamp' = clock, cached' = WithoutLabels, UNCHANGED <<clock, held>>
    PROVE  TInv'
<1>1. DOMAIN cached' = {p \in DOMAIN cached : p.method # "labelled"}
  BY DEF WithoutLabels
<1>2. Times'
  BY <1>1 DEF Times, Cache
<1>3. ASSUME NEW q \in DOMAIN cached', q.method \in Lookups PROVE ~Valid(q)'
  <2>1. q.method # "labelled" /\ q \in DOMAIN cached
    BY <1>1
  <2>2. StampOf(q)' = stamp'
    BY <2>1, <1>3 DEF StampOf, Lookups
  <2>3. held[Cache(q)] \in Nat /\ held[Cache(q)] <= clock /\ clock # None
    BY <2>1, TerminologyAssumption DEF Times
  <2> QED BY <2>2, <2>3 DEF Valid, Expired, Cache
<1> QED BY <1>2, <1>3 DEF TInv, LookupsFresh

(* A load that is interrupted leaves the caches as they are, and says so.  *)
LEMMA LoadParserKeeps ==
    ASSUME TInv, NEW content, NEW config, LoadParser(content, config), UNCHANGED <<clock, held>>
    PROVE  TInv'
<1>1. CASE BindAll(namespaces, Names[config]).raised
  <2>1. "interrupted" \in since' /\ UNCHANGED <<stamp, cached>>
    BY <1>1 DEF LoadParser
  <2>2. Times'
    BY <2>1 DEF TInv, Times, Cache
  <2> QED BY <2>1, <2>2 DEF TInv, LookupsFresh
<1>2. CASE ~BindAll(namespaces, Names[config]).raised
  BY <1>2, ChangeExpires DEF LoadParser, TInv
<1> QED BY <1>1, <1>2

(* An answer is computed from the graph as it is, and renewing a cache     *)
(* drops the other answers that it had.                                    *)
LEMMA AskKeeps ==
    ASSUME TInv, NEW q, Ask(q)
    PROVE  TInv'
<1> DEFINE h == Cache(q)
           renewed == h \notin DOMAIN held \/ Expired(q)
           kept == {p \in DOMAIN cached : ~renewed \/ Cache(p) # h}
<1>1. /\ held' = IF renewed
                 THEN [x \in DOMAIN held \cup {h} |-> IF x = h THEN clock ELSE held[x]]
                 ELSE held
      /\ UNCHANGED <<graph, clock, stamp, since, dataStamp>>
  BY DEF Ask, terminology
<1>2. PICK v \in Answers(q) :
        cached' = [p \in kept \cup {q} |->
                      IF p = q \/ (q.method = "attributes" /\ p = About("own", q.self))
                      THEN v ELSE cached[p]]
  BY DEF Ask
<1>3. DOMAIN cached' = kept \cup {q} /\ cached'[q] = v
  BY <1>2
<1>4. ASSUME NEW p \in kept, p # q, p.method \in Lookups PROVE cached'[p] = cached[p]
  <2>1. p # About("own", q.self)
    BY <1>4 DEF About, Question, Lookups
  <2> QED BY <1>2, <1>4, <2>1
<1>5. Times'
  <2>1. ASSUME NEW x \in DOMAIN held' PROVE held'[x] \in Nat /\ held'[x] <= clock
    BY <1>1, <2>1 DEF TInv, Times
  <2>2. ASSUME NEW p \in DOMAIN cached' PROVE Cache(p) \in DOMAIN held'
    BY <1>1, <1>3, <2>2 DEF TInv, Times
  <2> QED BY <1>1, <2>1, <2>2 DEF TInv, Times, Cache
<1>6. ASSUME NEW p \in DOMAIN cached', p.method \in Lookups, Valid(p)', "interrupted" \notin since'
      PROVE  cached'[p] \in Answers(p)'
  <2>1. CASE p = q
    BY <2>1, <1>1, <1>3, <1>6, AnswersStay
  <2>2. CASE p # q
    <3>1. p \in kept /\ p \in DOMAIN cached /\ cached'[p] = cached[p]
      BY <2>2, <1>3, <1>4, <1>6
    <3>2. held'[Cache(p)] = held[Cache(p)]
      BY <3>1, <1>1 DEF TInv, Times
    <3>3. StampOf(p)' = StampOf(p)
      BY <1>1, <1>6 DEF StampOf, Lookups
    <3>4. Valid(p)
      BY <3>1, <3>2, <3>3, <1>6 DEF Valid, Expired, Cache
    <3> QED BY <3>1, <3>4, <1>1, <1>6, AnswersStay DEF TInv, LookupsFresh
  <2> QED BY <2>1, <2>2
<1> QED BY <1>5, <1>6 DEF TInv, LookupsFresh

-----------------------------------------------------------------------------
(* Nothing is cached at first.                                             *)
LEMMA InitTInv == Init => TInv
BY DEF Init, TInv, Times, LookupsFresh

(* No step makes a cache newer than the clock, or a valid lookup stale.    *)
LEMMA NextTInv == TInv /\ [Next]_vars => TInv'
<1> SUFFICES ASSUME TInv, [Next]_vars PROVE TInv'
  OBVIOUS
<1>1. CASE Load
  BY <1>1, LoadParserKeeps DEF Load
<1>2. CASE Reset
  BY <1>2, ChangeExpires DEF Reset, Clear, TInv
<1>3. CASE Rename \/ Forget
  <2>1. UNCHANGED <<graph, clock, stamp, held, cached>> /\ since \subseteq since'
    BY <1>3 DEF Rename, Forget, Bind, Unbind
  <2> QED BY <2>1, LessStaysFresh DEF TInv, Times
<1>4. CASE Query
  BY <1>4, AskKeeps DEF Query
<1>5. CASE EditData
  BY <1>5, LessStaysFresh DEF EditData, ClearData, Classify, TInv, Times
<1>6. CASE Tick \/ UNCHANGED vars
  BY <1>6, LessStaysFresh DEF Tick, vars, terminology, TInv, Times
<1> QED BY <1>1, <1>2, <1>3, <1>4, <1>5, <1>6 DEF Next

(* Whatever is loaded, reset, renamed or interrupted, and however slow the *)
(* clock is, a valid answer about what is above and below an entity, or    *)
(* about a label, is what the graph says (lru_cache_timestamp, load_parser,*)
(* clear).                                                                 *)
THEOREM ValidAnswersAreFresh == Spec => []LookupsFresh
<1>1. TInv => LookupsFresh
  BY DEF TInv
<1> QED BY InitTInv, NextTInv, <1>1, PTL DEF Spec

-----------------------------------------------------------------------------
(* What follows from an entity in one direction of a relation.             *)
Targets(R) == {r[2] : r \in R}
Converse(R) == {<<r[2], r[1]>> : r \in R}
ClosedUnder(R, S) == \A r \in R : r[1] \in S => r[2] \in S
Onwards(R, S) == S \cup {r[2] : r \in {s \in R : s[1] \in S}}

(* There are no more targets than pairs.                                   *)
LEMMA TargetsAreFinite ==
    ASSUME NEW R, IsFiniteSet(R)
    PROVE  IsFiniteSet(Targets(R)) /\ Cardinality(Targets(R)) <= Cardinality(R)
<1> DEFINE f == [r \in R |-> r[2]]
<1>1. f \in Surjection(R, Targets(R))
  BY DEF Targets, Surjection
<1> QED BY <1>1, FS_Surjection

(* As many steps as there are pairs reach everything: a step that adds     *)
(* nothing is the last one that matters.                                   *)
LEMMA ReachIsLeast ==
    ASSUME NEW R, IsFiniteSet(R), NEW c
    PROVE  /\ c \in Reach(R, c) /\ ClosedUnder(R, Reach(R, c))
           /\ \A S : c \in S /\ ClosedUnder(R, S) => Reach(R, c) \subseteq S
<1> DEFINE N == Cardinality(R)
           all == {c} \cup Targets(R)
           Eq(f) == f = [n \in 0..N |-> IF n = 0 THEN {c} ELSE Onwards(R, f[n - 1])]
           V == SUBSET all
           F == [p \in Nat \X V |-> Onwards(R, p[2])]
<1>1. N \in Nat /\ IsFiniteSet(all) /\ Cardinality(all) \in Nat /\ Cardinality(all) <= N + 1
  <2>1. /\ N \in Nat /\ IsFiniteSet(Targets(R)) /\ Cardinality(Targets(R)) \in Nat
        /\ Cardinality(Targets(R)) <= N
    BY FS_CardinalityType, TargetsAreFinite
  <2>2. /\ IsFiniteSet(Targets(R) \cup {c})
        /\ Cardinality(Targets(R) \cup {c}) \in {Cardinality(Targets(R)), Cardinality(Targets(R)) + 1}
    BY <2>1, FS_AddElement
  <2>3. all = Targets(R) \cup {c}
    OBVIOUS
  <2> HIDE DEF all, N
  <2> QED BY <2>1, <2>2, <2>3
<1>2. {c} \in V
  OBVIOUS
<1>3. \A S \in V : Onwards(R, S) \in V
  BY DEF Onwards, Targets
<1>4. F \in [Nat \X V -> V]
  BY <1>3
<1> HIDE DEF V, N
<1>5. \E f : Eq(f)
  <2>1. PICK f \in [0..N -> V] : Stepwise(f, N, {c}, F)
    <3> HIDE DEF F
    <3> QED BY <1>1, <1>2, <1>4, StepByStep
  <2>2. ASSUME NEW k \in 0..N, k # 0 PROVE F[<<k, f[k - 1]>>] = Onwards(R, f[k - 1])
    <3>1. k \in Nat /\ k - 1 \in 0..N
      BY <1>1, <2>2
    <3>2. f[k - 1] \in V
      BY <2>1, <3>1
    <3> QED BY <3>1, <3>2
  <2> HIDE DEF F
  <2>3. f = [k \in 0..N |-> IF k = 0 THEN {c} ELSE Onwards(R, f[k - 1])]
    BY <2>1, <2>2 DEF Stepwise
  <2> QED BY <2>3
<1> DEFINE step == CHOOSE f : Eq(f)
<1>6. Eq(step)
  <2> HIDE DEF Eq
  <2> QED BY <1>5
<1>7. Reach(R, c) = step[N]
  BY DEF Reach, N, Onwards
<1> HIDE DEF step
<1>8. step[0] = {c}
  BY <1>1, <1>6
<1>9. ASSUME NEW k \in 1..N PROVE step[k] = Onwards(R, step[k - 1]) /\ k \in Nat /\ k - 1 \in 0..N
  <2>1. k \in 0..N /\ k # 0 /\ k \in Nat /\ k - 1 \in 0..N
    BY <1>1
  <2> QED BY <2>1, <1>6
<1>10. ASSUME NEW S, c \in S, ClosedUnder(R, S)
       PROVE  step[N] \subseteq S
  <2> DEFINE P == {k \in 0..N : step[k] \subseteq S}
  <2>1. 0 \in P
    BY <1>1, <1>8, <1>10
  <2>2. ASSUME NEW k \in 1..N, k - 1 \in P PROVE k \in P
    <3>1. step[k] \subseteq S
      BY <1>9, <1>10, <2>2 DEF Onwards, ClosedUnder
    <3> QED BY <3>1, <1>1
  <2> HIDE DEF P
  <2>3. 0..N \subseteq P
    BY <1>1, <2>1, <2>2, FromZero
  <2> QED BY <2>3, <1>1 DEF P
<1>11. 0..N \subseteq {k \in 0..N : step[k] \in V /\ c \in step[k]}
  <2> DEFINE P == {k \in 0..N : step[k] \in V /\ c \in step[k]}
  <2>1. 0 \in P
    BY <1>1, <1>2, <1>8
  <2>2. ASSUME NEW k \in 1..N, k - 1 \in P PROVE k \in P
    <3>1. step[k] \in V /\ c \in step[k]
      BY <1>3, <1>9, <2>2 DEF Onwards
    <3> QED BY <3>1, <1>1
  <2> HIDE DEF P
  <2>3. 0..N \subseteq P
    BY <1>1, <2>1, <2>2, FromZero
  <2> QED BY <2>3 DEF P
<1>12. \A k \in 0..N : /\ step[k] \in SUBSET all /\ IsFiniteSet(step[k]) /\ Cardinality(step[k]) \in Nat
  BY <1>1, <1>11, FS_Subset, FS_CardinalityType DEF V
<1>13. ASSUME ~ClosedUnder(R, step[N]) PROVE Cardinality(step[N]) >= N + 1
  <2> DEFINE P == {k \in 0..N : ClosedUnder(R, step[k]) \/ Cardinality(step[k]) >= k + 1}
  <2>1. 0 \in P
    <3>1. Cardinality({c}) = 1
      BY FS_Singleton
    <3> QED BY <1>1, <1>8, <3>1
  <2>2. ASSUME NEW k \in 1..N, k - 1 \in P PROVE k \in P
    <3> DEFINE S == step[k - 1]
    <3>1. step[k] = Onwards(R, S) /\ IsFiniteSet(S) /\ IsFiniteSet(step[k]) /\ k \in 0..N
          /\ Cardinality(S) \in Nat /\ Cardinality(step[k]) \in Nat
      BY <1>1, <1>9, <1>12
    <3> HIDE DEF S
    <3>2. CASE ClosedUnder(R, S)
      <4>1. step[k] = S
        BY <3>1, <3>2 DEF Onwards, ClosedUnder
      <4> QED BY <4>1, <3>1, <3>2
    <3>3. CASE ~ClosedUnder(R, S)
      <4>1. Cardinality(S) >= (k - 1) + 1
        BY <2>2, <3>3 DEF S
      <4>2. PICK r \in R : r[1] \in S /\ r[2] \notin S
        BY <3>3 DEF ClosedUnder
      <4>3. S \cup {r[2]} \in SUBSET step[k]
        BY <3>1, <4>2 DEF Onwards
      <4>4. Cardinality(S \cup {r[2]}) = Cardinality(S) + 1
        BY <3>1, <4>2, FS_AddElement
      <4>5. Cardinality(S \cup {r[2]}) <= Cardinality(step[k])
        BY <3>1, <4>3, FS_Subset
      <4>6. Cardinality(step[k]) >= k + 1
        BY <4>1, <4>4, <4>5, <3>1, <1>1
      <4> QED BY <4>6, <3>1
    <3> QED BY <3>2, <3>3
  <2> HIDE DEF P
  <2>3. 0..N \subseteq P
    BY <1>1, <2>1, <2>2, FromZero
  <2> QED BY <2>3, <1>1, <1>13 DEF P
<1>14. ClosedUnder(R, step[N])
  <2> SUFFICES ASSUME ~ClosedUnder(R, step[N]) PROVE FALSE
    OBVIOUS
  <2>1. N \in 0..N /\ step[N] \in SUBSET all /\ Cardinality(step[N]) \in Nat
    BY <1>1, <1>12
  <2>2. Cardinality(step[N]) <= Cardinality(all)
    BY <1>1, <2>1, FS_Subset
  <2>3. Cardinality(all) = Cardinality(step[N])
    BY <1>1, <1>13, <2>1, <2>2
  <2>4. step[N] = all
    BY <1>1, <2>1, <2>3, FS_Subset
  <2>5. ClosedUnder(R, all)
    BY DEF ClosedUnder, Targets
  <2> QED BY <2>4, <2>5
<1>15. c \in step[N]
  BY <1>1, <1>11
<1> QED BY <1>7, <1>10, <1>14, <1>15

(* What is above an entity has it below it.                                *)
LEMMA ReachBack ==
    ASSUME NEW R, IsFiniteSet(R), IsFiniteSet(Converse(R)), NEW c, NEW d \in Reach(R, c)
    PROVE  c \in Reach(Converse(R), d)
<1> DEFINE T == Reach(Converse(R), d)
           S == Reach(R, c) \ T
<1>1. d \in T /\ ClosedUnder(Converse(R), T)
  BY ReachIsLeast
<1>2. c \in Reach(R, c) /\ ClosedUnder(R, Reach(R, c))
  BY ReachIsLeast
<1> HIDE DEF T
<1>3. ASSUME NEW r \in R, r[2] \in T PROVE r[1] \in T
  <2> DEFINE e == <<r[2], r[1]>>
  <2>1. e \in Converse(R) /\ e[1] = r[2] /\ e[2] = r[1]
    BY DEF Converse
  <2> QED BY <2>1, <1>1, <1>3 DEF ClosedUnder
<1>4. ClosedUnder(R, S)
  BY <1>2, <1>3 DEF ClosedUnder
<1>5. ASSUME c \notin T PROVE FALSE
  <2>1. c \in S
    BY <1>2, <1>5
  <2> HIDE DEF S
  <2>2. Reach(R, c) \subseteq S
    BY <2>1, <1>4, ReachIsLeast
  <2> QED BY <2>2, <1>1 DEF S
<1> QED BY <1>5 DEF T

(* What is reached from what is reached is reached.                        *)
LEMMA ReachOn ==
    ASSUME NEW R, IsFiniteSet(R), NEW c, NEW d \in Reach(R, c)
    PROVE  Reach(R, d) \subseteq Reach(R, c)
<1>1. ClosedUnder(R, Reach(R, c))
  BY ReachIsLeast
<1> QED BY <1>1, ReachIsLeast

(* An entity with nothing above it reaches itself only.                    *)
LEMMA ReachNothing ==
    ASSUME NEW R, IsFiniteSet(R), NEW c, \A r \in R : r[1] = c => r[2] = c
    PROVE  Reach(R, c) \subseteq {c}
<1>1. ClosedUnder(R, {c})
  BY DEF ClosedUnder
<1> QED BY <1>1, ReachIsLeast

(* What is reached in no step, or from what one step leads to.             *)
LEMMA ReachUnfolds ==
    ASSUME NEW R, IsFiniteSet(R), NEW c
    PROVE  Reach(R, c) = {c} \cup UNION {Reach(R, d) : d \in {r[2] : r \in {s \in R : s[1] = c}}}
<1> DEFINE next == {r[2] : r \in {s \in R : s[1] = c}}
           all == {c} \cup UNION {Reach(R, d) : d \in next}
<1>1. \A d : /\ d \in Reach(R, d) /\ ClosedUnder(R, Reach(R, d))
             /\ \A S : d \in S /\ ClosedUnder(R, S) => Reach(R, d) \subseteq S
  BY ReachIsLeast
<1>2. ClosedUnder(R, all)
  <2> SUFFICES ASSUME NEW r \in R, r[1] \in all PROVE r[2] \in all
    BY DEF ClosedUnder
  <2>1. CASE r[1] = c
    <3>1. r[2] \in next /\ r[2] \in Reach(R, r[2])
      BY <2>1, <1>1
    <3> QED BY <3>1
  <2>2. CASE r[1] # c
    <3>1. PICK d \in next : r[1] \in Reach(R, d)
      BY <2>2
    <3>2. r[2] \in Reach(R, d)
      BY <3>1, <1>1 DEF ClosedUnder
    <3> QED BY <3>1, <3>2
  <2> QED BY <2>1, <2>2
<1>3. Reach(R, c) \subseteq all
  <2>1. c \in all
    OBVIOUS
  <2> HIDE DEF all
  <2> QED BY <1>1, <1>2, <2>1
<1>4. ASSUME NEW d \in next PROVE Reach(R, d) \subseteq Reach(R, c)
  <2>1. d \in Reach(R, c)
    BY <1>1 DEF ClosedUnder
  <2> HIDE DEF next
  <2> QED BY <2>1, <1>1
<1>5. all \subseteq Reach(R, c)
  BY <1>1, <1>4
<1> QED BY <1>3, <1>5

(* With the entity itself, what lies beyond is what is reached.            *)
LEMMA BeyondAndSelf ==
    ASSUME NEW R, IsFiniteSet(R), NEW c
    PROVE  {c} \cup Beyond(R, c) = Reach(R, c)
<1>1. Beyond(R, c) = UNION {Reach(R, d) : d \in {r[2] : r \in {s \in R : s[1] = c}}}
  BY DEF Beyond
<1> QED BY <1>1, ReachUnfolds

(* An entity that is declared might as well be looked up.                  *)
LEMMA ClosureOfDeclared ==
    ASSUME NEW c \in Declared, NEW S
    PROVE  Closure(c, S) = Found(Kind[c], {c} \cup S)
<1> DEFINE T == {c} \cup S
           same == {e \in S : Kind[e] = Kind[c]}
           sameT == {e \in T : Kind[e] = Kind[c]}
<1>1. (T \subseteq Declared <=> S \subseteq Declared) /\ sameT = {c} \cup same
      /\ (sameT = T <=> same = S)
  OBVIOUS
<1> QED BY <1>1 DEF Closure, Found

-----------------------------------------------------------------------------
(* What loaded ontologies say about subsumption.                           *)
LEMMA SubsumptionIsFinite ==
    ASSUME graph \subseteq File
    PROVE  LET R == All(SubOf) IN
           /\ R \subseteq Entity \X Entity /\ IsFiniteSet(R) /\ IsFiniteSet(Converse(R))
           /\ Converse(Converse(R)) = R
<1> DEFINE R == All(SubOf)
<1>1. R \subseteq Entity \X Entity
  BY OntologyAssumption DEF All
<1>2. IsFiniteSet(Entity \X Entity)
  BY FS_Product, OntologyAssumption
<1>3. Converse(R) \subseteq Entity \X Entity
  BY <1>1 DEF Converse
<1>4. Converse(Converse(R)) = R
  <2> HIDE DEF R
  <2>1. \A r \in R : r = <<r[1], r[2]>>
    BY <1>1
  <2>2. ASSUME NEW r \in R PROVE r \in Converse(Converse(R))
    <3> DEFINE s == <<r[2], r[1]>>
    <3>1. s \in Converse(R) /\ <<s[2], s[1]>> = r
      BY <2>1 DEF Converse
    <3> HIDE DEF s
    <3> QED BY <3>1 DEF Converse
  <2>3. ASSUME NEW r \in Converse(Converse(R)) PROVE r \in R
    <3>1. PICK s \in Converse(R) : r = <<s[2], s[1]>>
      BY <2>3 DEF Converse
    <3>2. PICK t \in R : s = <<t[2], t[1]>>
      BY DEF Converse
    <3> QED BY <3>1, <3>2, <2>1
  <2> QED BY <2>2, <2>3
<1> HIDE DEF R
<1> QED BY <1>1, <1>2, <1>3, <1>4, FS_Subset DEF R

(* Up and down are two directions of one relation, which is transitive.    *)
LEMMA GraphsAgree == ASSUME graph \subseteq File PROVE ClosuresAgree
<1> DEFINE R == All(SubOf)
           Up(c) == Answers(About("superclasses", c))
           Down(d) == Answers(About("subclasses", d))
           up == UNION {{c} \X (UNION Up(c)) : c \in Declared}
           down == UNION {(UNION Down(d)) \X {d} : d \in Declared}
           comparable == {p \in {u[1] : u \in up} \X {v[2] : v \in down} :
               Kind[p[1]] = Kind[p[2]] /\ ~(p[1] \in Rdfs /\ p[2] \in TopOf(p[2]))}
           Same(x, y) == Kind[x] = Kind[y]
           Super(c) == Reach(R, c) \cup TopOf(c)
           Sub(d) == {d} \cup Subclasses(d)
<1>1. /\ R \subseteq Entity \X Entity /\ IsFiniteSet(R) /\ IsFiniteSet(Converse(R))
      /\ Converse(Converse(R)) = R
  BY SubsumptionIsFinite
<1>2. /\ \A c \in Declared : Up(c) = Found(Kind[c], Super(c))
      /\ \A d \in Declared : Down(d) = Found(Kind[d], Sub(d))
  <2>1. /\ \A c : Up(c) = Closure(c, Superclasses(c))
        /\ \A d : Down(d) = Closure(d, Subclasses(d))
    BY DEF Answers, About, Question
  <2>2. \A c : {c} \cup Superclasses(c) = Super(c)
    <3> TAKE c
    <3>1. {c} \cup Beyond(R, c) = Reach(R, c)
      BY <1>1, BeyondAndSelf
    <3> QED BY <3>1 DEF Superclasses
  <2> HIDE DEF Up, Down, Super
  <2> QED BY <2>1, <2>2, ClosureOfDeclared
<1>3. \A c, d : <<c, d>> \in up <=> c \in Declared /\ d \in UNION Up(c)
  OBVIOUS
<1>4. \A c, d : <<c, d>> \in down <=> d \in Declared /\ c \in UNION Down(d)
  OBVIOUS
<1>5. ASSUME NEW k, NEW S, NEW x
      PROVE  /\ x \in UNION Found(k, S) => Found(k, S) # {} /\ x \in S
             /\ Found(k, S) # {} /\ x \in S /\ Kind[x] = k => x \in UNION Found(k, S)
             /\ x \in UNION Found(k, S) /\ k # "annotation" => Kind[x] = k
  BY DEF Found
<1>6. ASSUME NEW c, NEW d, Same(c, d) PROVE TopOf(c) = TopOf(d)
  BY <1>6 DEF TopOf
<1>7. \A c, d : d \in Reach(R, c) <=> c \in Reach(Converse(R), d)
  <2> HIDE DEF R
  <2> QED BY <1>1, ReachBack
<1>8. \A d : d \notin TopOf(d) => Sub(d) = Reach(Converse(R), d)
  <2> SUFFICES ASSUME NEW d, d \notin TopOf(d) PROVE Sub(d) = Reach(Converse(R), d)
    OBVIOUS
  <2>1. Subclasses(d) = Beyond(Converse(R), d)
    BY DEF Subclasses, Converse
  <2> QED BY <1>1, <2>1, BeyondAndSelf
<1>9. \A c, d \in Declared : <<c, d>> \in comparable =>
          (d \in Super(c) <=> c \in Sub(d))
  <2> SUFFICES ASSUME NEW c \in Declared, NEW d \in Declared, <<c, d>> \in comparable
               PROVE  d \in Super(c) <=> c \in Sub(d)
    OBVIOUS
  <2>1. Same(c, d) /\ ~(c \in Rdfs /\ d \in TopOf(d)) /\ TopOf(c) = TopOf(d)
    BY <1>6
  <2>2. CASE d \in TopOf(d)
    BY <2>1, <2>2 DEF Subclasses
  <2>3. CASE d \notin TopOf(d)
    BY <2>1, <2>3, <1>7, <1>8
  <2> QED BY <2>2, <2>3
<1>10. ASSUME NEW c, NEW d, <<c, d>> \in comparable
       PROVE  c \in Declared /\ d \in Declared /\ Same(c, d) /\ Up(c) # {} /\ Down(d) # {}
  <2>1. /\ \E u \in up : c = u[1]
        /\ \E v \in down : d = v[2]
        /\ Same(c, d)
    BY <1>10
  <2> QED BY <2>1
<1> HIDE DEF up, down, comparable, Up, Down, R, Super, Sub
<1>11. ASSUME NEW c, NEW d, <<c, d>> \in comparable
       PROVE  <<c, d>> \in up <=> <<c, d>> \in down
  BY <1>2, <1>3, <1>4, <1>5, <1>9, <1>10, <1>11
<1>12. ASSUME NEW c, NEW d, NEW e, <<c, d>> \in up, <<d, e>> \in up, Same(c, d)
       PROVE  <<c, e>> \in up
  <2>1. /\ c \in Declared /\ d \in Super(c) /\ e \in Super(d) /\ Up(c) # {}
        /\ d \in Declared /\ e \in UNION Up(d) /\ TopOf(c) = TopOf(d)
    BY <1>2, <1>3, <1>5, <1>6, <1>12
  <2>2. e \in Super(c)
    <3>1. CASE e \in TopOf(d)
      BY <2>1, <3>1 DEF Super
    <3>2. CASE e \in Reach(R, d) /\ d \in Reach(R, c)
      BY <1>1, <3>2, ReachOn DEF Super, R
    <3>3. CASE e \in Reach(R, d) /\ d \in TopOf(c)
      <4>1. d = Top[Kind[d]]
        BY <1>12, <3>3 DEF TopOf
      <4>2. \A r \in R : r[1] = d => r[2] = d
        BY <4>1, OntologyAssumption DEF R, All
      <4>3. e = d
        BY <1>1, <4>2, <3>3, ReachNothing
      <4> QED BY <4>3, <2>1
    <3> QED BY <2>1, <3>1, <3>2, <3>3 DEF Super, R
  <2>3. e \in UNION Up(c)
    <3>1. CASE Kind[c] # "annotation"
      BY <3>1, <2>1, <2>2, <1>2, <1>5, <1>12
    <3>2. CASE Kind[c] = "annotation"
      <4>1. Found(Kind[c], Super(c)) = {Super(c)}
        BY <3>2, <2>1, <1>2 DEF Found
      <4> QED BY <4>1, <2>1, <2>2, <1>2
    <3> QED BY <3>1, <3>2
  <2> QED BY <2>1, <2>3, <1>3
<1>13. /\ \A p \in up : p = <<p[1], p[2]>>
       /\ \A p \in down : p = <<p[1], p[2]>>
  BY DEF up, down
<1>14. up \cap comparable = down \cap comparable
  BY <1>11, <1>13
<1>15. \A p, r \in up : p[2] = r[1] /\ Kind[p[1]] = Kind[r[1]] => <<p[1], r[2]>> \in up
  BY <1>12, <1>13
<1> QED BY <1>14, <1>15 DEF ClosuresAgree, up, down, comparable, Up, Down

(* Asking upwards and asking downwards gives the same answer, in every     *)
(* terminology made of such ontologies (_get_superclasses,                 *)
(* _get_subclasses).                                                       *)
THEOREM ClosuresAlwaysAgree == Spec => []ClosuresAgree
<1>1. Init => graph \subseteq File
  BY TerminologyAssumption DEF Init
<1>2. graph \subseteq File /\ [Next]_vars => (graph \subseteq File)'
  <2> SUFFICES ASSUME graph \subseteq File, [Next]_vars PROVE graph' \subseteq File
    OBVIOUS
  <2>1. CASE Load
    BY <2>1 DEF Load, LoadParser
  <2>2. CASE Reset
    BY <2>2, TerminologyAssumption DEF Reset, Clear
  <2>3. CASE Rename \/ Forget \/ Query \/ EditData \/ Tick \/ UNCHANGED vars
    BY <2>3 DEF Rename, Bind, Forget, Unbind, Query, Ask, EditData, ClearData, Classify, Tick,
                vars, terminology
  <2> QED BY <2>1, <2>2, <2>3 DEF Next
<1> QED BY <1>1, <1>2, GraphsAgree, PTL DEF Spec

-----------------------------------------------------------------------------
Bindings == UNION {[D -> Name \cup {None}] : D \in SUBSET Iri}

(* A name is added to those that there are.                                *)
LEMMA RebindsAdds ==
    ASSUME NEW ns \in Bindings, NEW n \in Name, NEW i \in Iri
    PROVE  Rebinds(ns, n, i) \in Bindings /\ DOMAIN Rebinds(ns, n, i) = DOMAIN ns \cup {i}
<1>1. PICK D \in SUBSET Iri : ns \in [D -> Name \cup {None}]
  BY DEF Bindings
<1>2. Rebinds(ns, n, i) \in [D \cup {i} -> Name \cup {None}]
  BY <1>1 DEF Rebinds
<1> QED BY <1>1, <1>2 DEF Bindings

(* Binding one name after the other loses none, and gets to the end if it  *)
(* does not raise.                                                         *)
LEMMA BindAllBinds ==
    ASSUME NEW ns \in Bindings, NEW names \in Seq(Name \X Iri)
    PROVE  /\ BindAll(ns, names).namespaces \in Bindings
           /\ ~BindAll(ns, names).raised =>
                 /\ DOMAIN ns \subseteq DOMAIN BindAll(ns, names).namespaces
                 /\ \A b \in Range(names) : b[2] \in DOMAIN BindAll(ns, names).namespaces
<1> DEFINE N == Len(names)
           start == [namespaces |-> ns, raised |-> FALSE]
           Next1(k, so) == LET n == names[k][1] i == names[k][2]
                 IN  IF so.raised \/ Conflict(so.namespaces, n, i)
                     THEN [so EXCEPT !.raised = TRUE]
                     ELSE [so EXCEPT !.namespaces = Rebinds(@, n, i)]
           Eq(f) == f = [k \in 0..N |-> IF k = 0 THEN start ELSE Next1(k, f[k - 1])]
           V == [namespaces : Bindings, raised : BOOLEAN]
           F == [p \in Nat \X V |-> IF p[1] \in 1..N THEN Next1(p[1], p[2]) ELSE p[2]]
           Good(k, so) ==
               so.raised \/ /\ DOMAIN ns \subseteq DOMAIN so.namespaces
                            /\ \A j \in 1..k : names[j][2] \in DOMAIN so.namespaces
<1>1. N \in Nat /\ start \in V /\ Good(0, start)
  OBVIOUS
<1>2. ASSUME NEW k \in 1..N, NEW so \in V
      PROVE  Next1(k, so) \in V /\ (Good(k - 1, so) => Good(k, Next1(k, so)))
  <2> DEFINE n == names[k][1]
             i == names[k][2]
  <2>1. n \in Name /\ i \in Iri
    OBVIOUS
  <2> HIDE DEF n, i
  <2>2. CASE so.raised \/ Conflict(so.namespaces, n, i)
    BY <2>2 DEF n, i
  <2>3. CASE ~(so.raised \/ Conflict(so.namespaces, n, i))
    <3>1. Next1(k, so) = [so EXCEPT !.namespaces = Rebinds(@, n, i)]
      BY <2>3 DEF n, i
    <3> HIDE DEF Next1
    <3>2. /\ Next1(k, so) \in V /\ Next1(k, so).raised = so.raised
          /\ DOMAIN Next1(k, so).namespaces = DOMAIN so.namespaces \cup {i}
      <4> DEFINE new == Rebinds(so.namespaces, n, i)
      <4>1. new \in Bindings /\ DOMAIN new = DOMAIN so.namespaces \cup {i}
        <5> DEFINE ns1 == so.namespaces
        <5>1. ns1 \in Bindings
          OBVIOUS
        <5> HIDE DEF ns1
        <5>2. Rebinds(ns1, n, i) \in Bindings /\ DOMAIN Rebinds(ns1, n, i) = DOMAIN ns1 \cup {i}
          BY <2>1, <5>1, RebindsAdds
        <5> QED BY <5>2 DEF ns1
      <4> HIDE DEF new
      <4>2. Next1(k, so) = [so EXCEPT !.namespaces = new]
        BY <3>1 DEF new
      <4> QED BY <4>1, <4>2
    <3>3. \A j \in 1..k : j = k \/ j \in 1..k - 1
      BY <1>1
    <3> QED BY <2>3, <3>2, <3>3 DEF i
  <2> QED BY <2>2, <2>3
<1> HIDE DEF Next1, start, N, V, Good
<1>3. F \in [Nat \X V -> V]
  BY <1>2
<1>4. \E f : Eq(f)
  <2>1. PICK f \in [0..N -> V] : Stepwise(f, N, start, F)
    <3> HIDE DEF F
    <3> QED BY <1>1, <1>3, StepByStep
  <2>2. ASSUME NEW k \in 0..N, k # 0 PROVE F[<<k, f[k - 1]>>] = Next1(k, f[k - 1])
    <3>1. k \in Nat /\ k - 1 \in 0..N /\ k \in 1..N
      BY <1>1, <2>2
    <3>2. f[k - 1] \in V
      BY <2>1, <3>1
    <3> QED BY <3>1, <3>2
  <2> HIDE DEF F
  <2> QED BY <2>1, <2>2 DEF Stepwise
<1> DEFINE after == CHOOSE f : Eq(f)
<1>5. Eq(after)
  <2> HIDE DEF Eq
  <2> QED BY <1>4
<1>6. BindAll(ns, names) = after[N]
  BY DEF BindAll, Next1, start, N
<1> HIDE DEF after
<1>7. 0..N \subseteq {k \in 0..N : after[k] \in V /\ Good(k, after[k])}
  <2> DEFINE P == {k \in 0..N : after[k] \in V /\ Good(k, after[k])}
  <2>1. 0 \in P
    BY <1>1, <1>5
  <2>2. ASSUME NEW k \in 1..N, k - 1 \in P PROVE k \in P
    <3>1. k \in 0..N /\ k # 0
      BY <1>1
    <3>2. after[k] = Next1(k, after[k - 1])
      BY <3>1, <1>5
    <3> QED BY <3>1, <3>2, <2>2, <1>2
  <2> HIDE DEF P
  <2>3. 0..N \subseteq P
    BY <1>1, <2>1, <2>2, FromZero
  <2> QED BY <2>3 DEF P
<1>8. after[N] \in V /\ Good(N, after[N])
  BY <1>1, <1>7
<1>9. \A b \in Range(names) : \E j \in 1..N : names[j] = b
  BY DEF Range, N
<1> QED BY <1>6, <1>8, <1>9 DEF V, Good

-----------------------------------------------------------------------------
(* A function with a value of C for every argument that C has.             *)
LEMMA IsChoice ==
    ASSUME NEW C, NEW f
    PROVE  f \in Choices(C) <=> /\ f = [a \in DOMAIN C |-> f[a]]
                                /\ \A a \in DOMAIN C : f[a] \in C[a]
BY DEF Choices, Range

(* Fewer pairs lead to fewer places.                                       *)
LEMMA ReachGrows ==
    ASSUME NEW R, IsFiniteSet(R), NEW P \in SUBSET R, NEW c
    PROVE  Reach(P, c) \subseteq Reach(R, c)
<1>1. IsFiniteSet(P)
  BY FS_Subset
<1>2. c \in Reach(R, c) /\ ClosedUnder(R, Reach(R, c))
  BY ReachIsLeast
<1>3. ClosedUnder(P, Reach(R, c))
  BY <1>2 DEF ClosedUnder
<1> QED BY <1>1, <1>2, <1>3, ReachIsLeast

-----------------------------------------------------------------------------
(* The classes right above a class.                                        *)
Above(c) == {r[2] : r \in {s \in Lineage : s[1] = c}}

(* The classes above a class that has some.                                *)
LEMMA LineageIsFinite ==
    ASSUME graph \subseteq File
    PROVE  /\ IsFiniteSet(Lineage) /\ \A r \in Lineage : Kind[r[2]] = "class" /\ r[2] \in Entity
           /\ \A a : LET P == {s \in Lineage : Open(s[1], a)} IN P \in SUBSET Lineage /\ IsFiniteSet(P)
<1>1. All(SubOf) \subseteq Entity \X Entity /\ IsFiniteSet(All(SubOf))
  BY SubsumptionIsFinite
<1>2. Lineage \subseteq All(SubOf)
  BY DEF Lineage
<1>3. IsFiniteSet(Lineage)
  BY <1>1, <1>2, FS_Subset
<1>4. \A a : {s \in Lineage : Open(s[1], a)} \in SUBSET Lineage
  OBVIOUS
<1>5. \A P \in SUBSET Lineage : IsFiniteSet(P)
  BY <1>3, FS_Subset
<1>6. \A r \in Lineage : Kind[r[2]] = "class" /\ r[2] \in Entity
  BY <1>1 DEF Lineage
<1> QED BY <1>3, <1>4, <1>5, <1>6

(* A class is among its ancestors, with those of the classes above it.     *)
LEMMA AncestorsUnfold ==
    ASSUME graph \subseteq File, NEW c
    PROVE  /\ Ancestors(c) = {c} \cup UNION {Ancestors(d) : d \in Above(c)}
           /\ AllAttributes(c) = OwnAttributes(c) \cup UNION {AllAttributes(d) : d \in Above(c)}
<1>1. Ancestors(c) = {c} \cup UNION {Ancestors(d) : d \in Above(c)}
  BY LineageIsFinite, ReachUnfolds DEF Ancestors, Above
<1> QED BY <1>1 DEF AllAttributes

(* The sources of a default are the class, if it is not open, and those of *)
(* the classes above it, if it is.                                         *)
LEMMA SourcesUnfold ==
    ASSUME graph \subseteq File, NEW c, NEW a
    PROVE  /\ ~Open(c, a) => Sources(c, a) = {c}
           /\ Open(c, a) => Sources(c, a) = {c} \cup UNION {Sources(d, a) : d \in Above(c)}
           /\ Sources(c, a) \subseteq Ancestors(c)
<1> DEFINE P == {s \in Lineage : Open(s[1], a)}
           next == {r[2] : r \in {s \in P : s[1] = c}}
<1>1. IsFiniteSet(Lineage) /\ IsFiniteSet(P) /\ P \in SUBSET Lineage
  BY LineageIsFinite
<1>2. \A d : Sources(d, a) = Reach(P, d)
  BY DEF Sources
<1>3. next = IF Open(c, a) THEN Above(c) ELSE {}
  BY DEF Above
<1>4. Sources(c, a) = {c} \cup UNION {Sources(d, a) : d \in next}
  <2> HIDE DEF P
  <2> QED BY <1>1, <1>2, ReachUnfolds
<1>5. Sources(c, a) \subseteq Ancestors(c)
  <2> HIDE DEF P
  <2> QED BY <1>1, <1>2, ReachGrows DEF Ancestors
<1> HIDE DEF next
<1> QED BY <1>3, <1>4, <1>5

-----------------------------------------------------------------------------
(* The value is a default of a source, and if it is false, then every      *)
(* source is open.                                                         *)
LEMMA IsInherited ==
    ASSUME NEW c, NEW a, NEW x
    PROVE  x \in Inherited(c, a) <=>
              /\ \E d \in Sources(c, a) : x \in Defaults(d, a)
              /\ x \in Falsy => \A d \in Sources(c, a) : Open(d, a)
<1>1. CASE \A d \in Sources(c, a) : Open(d, a)
  BY <1>1 DEF Inherited
<1>2. CASE ~\A d \in Sources(c, a) : Open(d, a)
  BY <1>2 DEF Inherited
<1> QED BY <1>1, <1>2

(* Where no class above restricts an attribute, all sources are open, and  *)
(* have no default.                                                        *)
LEMMA UnrestrictedIsOpen ==
    ASSUME graph \subseteq File, NEW d, NEW a \in Attribute \cap Declared, a \notin AllAttributes(d)
    PROVE  \A e \in Sources(d, a) : Open(e, a) /\ Defaults(e, a) = {}
<1>1. Sources(d, a) \subseteq Ancestors(d)
  BY SourcesUnfold
<1>2. \A e \in Ancestors(d) : Defaults(e, a) = {}
  BY DEF AllAttributes, OwnAttributes
<1> QED BY <1>1, <1>2 DEF Open

(* Own defaults, and all of them.                                          *)
LEMMA IsDefaults ==
    ASSUME NEW c, NEW f
    PROVE  /\ f \in OwnDefaults(c) <=>
                 /\ f = [a \in OwnAttributes(c) |-> f[a]]
                 /\ \A a \in OwnAttributes(c) : f[a] \in Defaults(c, a)
           /\ f \in AllDefaults(c) <=>
                 /\ f = [a \in AllAttributes(c) |-> f[a]]
                 /\ \A a \in AllAttributes(c) : f[a] \in Inherited(c, a)
<1> DEFINE own == [a \in OwnAttributes(c) |-> Defaults(c, a)]
           all == [a \in AllAttributes(c) |-> Inherited(c, a)]
<1>1. /\ DOMAIN own = OwnAttributes(c) /\ \A a \in OwnAttributes(c) : own[a] = Defaults(c, a)
      /\ DOMAIN all = AllAttributes(c) /\ \A a \in AllAttributes(c) : all[a] = Inherited(c, a)
  OBVIOUS
<1>2. OwnDefaults(c) = Choices(own) /\ AllDefaults(c) = Choices(all)
  BY DEF OwnDefaults, AllDefaults
<1> HIDE DEF own, all
<1>3. f \in Choices(own) <=> f = [a \in OwnAttributes(c) |-> f[a]]
                             /\ \A a \in OwnAttributes(c) : f[a] \in Defaults(c, a)
  BY <1>1, IsChoice
<1>4. f \in Choices(all) <=> f = [a \in AllAttributes(c) |-> f[a]]
                             /\ \A a \in AllAttributes(c) : f[a] \in Inherited(c, a)
  BY <1>1, IsChoice
<1> QED BY <1>2, <1>3, <1>4

(* The domains of what `attributes' collects.                              *)
LEMMA CollectedAttributes ==
    ASSUME graph \subseteq File, NEW c, NEW own \in OwnDefaults(c) \cup AllDefaults(c),
           NEW g, \A d \in Above(c) : g[d] \in AllDefaults(d)
    PROVE  /\ \A d \in Above(c) : DOMAIN g[d] = AllAttributes(d)
           /\ DOMAIN own \cup UNION {DOMAIN f : f \in {g[d] : d \in Above(c)}} = AllAttributes(c)
           /\ own \in OwnDefaults(c) => DOMAIN own = OwnAttributes(c)
                                        /\ \A a \in OwnAttributes(c) : own[a] \in Defaults(c, a)
           /\ own \notin OwnDefaults(c) => DOMAIN own = AllAttributes(c)
                                        /\ \A a \in AllAttributes(c) : own[a] \in Inherited(c, a)
<1>1. \A d \in Above(c) : DOMAIN g[d] = AllAttributes(d)
  BY IsDefaults
<1>2. own \in OwnDefaults(c) => DOMAIN own = OwnAttributes(c)
                                /\ \A a \in OwnAttributes(c) : own[a] \in Defaults(c, a)
  BY IsDefaults
<1>3. own \in AllDefaults(c) => DOMAIN own = AllAttributes(c)
                                /\ \A a \in AllAttributes(c) : own[a] \in Inherited(c, a)
  BY IsDefaults
<1>4. AllAttributes(c) = OwnAttributes(c) \cup UNION {AllAttributes(d) : d \in Above(c)}
  BY AncestorsUnfold
<1>5. UNION {DOMAIN f : f \in {g[d] : d \in Above(c)}} = UNION {AllAttributes(d) : d \in Above(c)}
  BY <1>1
<1> QED BY <1>1, <1>2, <1>3, <1>4, <1>5

(* `attributes' inherits what it should, whether the dictionary that it    *)
(* starts with has the own attributes, or those it collected earlier.      *)
LEMMA InheritIsRight ==
    ASSUME graph \subseteq File, NEW c, NEW own \in OwnDefaults(c) \cup AllDefaults(c),
           NEW g, \A d \in Above(c) : g[d] \in AllDefaults(d),
           NEW f \in Inherit(own, {g[d] : d \in Above(c)})
    PROVE  f \in AllDefaults(c)
<1> DEFINE G == {g[d] : d \in Above(c)}
           V(a) == {h[a] : h \in {k \in G : a \in DOMAIN k}}
           From(a) == Truthy(V(a))
           Value(a) == IF a \in DOMAIN own /\ (own[a] \notin Falsy \/ From(a) = {})
                       THEN {own[a]} ELSE From(a)
           D == DOMAIN own \cup UNION {DOMAIN h : h \in G}
<1>0. /\ \A d \in Above(c) : DOMAIN g[d] = AllAttributes(d)
      /\ D = AllAttributes(c)
      /\ \/ /\ DOMAIN own = OwnAttributes(c)
            /\ \A a \in OwnAttributes(c) : own[a] \in Defaults(c, a)
         \/ /\ DOMAIN own = AllAttributes(c)
            /\ \A a \in AllAttributes(c) : own[a] \in Inherited(c, a)
  BY CollectedAttributes
<1>1. D = AllAttributes(c)
  BY <1>0
<1>2. f \in Choices([a \in D |-> Value(a)])
  BY DEF Inherit
<1>3. f = [a \in D |-> f[a]] /\ \A a \in D : f[a] \in Value(a)
  <2> HIDE DEF D, Value
  <2>1. DOMAIN [a \in D |-> Value(a)] = D /\ \A a \in D : [b \in D |-> Value(b)][a] = Value(a)
    OBVIOUS
  <2> QED BY <1>2, <2>1, IsChoice
<1>4. ASSUME NEW a \in AllAttributes(c) PROVE f[a] \in Inherited(c, a)
  <2> DEFINE x == f[a]
  <2>1. x \in Value(a)
    BY <1>1, <1>3, <1>4
  <2>2. a \in Attribute \cap Declared
    BY <1>4 DEF AllAttributes, OwnAttributes
  <2>3. \A d \in Above(c) : /\ DOMAIN g[d] = AllAttributes(d)
                            /\ a \in AllAttributes(d) => g[d][a] \in Inherited(d, a)
    BY <1>0, IsDefaults
  <2>4. \A y : y \in V(a) <=> \E d \in Above(c) : a \in AllAttributes(d) /\ y = g[d][a]
    BY <2>3
  <2>5. ASSUME NEW d \in Above(c), V(a) \subseteq Falsy
        PROVE  \A e \in Sources(d, a) : Open(e, a)
    <3>1. CASE a \in AllAttributes(d)
      BY <3>1, <2>3, <2>4, <2>5, IsInherited
    <3>2. CASE a \notin AllAttributes(d)
      BY <3>2, <2>2, UnrestrictedIsOpen
    <3> QED BY <3>1, <3>2
  <2>6. c \in Sources(c, a)
    BY SourcesUnfold
  <2>7. a \in DOMAIN own => \/ own[a] \in Inherited(c, a)
                            \/ own[a] \in Defaults(c, a)
    BY <1>0
  <2>8. a \notin DOMAIN own => Defaults(c, a) = {}
    BY <2>2, <1>4, <1>0 DEF OwnAttributes
  <2>9. CASE a \in DOMAIN own /\ own[a] \notin Falsy
    <3>1. x = own[a]
      BY <2>1, <2>9
    <3> QED BY <3>1, <2>6, <2>7, <2>9, IsInherited
  <2>10. a \notin DOMAIN own \/ own[a] \in Falsy => Open(c, a)
    BY <2>6, <2>7, <2>8, IsInherited DEF Open
  <2> HIDE DEF x
  <2>11. CASE a \in DOMAIN own /\ own[a] \in Falsy /\ From(a) = {}
    <3>1. x = own[a] /\ V(a) = {}
      <4> HIDE DEF V
      <4> QED BY <2>1, <2>11 DEF Truthy
    <3>2. \A e \in Sources(c, a) : Open(e, a)
      <4> HIDE DEF V
      <4> QED BY <2>5, <2>10, <2>11, <3>1, SourcesUnfold
    <3> QED BY <3>1, <3>2, <2>6, <2>7, <2>11, IsInherited DEF x
  <2>12. CASE x \in From(a) /\ (a \notin DOMAIN own \/ own[a] \in Falsy)
    <3>1. x \in V(a) /\ (x \in Falsy => V(a) \subseteq Falsy)
      <4> HIDE DEF V
      <4> QED BY <2>12 DEF Truthy
    <3>2. PICK d \in Above(c) : a \in AllAttributes(d) /\ x = g[d][a]
      <4> HIDE DEF V
      <4> QED BY <3>1, <2>4
    <3>3. PICK e \in Sources(d, a) : x \in Defaults(e, a)
      BY <3>2, <2>3, IsInherited
    <3>4. Sources(c, a) = {c} \cup UNION {Sources(h, a) : h \in Above(c)} /\ Open(c, a)
      BY <2>10, <2>12, SourcesUnfold
    <3>5. x \in Falsy => \A h \in Sources(c, a) : Open(h, a)
      <4> HIDE DEF V
      <4> QED BY <3>1, <3>4, <2>5
    <3> QED BY <3>2, <3>3, <3>4, <3>5, IsInherited DEF x
  <2>13. x \in Value(a) => \/ a \in DOMAIN own /\ own[a] \notin Falsy
                           \/ a \in DOMAIN own /\ own[a] \in Falsy /\ From(a) = {}
                           \/ x \in From(a) /\ (a \notin DOMAIN own \/ own[a] \in Falsy)
    <3> HIDE DEF From
    <3> QED OBVIOUS
  <2> QED BY <2>1, <2>9, <2>11, <2>12, <2>13 DEF x
<1>5. f = [a \in AllAttributes(c) |-> f[a]]
  BY <1>1, <1>3
<1> QED BY <1>4, <1>5, IsDefaults

-----------------------------------------------------------------------------
(* What a cached answer may be.  The dictionary of own attributes may have *)
(* become that of all.                                                     *)
Right(q) ==
    IF q.method = "own" THEN OwnDefaults(q.self) \cup AllDefaults(q.self) ELSE Fresh(q)

(* What a valid answer is, unless a load was interrupted.                  *)
Excused(q) ==
    \/ q.method = "namespace" /\ "rebound" \in since
         /\ (cached[q] = None \/ q.self \in Within[cached[q]])
    \/ q.method = "individual" /\ {"reclassified", "reloaded"} \cap since # {}
AllFresh ==
    \A q \in DOMAIN cached :
        Valid(q) /\ "interrupted" \notin since => cached[q] \in Right(q) \/ Excused(q)

CInv == TypeOK /\ program \in Programs /\ Times /\ AllFresh

-----------------------------------------------------------------------------
(* What is asked is a question that there is.                              *)
LEMMA AskedQuestions ==
    ASSUME program \in Programs, NEW q \in program.asks
    PROVE  /\ q.method \in Methods
           /\ q.method \in {"own", "attributes", "optional"} =>
                 q.self \in Entity /\ Kind[q.self] = "class"
           /\ q.method = "individual" => q.self \in Individual
BY ProgramAssumption

(* What answers should be depends on the graph, for namespaces on their    *)
(* names, and for individuals on their classes.                            *)
LEMMA RightStays ==
    ASSUME graph' = graph, NEW q, q.method \in Methods,
           q.method = "namespace" => namespaces' = namespaces,
           q.method = "individual" => types' = types
    PROVE  Right(q)' = Right(q)
<1>1. /\ Declared' = Declared /\ All(SubOf)' = All(SubOf) /\ All(Restricts)' = All(Restricts)
      /\ All(Domains)' = All(Domains)
  BY DEF Declared, All
<1>2. /\ \A d, a : Defaults(d, a)' = Defaults(d, a)
      /\ \A d : OwnAttributes(d)' = OwnAttributes(d) /\ OwnOptional(d)' = OwnOptional(d)
      /\ Lineage' = Lineage
  BY <1>1 DEF Defaults, OwnAttributes, OwnOptional, Lineage
<1>3. \A d : Ancestors(d)' = Ancestors(d)
  BY <1>2 DEF Ancestors
<1>4. \A d, a : Open(d, a)' = Open(d, a)
  BY <1>2 DEF Open
<1>5. \A d, a : Sources(d, a)' = Sources(d, a)
  BY <1>2, <1>4 DEF Sources
<1>6. \A d, a : Inherited(d, a)' = Inherited(d, a)
  BY <1>2, <1>4, <1>5 DEF Inherited
<1>7. \A d : AllAttributes(d)' = AllAttributes(d)
  BY <1>2, <1>3 DEF AllAttributes
<1>8. \A d : AllDefaults(d)' = AllDefaults(d)
  BY <1>6, <1>7 DEF AllDefaults
<1>9. \A d : OwnDefaults(d)' = OwnDefaults(d)
  BY <1>2 DEF OwnDefaults
<1>10. CASE q.method = "own"
  BY <1>8, <1>9, <1>10 DEF Right
<1>11. CASE q.method = "attributes"
  BY <1>8, <1>11 DEF Right, Fresh
<1>12. CASE q.method = "optional"
  BY <1>2, <1>3, <1>12 DEF Right, Fresh
<1>13. CASE q.method = "get"
  BY <1>1, <1>13 DEF Right, Fresh, Lookup
<1>14. CASE q.method = "individual"
  BY <1>1, <1>14 DEF Right, Fresh, Closure, Found, Superclasses
<1>15. CASE q.method = "namespace"
  BY <1>15 DEF Right, Fresh, Answers, NamespacesOf
<1>16. CASE q.method \in Lookups
  <2>1. Right(q) = Answers(q) /\ Right(q)' = Answers(q)'
    BY <1>16 DEF Right, Fresh, Lookups
  <2> QED BY <2>1, <1>16, AnswersStay
<1> QED BY <1>10, <1>11, <1>12, <1>13, <1>14, <1>15, <1>16 DEF Methods, Lookups

-----------------------------------------------------------------------------
(* The direct superclasses of a class.                                     *)
LEMMA DirectIsAbove ==
    ASSUME NEW c, Kind[c] = "class", NEW v \in Fresh(About("direct", c))
    PROVE  v = Above(c)
<1> DEFINE S == DirectSuperclasses(c)  same == {e \in S : Kind[e] = "class"}
<1>1. v \in Found("class", S)
  BY DEF Fresh, Answers, About, Question
<1>2. v = same
  BY <1>1 DEF Found
<1>3. same = Above(c)
  BY DEF DirectSuperclasses, Above, Lineage
<1> QED BY <1>2, <1>3

(* A question that was answered, with nothing interrupted, has a valid and *)
(* right answer.                                                           *)
LEMMA NeededIsRight ==
    ASSUME AllFresh, NEW p, Valid(p), "interrupted" \notin since,
           p.method \notin {"namespace", "individual"}
    PROVE  p \in DOMAIN cached /\ cached[p] \in Right(p)
BY DEF AllFresh, Excused, Valid

(* What is computed from right answers is right.                           *)
LEMMA AnswersAreRight ==
    ASSUME CInv, NEW q \in program.asks, "interrupted" \notin since,
           \A p \in Needs(q) : Valid(p), NEW v \in Answers(q)
    PROVE  v \in Right(q)
<1> DEFINE c == q.self  direct == About("direct", c)  own == About("own", c)
           att(d) == About("attributes", d)  opt(d) == About("optional", d)
           sup(d) == About("superclasses", d)
           word == Question("labelled", None, q.word)
<1>1. /\ graph \subseteq File /\ AllFresh /\ q.method \in Methods
      /\ q.method \in {"attributes", "optional"} => Kind[c] = "class"
      /\ q.method = "individual" => types[c] \subseteq Class
  <2>1. q.method = "individual" => q.self \in Individual
    BY AskedQuestions DEF CInv
  <2> QED BY <2>1, AskedQuestions DEF CInv, TypeOK
<1>2. /\ own.method = "own" /\ own.self = c /\ direct.method = "direct"
      /\ \A d : att(d).method = "attributes" /\ att(d).self = d
      /\ \A d : opt(d).method = "optional" /\ opt(d).self = d
      /\ \A d : sup(d).method = "superclasses" /\ sup(d).self = d
      /\ word.method = "labelled" /\ word.word = q.word
  BY DEF About, Question
<1>3. CASE q.method \in Lookups \cup {"namespace"}
  BY <1>3 DEF Right, Fresh, Lookups
<1>4. CASE q.method = "own"
  BY <1>4 DEF Right, Answers
<1>5. CASE q.method = "attributes"
  <2>1. Valid(own) /\ Valid(direct)
    BY <1>5 DEF Needs
  <2>2. direct \in DOMAIN cached /\ cached[direct] = Above(c)
    <3>1. direct \in DOMAIN cached /\ cached[direct] \in Right(direct)
      BY <2>1, <1>1, <1>2, NeededIsRight
    <3>2. Right(direct) = Fresh(direct)
      BY <1>2 DEF Right
    <3> QED BY <3>1, <3>2, <1>1, <1>5, DirectIsAbove
  <2>3. cached[own] \in OwnDefaults(c) \cup AllDefaults(c)
    BY <2>1, <1>1, <1>2, NeededIsRight DEF Right
  <2> DEFINE g == [d \in Above(c) |-> cached[att(d)]]
  <2>4. \A d \in Above(c) : g[d] \in AllDefaults(d)
    <3> TAKE d \in Above(c)
    <3>1. Valid(att(d))
      BY <1>5, <2>2 DEF Needs
    <3>2. cached[att(d)] \in Right(att(d))
      BY <3>1, <1>1, <1>2, NeededIsRight
    <3>3. Right(att(d)) = AllDefaults(d)
      BY <1>2 DEF Right, Fresh
    <3> QED BY <3>2, <3>3
  <2>5. {g[d] : d \in Above(c)} = {cached[att(d)] : d \in cached[direct]}
    BY <2>2
  <2>6. v \in Inherit(cached[own], {cached[att(d)] : d \in cached[direct]})
    BY <1>5 DEF Answers
  <2>7. v \in AllDefaults(c)
    <3> HIDE DEF g, own
    <3> QED BY <2>3, <2>4, <2>5, <2>6, <1>1, InheritIsRight
  <2> QED BY <2>7, <1>5 DEF Right, Fresh
<1>6. CASE q.method = "optional"
  <2>1. Valid(direct)
    BY <1>6 DEF Needs
  <2>2. direct \in DOMAIN cached /\ cached[direct] = Above(c)
    <3>1. direct \in DOMAIN cached /\ cached[direct] \in Right(direct)
      BY <2>1, <1>1, <1>2, NeededIsRight
    <3>2. Right(direct) = Fresh(direct)
      BY <1>2 DEF Right
    <3> QED BY <3>1, <3>2, <1>1, <1>6, DirectIsAbove
  <2> DEFINE all(d) == UNION {OwnOptional(e) : e \in Ancestors(d)}
  <2>3. ASSUME NEW d \in Above(c) PROVE cached[opt(d)] = all(d)
    <3>1. Valid(opt(d))
      BY <1>6, <2>2, <2>3 DEF Needs
    <3>2. cached[opt(d)] \in Right(opt(d))
      BY <3>1, <1>1, <1>2, NeededIsRight
    <3>3. Right(opt(d)) = {all(d)}
      BY <1>2 DEF Right, Fresh
    <3> QED BY <3>2, <3>3
  <2>4. v = OwnOptional(c) \cup UNION {cached[opt(d)] : d \in Above(c)}
    BY <1>6, <2>2 DEF Answers
  <2>5. Ancestors(c) = {c} \cup UNION {Ancestors(d) : d \in Above(c)}
    BY <1>1, AncestorsUnfold
  <2>6. v = OwnOptional(c) \cup UNION {all(d) : d \in Above(c)}
    BY <2>3, <2>4
  <2>7. v = all(c)
    BY <2>5, <2>6
  <2> QED BY <2>7, <1>6 DEF Right, Fresh
<1>7. CASE q.method = "get"
  <2> DEFINE L == Labelled[q.word] \cap Declared
  <2>1. word \in DOMAIN cached => Valid(word)
    BY <1>2 DEF Valid, Expired, StampOf
  <2>2. word \in DOMAIN cached => cached[word] \in {L} \ {{}}
    <3>1. Right(word) = {L} \ {{}}
      BY <1>2 DEF Right, Fresh, Answers
    <3> QED BY <2>1, <3>1, <1>1, <1>2, NeededIsRight
  <2>3. L # {} => word \in DOMAIN cached
    BY <1>7 DEF Needs, Valid
  <2>4. (IF word \in DOMAIN cached THEN cached[word] ELSE {}) = L
    BY <2>2, <2>3
  <2> QED BY <2>4, <1>7 DEF Answers, Right, Fresh
<1>8. CASE q.method = "individual"
  <2>1. ASSUME NEW d \in types[c] PROVE cached[sup(d)] = UNION Closure(d, Superclasses(d))
    <3>1. Valid(sup(d)) /\ Kind[d] = "class"
      BY <1>1, <1>8, <2>1 DEF Needs, Class
    <3>2. cached[sup(d)] \in Right(sup(d))
      BY <3>1, <1>1, <1>2, NeededIsRight
    <3>3. Right(sup(d)) = Closure(d, Superclasses(d))
      BY <1>2, <3>1 DEF Right, Fresh, Answers
    <3> QED BY <3>2, <3>3 DEF Closure, Found
  <2>2. v = UNION {cached[sup(d)] : d \in types[c]}
    BY <1>8 DEF Answers
  <2>3. v = UNION {UNION Closure(d, Superclasses(d)) : d \in types[c]}
    BY <2>1, <2>2
  <2> QED BY <2>3, <1>8 DEF Right, Fresh
<1> QED BY <1>1, <1>3, <1>4, <1>5, <1>6, <1>7, <1>8 DEF Methods, Lookups

-----------------------------------------------------------------------------
(* Names are bindings; the names of a file leave bindings.                 *)
LEMMA BindingsTyped ==
    /\ \A ns : ns \in Bindings <=> ns \in [DOMAIN ns -> Name \cup {None}] /\ DOMAIN ns \subseteq Iri
BY DEF Bindings

(* The names of the base ontologies are bindings.                          *)
LEMMA BaseNamesTyped == BaseNames \in Bindings
<1> DEFINE all == UNION {Range(Names[f]) : f \in Base}
           D == {b[2] : b \in all}
<1>1. all \subseteq Name \X Iri
  <2> SUFFICES ASSUME NEW f \in Base PROVE Range(Names[f]) \subseteq Name \X Iri
    OBVIOUS
  <2>1. Names[f] \in Seq(Name \X Iri)
    BY TerminologyAssumption
  <2> QED BY <2>1 DEF Range
<1>2. D \subseteq Iri
  BY <1>1
<1>3. ASSUME NEW i \in D PROVE (CHOOSE n \in Name : <<n, i>> \in all) \in Name
  <2>1. PICK b \in all : b[2] = i
    BY <1>3
  <2>2. b[1] \in Name /\ <<b[1], i>> \in all
    BY <1>1, <2>1
  <2> HIDE DEF all
  <2> QED BY <2>2
<1>4. BaseNames = [i \in D |-> CHOOSE n \in Name : <<n, i>> \in all]
  BY DEF BaseNames
<1> HIDE DEF all, D
<1> QED BY <1>2, <1>3, <1>4 DEF Bindings

-----------------------------------------------------------------------------
(* What remains valid was valid, where the time of the last change and the *)
(* time of the cache are the same.                                         *)
LEMMA ValidBefore ==
    ASSUME NEW q, Valid(q)', q \in DOMAIN cached,
           held'[Cache(q)] = held[Cache(q)], stamp' = stamp,
           q.method = "individual" => dataStamp' = dataStamp
    PROVE  Valid(q)
<1>1. StampOf(q)' = StampOf(q)
  BY DEF StampOf
<1> QED BY <1>1 DEF Valid, Expired, Cache

(* After a change that is noticed only the answers about individuals are   *)
(* valid, and they are known to be what they were.                         *)
LEMMA NoticedChange ==
    ASSUME Times, Times', stamp' = clock, cached' = WithoutLabels, held' = held,
           "reloaded" \in since', DOMAIN cached \subseteq program.asks, program \in Programs
    PROVE  AllFresh'
<1> SUFFICES ASSUME NEW q \in DOMAIN cached', Valid(q)' PROVE Excused(q)'
  BY DEF AllFresh
<1>1. q.method # "labelled" /\ q \in DOMAIN cached
  BY DEF WithoutLabels
<1>2. q.method \in Methods
  BY <1>1, AskedQuestions
<1>3. CASE q.method = "individual"
  BY <1>3 DEF Excused
<1>4. CASE q.method # "individual"
  <2>1. StampOf(q)' = clock
    BY <1>1, <1>4 DEF StampOf
  <2>2. held[Cache(q)] \in Nat /\ held[Cache(q)] <= clock /\ clock # None /\ clock \in Nat
    BY <1>1, TerminologyAssumption DEF Times
  <2> QED BY <2>1, <2>2 DEF Valid, Expired, Cache
<1> QED BY <1>3, <1>4

(* Loading files and binding their names.                                  *)
LEMMA LoadParserConsistent ==
    ASSUME CInv, NEW f \in File, LoadParser(f, f), UNCHANGED <<clock, dataStamp, types, held, program>>
    PROVE  CInv'
<1> DEFINE bound == BindAll(namespaces, Names[f])
<1>1. bound.namespaces \in Bindings
  BY BindingsTyped, BindAllBinds, TerminologyAssumption DEF CInv, TypeOK
<1>2. /\ graph' = graph \cup {f} /\ namespaces' = bound.namespaces
      /\ bound.raised => since' = since \cup {"interrupted", "reloaded"} /\ UNCHANGED <<stamp, cached>>
      /\ ~bound.raised => /\ since' = Noticed \cup {"reloaded"}
                          /\ stamp' = clock /\ cached' = WithoutLabels
  BY DEF LoadParser
<1> HIDE DEF bound
<1>3. /\ DOMAIN cached' \subseteq DOMAIN cached /\ stamp' \in {stamp, clock}
      /\ since' \subseteq since \cup {"interrupted", "reloaded"}
  BY <1>2 DEF WithoutLabels, Noticed
<1>4. TypeOK'
  <2>1. namespaces' \in [DOMAIN namespaces' -> Name \cup {None}] /\ DOMAIN namespaces' \subseteq Iri
    BY <1>1, <1>2, BindingsTyped
  <2>2. stamp' \in 0..clock' /\ clock' \in 0..MaxClock
    BY <1>3, TerminologyAssumption DEF CInv, TypeOK
  <2>3. {Cache(q) : q \in DOMAIN cached'} \subseteq DOMAIN held'
    BY <1>3 DEF CInv, TypeOK
  <2> QED BY <1>2, <1>3, <2>1, <2>2, <2>3 DEF CInv, TypeOK, Unnoticed
<1>5. Times'
  BY <1>3 DEF CInv, Times, Cache
<1>6. AllFresh'
  <2>1. CASE bound.raised
    BY <2>1, <1>2 DEF AllFresh
  <2>2. CASE ~bound.raised
    BY <2>2, <1>2, <1>5, NoticedChange DEF CInv, TypeOK
  <2> QED BY <2>1, <2>2
<1> QED BY <1>4, <1>5, <1>6 DEF CInv

(* Emptying the terminology.                                               *)
LEMMA ClearConsistent ==
    ASSUME CInv, Reset
    PROVE  CInv'
<1>1. /\ graph' = Base /\ namespaces' = BaseNames /\ stamp' = clock /\ cached' = WithoutLabels
      /\ since' = Noticed \cup {"reloaded"} /\ UNCHANGED <<clock, dataStamp, types, held, program>>
  BY DEF Reset, Clear
<1>2. DOMAIN cached' \subseteq DOMAIN cached /\ since' \subseteq since \cup {"reloaded"}
  BY <1>1 DEF WithoutLabels, Noticed
<1>3. TypeOK'
  <2>1. namespaces' \in [DOMAIN namespaces' -> Name \cup {None}] /\ DOMAIN namespaces' \subseteq Iri
    BY <1>1, BaseNamesTyped, BindingsTyped
  <2>2. stamp' \in 0..clock' /\ clock' \in 0..MaxClock
    BY <1>1, TerminologyAssumption DEF CInv, TypeOK
  <2>3. {Cache(q) : q \in DOMAIN cached'} \subseteq DOMAIN held'
    BY <1>1, <1>2 DEF CInv, TypeOK
  <2> QED BY <1>1, <1>2, <2>1, <2>2, <2>3, TerminologyAssumption DEF CInv, TypeOK, Unnoticed
<1>4. Times'
  BY <1>1, <1>2 DEF CInv, Times, Cache
<1>5. AllFresh'
  BY <1>1, <1>4, NoticedChange DEF CInv, TypeOK
<1> QED BY <1>1, <1>3, <1>4, <1>5 DEF CInv

(* Binding and unbinding a name.                                           *)
LEMMA RenameConsistent ==
    ASSUME CInv, Rename \/ Forget
    PROVE  CInv'
<1>1. /\ UNCHANGED <<graph, clock, stamp, dataStamp, types, held, cached, program>>
      /\ since' = since \cup {"rebound"}
  BY DEF Rename, Forget, Bind, Unbind
<1>2. namespaces' \in [DOMAIN namespaces' -> Name \cup {None}] /\ DOMAIN namespaces' \subseteq Iri
  <2>1. CASE Rename
    <3>1. PICK n \in Name \cup {None}, i \in program.binds : Bind(n, i)
      BY <2>1 DEF Rename
    <3>2. i \in Iri
      BY ProgramAssumption DEF CInv
    <3>3. namespaces' = Rebinds(namespaces, n, i)
      BY <3>1 DEF Bind
    <3> QED BY <3>2, <3>3 DEF Rebinds, CInv, TypeOK
  <2>2. CASE Forget
    <3>1. PICK x : Unbind(x)
      BY <2>2 DEF Forget
    <3>2. namespaces' = [i \in {j \in DOMAIN namespaces : namespaces[j] # x /\ j # x}
                             |-> namespaces[i]]
      BY <3>1 DEF Unbind
    <3> QED BY <3>2 DEF CInv, TypeOK
  <2> QED BY <2>1, <2>2
<1>3. TypeOK'
  BY <1>1, <1>2 DEF CInv, TypeOK, Unnoticed, Cache
<1>4. Times'
  BY <1>1 DEF CInv, Times, Cache
<1>5. ASSUME NEW q \in DOMAIN cached', Valid(q)', "interrupted" \notin since'
      PROVE  cached'[q] \in Right(q)' \/ Excused(q)'
  <2>1. Valid(q) /\ q \in DOMAIN cached /\ cached'[q] = cached[q] /\ "interrupted" \notin since
    BY <1>1, <1>5, ValidBefore
  <2>2. cached[q] \in Right(q) \/ Excused(q)
    BY <2>1 DEF CInv, AllFresh
  <2>3. q.method \in Methods
    BY <2>1, AskedQuestions DEF CInv, TypeOK
  <2>4. CASE q.method = "namespace"
    <3>1. cached[q] = None \/ q.self \in Within[cached[q]]
      BY <2>2, <2>4 DEF Right, Fresh, Answers, NamespacesOf, Excused
    <3> QED BY <3>1, <2>1, <2>4, <1>1 DEF Excused
  <2>5. CASE q.method # "namespace"
    <3>1. Right(q)' = Right(q)
      BY <1>1, <2>3, <2>5, RightStays
    <3> QED BY <3>1, <2>1, <2>2, <2>5, <1>1 DEF Excused
  <2> QED BY <2>4, <2>5
<1> QED BY <1>1, <1>3, <1>4, <1>5 DEF CInv, AllFresh

(* Changes of individuals and of the session they are in.                  *)
LEMMA EditConsistent ==
    ASSUME CInv, EditData
    PROVE  CInv'
<1>1. UNCHANGED <<graph, namespaces, clock, stamp, held, cached, program>>
  BY DEF EditData, ClearData, Classify
<1>2. \/ /\ dataStamp' = dataStamp /\ since' = since \cup {"reclassified"}
         /\ \E i : \E C \in SUBSET Class : types' = [types EXCEPT ![i] = C]
      \/ /\ dataStamp' = clock /\ since' = since \ {"reclassified", "reloaded"}
         /\ types' = [i \in Individual |-> {}]
  BY DEF EditData, ClearData, Classify
<1>3. types' \in [Individual -> SUBSET Class]
  BY <1>2 DEF CInv, TypeOK
<1>4. TypeOK'
  <2>1. Class' = Class
    BY DEF Class
  <2>2. dataStamp' \in {None} \cup 0..clock'
    BY <1>1, <1>2 DEF CInv, TypeOK
  <2> QED BY <1>1, <1>2, <1>3, <2>1, <2>2 DEF CInv, TypeOK, Unnoticed, Cache
<1>5. Times'
  BY <1>1 DEF CInv, Times, Cache
<1>6. ASSUME NEW q \in DOMAIN cached', Valid(q)', "interrupted" \notin since'
      PROVE  cached'[q] \in Right(q)' \/ Excused(q)'
  <2>1. q \in DOMAIN cached /\ cached'[q] = cached[q] /\ "interrupted" \notin since
    BY <1>1, <1>2, <1>6
  <2>2. q.method \in Methods
    BY <2>1, AskedQuestions DEF CInv, TypeOK
  <2>3. CASE q.method = "individual"
    <3>1. CASE dataStamp' = clock
      <4>1. held[Cache(q)] \in Nat /\ held[Cache(q)] <= clock /\ clock # None /\ clock \in Nat
        BY <2>1, TerminologyAssumption DEF CInv, Times
      <4>2. StampOf(q)' = clock
        BY <3>1, <2>3 DEF StampOf
      <4> QED BY <4>1, <4>2, <1>1, <1>6 DEF Valid, Expired, Cache
    <3>2. CASE since' = since \cup {"reclassified"}
      BY <3>2, <2>3 DEF Excused
    <3> QED BY <3>1, <3>2, <1>2
  <2>4. CASE q.method # "individual"
    <3>1. Valid(q)
      BY <1>1, <1>6, <2>1, <2>4, ValidBefore
    <3>2. cached[q] \in Right(q) \/ Excused(q)
      BY <3>1, <2>1 DEF CInv, AllFresh
    <3>3. Right(q)' = Right(q)
      BY <1>1, <2>2, <2>4, RightStays
    <3>4. "rebound" \in since => "rebound" \in since'
      BY <1>2
    <3> QED BY <3>2, <3>3, <3>4, <2>1, <2>4 DEF Excused
  <2> QED BY <2>3, <2>4
<1> QED BY <1>1, <1>4, <1>5, <1>6 DEF CInv, AllFresh

(* Time passes.                                                            *)
LEMMA TickConsistent ==
    ASSUME CInv, Tick \/ UNCHANGED vars
    PROVE  CInv'
<1>1. /\ UNCHANGED <<graph, namespaces, stamp, since, dataStamp, types, held, cached, program>>
      /\ clock' \in 0..MaxClock /\ clock <= clock'
  BY TerminologyAssumption DEF Tick, vars, terminology, CInv, TypeOK
<1>2. TypeOK'
  <2>1. stamp' \in 0..clock' /\ dataStamp' \in {None} \cup 0..clock'
    BY <1>1, TerminologyAssumption DEF CInv, TypeOK
  <2> QED BY <1>1, <2>1 DEF CInv, TypeOK, Cache, Class
<1>3. Times'
  BY <1>1 DEF CInv, Times, Cache
<1>4. ASSUME NEW q \in DOMAIN cached', Valid(q)', "interrupted" \notin since'
      PROVE  cached'[q] \in Right(q)' \/ Excused(q)'
  <2>1. Valid(q) /\ q \in DOMAIN cached /\ q.method \in Methods
    BY <1>1, <1>4, ValidBefore, AskedQuestions DEF CInv, TypeOK
  <2>2. Right(q)' = Right(q)
    BY <1>1, <2>1, RightStays
  <2> QED BY <1>1, <1>4, <2>1, <2>2 DEF CInv, AllFresh, Excused
<1> QED BY <1>1, <1>2, <1>3, <1>4 DEF CInv, AllFresh

(* An answer is right when it is given, and the answers that stay are what *)
(* they were, but for the dictionary that attributes are collected in.     *)
LEMMA AskConsistent ==
    ASSUME CInv, NEW q \in program.asks, Ask(q)
    PROVE  CInv'
<1> DEFINE h == Cache(q)
           renewed == h \notin DOMAIN held \/ Expired(q)
           kept == {p \in DOMAIN cached : ~renewed \/ Cache(p) # h}
           own == About("own", q.self)
<1>1. /\ held' = IF renewed
                 THEN [x \in DOMAIN held \cup {h} |-> IF x = h THEN clock ELSE held[x]]
                 ELSE held
      /\ UNCHANGED <<terminology, dataStamp, types, program>> /\ \A p \in Needs(q) : Valid(p)
  BY DEF Ask
<1>2. PICK v \in Answers(q) :
        cached' = [p \in kept \cup {q} |->
                      IF p = q \/ (q.method = "attributes" /\ p = own) THEN v ELSE cached[p]]
  BY DEF Ask
<1>3. /\ DOMAIN cached' = kept \cup {q} /\ cached'[q] = v
      /\ \A p \in kept : cached'[p] = IF p = q \/ (q.method = "attributes" /\ p = own)
                                      THEN v ELSE cached[p]
  BY <1>2
<1>4. /\ h \in DOMAIN held' /\ DOMAIN held \subseteq DOMAIN held'
      /\ \A x \in DOMAIN held : x # h \/ ~renewed => held'[x] = held[x]
      /\ \A x \in DOMAIN held' : (x \in DOMAIN held /\ held'[x] = held[x]) \/ held'[x] = clock
  BY <1>1
<1>5. UNCHANGED <<graph, namespaces, clock, stamp, since>>
  BY <1>1 DEF terminology
<1> HIDE DEF renewed
<1>6. TypeOK'
  <2>1. \A p \in DOMAIN cached' : p \in program.asks /\ Cache(p) \in DOMAIN held'
    BY <1>3, <1>4 DEF CInv, TypeOK
  <2>2. {Cache(p) : p \in DOMAIN cached'} \subseteq DOMAIN held'
    BY <2>1
  <2> QED BY <1>1, <1>5, <2>1, <2>2 DEF CInv, TypeOK, Class
<1>7. Times'
  <2>1. ASSUME NEW x \in DOMAIN held' PROVE held'[x] \in Nat /\ held'[x] <= clock
    BY <1>4, <2>1 DEF CInv, Times
  <2>2. ASSUME NEW p \in DOMAIN cached' PROVE Cache(p) \in DOMAIN held'
    BY <1>3, <1>4, <2>2 DEF CInv, Times
  <2> QED BY <1>5, <2>1, <2>2 DEF CInv, Times, Cache
<1>8. "interrupted" \notin since => v \in Right(q)
  BY <1>1, AnswersAreRight
<1>9. ASSUME NEW p \in DOMAIN cached', Valid(p)', "interrupted" \notin since'
      PROVE  cached'[p] \in Right(p)' \/ Excused(p)'
  <2>1. p \in program.asks /\ p.method \in Methods
    BY <1>1, <1>6, <1>9, AskedQuestions DEF CInv, TypeOK
  <2>2. Right(p)' = Right(p)
    BY <1>1, <1>5, <2>1, RightStays
  <2>3. CASE p = q
    BY <2>2, <2>3, <1>3, <1>5, <1>8, <1>9
  <2>4. CASE p # q /\ q.method = "attributes" /\ p = own
    <3>1. cached'[p] = v /\ v \in Right(q)
      BY <2>4, <1>3, <1>5, <1>8, <1>9
    <3>2. p.method = "own" /\ p.self = q.self
      BY <2>4 DEF About, Question
    <3> QED BY <3>1, <3>2, <2>2, <2>4 DEF Right, Fresh
  <2>5. CASE p # q /\ ~(q.method = "attributes" /\ p = own)
    <3>1. p \in kept /\ cached'[p] = cached[p] /\ p \in DOMAIN cached
      BY <2>5, <1>3, <1>9
    <3>2. held'[Cache(p)] = held[Cache(p)]
      BY <3>1, <1>4 DEF CInv, Times
    <3>3. Valid(p)
      BY <3>1, <3>2, <1>1, <1>5, <1>9, ValidBefore
    <3> QED BY <3>1, <3>3, <2>2, <1>5, <1>9 DEF CInv, AllFresh, Excused
  <2> QED BY <2>3, <2>4, <2>5
<1> QED BY <1>1, <1>6, <1>7, <1>9 DEF CInv, AllFresh

-----------------------------------------------------------------------------
(* Nothing is cached at first.                                             *)
LEMMA InitConsistent == Init => CInv
<1> SUFFICES ASSUME Init PROVE CInv
  OBVIOUS
<1>1. namespaces \in [DOMAIN namespaces -> Name \cup {None}] /\ DOMAIN namespaces \subseteq Iri
  BY BaseNamesTyped, BindingsTyped DEF Init
<1> QED BY <1>1, TerminologyAssumption DEF Init, CInv, TypeOK, Times, AllFresh

(* Every step keeps valid answers right.                                   *)
LEMMA NextConsistent == CInv /\ [Next]_vars => CInv'
<1> SUFFICES ASSUME CInv, [Next]_vars PROVE CInv'
  OBVIOUS
<1>1. CASE Load
  BY <1>1, LoadParserConsistent DEF Load
<1>2. CASE Reset
  BY <1>2, ClearConsistent
<1>3. CASE Rename \/ Forget
  BY <1>3, RenameConsistent
<1>4. CASE Query
  BY <1>4, AskConsistent DEF Query
<1>5. CASE EditData
  BY <1>5, EditConsistent
<1>6. CASE Tick \/ UNCHANGED vars
  BY <1>6, TickConsistent
<1> QED BY <1>1, <1>2, <1>3, <1>4, <1>5, <1>6 DEF Next

(* What a method answers from its cache (lru_cache_timestamp) is what it   *)
(* would compute from the graph, for every file, program and order of      *)
(* loads, renames, queries and ticks: also the attributes of a class,      *)
(* which are collected from cached answers about the classes above it and  *)
(* written into a cached dictionary that they share                        *)
(* (OntologyClass.attributes); excused are namespaces after a name was     *)
(* bound or unbound, and individuals after a change of types or of the     *)
(* terminology.                                                            *)
THEOREM CachesStayConsistent == Spec => []CachesConsistent
<1>1. CInv => CachesConsistent
  <2> SUFFICES ASSUME CInv PROVE CachedFresh
    BY DEF CInv, CachesConsistent
  <2> QED BY DEF CInv, AllFresh, CachedFresh, Right, Excused
<1> QED BY InitConsistent, NextConsistent, <1>1, PTL DEF Spec

-----------------------------------------------------------------------------
(* What a call makes of words: one word for each attribute of the match,   *)
(* and, with force only, defaults for others.                              *)
Matches(k, c, W, force, m) ==
    LET defaults   == cached[About("attributes", c)]
        obligatory == DOMAIN defaults
        optional   == cached[About("optional", c)]
    IN  /\ DOMAIN k \subseteq obligatory \cup optional
        /\ \A a \in DOMAIN k : k[a] \in W
        /\ \A a, b \in DOMAIN k : k[a] = k[b] => a = b
        /\ force \/ (obligatory \subseteq DOMAIN k /\ W \subseteq {k[a] : a \in DOMAIN k})
        /\ DOMAIN m = DOMAIN k \cup {a \in obligatory \ DOMAIN k : defaults[a] # None}

(* Every call that succeeds is such a match.                               *)
LEMMA CallMatches ==
    ASSUME NEW c, NEW W, NEW force, NEW m \in Call(c, W, force)
    PROVE  \E k : Matches(k, c, W, force, m)
<1> DEFINE defaults == cached[About("attributes", c)]
           obligatory == DOMAIN defaults
           optional == cached[About("optional", c)]
           C(D) == [a \in D |-> Keywords[a] \cap W]
           Given(D) == Choices(C(D))
           missing(k) == {a \in obligatory \ DOMAIN k : defaults[a] # None}
           result(k) == [a \in DOMAIN k \cup missing(k) |->
                            IF a \in DOMAIN k THEN k[a] ELSE defaults[a]]
<1> DEFINE Complete(k) ==
               LET D == DOMAIN k
                   Taken(S) == {k[a] : a \in S \cap D}
               IN  /\ \A a, b \in D : k[a] = k[b] => a = b
                   /\ \A a \in (obligatory \cup optional) \ D :
                         Keywords[a] \cap W \subseteq
                             Taken(IF a \in optional THEN optional ELSE Attribute)
                   /\ force \/ (obligatory \subseteq D /\ W \subseteq Taken(D))
           matches == {k \in UNION {Given(D) : D \in SUBSET (obligatory \cup optional)} :
                          Complete(k)}
<1>1. Call(c, W, force) = {result(k) : k \in matches}
  BY DEF Call
<1> HIDE DEF Given, defaults, optional
<1>2. PICK k \in matches : m = result(k)
  BY <1>1
<1>3. /\ k \in UNION {Given(D) : D \in SUBSET (obligatory \cup optional)}
      /\ \A a, b \in DOMAIN k : k[a] = k[b] => a = b
      /\ force \/ (obligatory \subseteq DOMAIN k /\ W \subseteq {k[a] : a \in DOMAIN k})
  BY <1>2
<1>4. PICK D \in SUBSET (obligatory \cup optional) : k \in Given(D)
  BY <1>3
<1>5. DOMAIN k = D /\ \A a \in D : k[a] \in W
  <2>1. DOMAIN C(D) = D /\ \A a \in D : C(D)[a] = Keywords[a] \cap W
    OBVIOUS
  <2>2. k \in Choices(C(D))
    BY <1>4 DEF Given
  <2> HIDE DEF C
  <2> QED BY <2>1, <2>2, IsChoice
<1>6. DOMAIN m = DOMAIN k \cup missing(k)
  BY <1>2
<1>7. Matches(k, c, W, force, m)
  BY <1>3, <1>4, <1>5, <1>6 DEF Matches, defaults, optional
<1> QED BY <1>7

(* A call that takes each word for one attribute has as many of both.      *)
LEMMA AsManyWords ==
    ASSUME NEW k, IsFiniteSet(DOMAIN k), NEW W, \A a \in DOMAIN k : k[a] \in W,
           \A a, b \in DOMAIN k : k[a] = k[b] => a = b, W \subseteq {k[a] : a \in DOMAIN k}
    PROVE  Cardinality(DOMAIN k) = Cardinality(W)
<1> DEFINE f == [a \in DOMAIN k |-> k[a]]
<1>1. f \in [DOMAIN k -> W] /\ \A a \in DOMAIN k : f[a] = k[a]
  OBVIOUS
<1>2. \A w \in W : \E a \in DOMAIN k : f[a] = w
  BY <1>1
<1> HIDE DEF f
<1>3. f \in Bijection(DOMAIN k, W)
  BY <1>1, <1>2 DEF Bijection, Injection, Surjection, IsInjective
<1>4. ExistsBijection(DOMAIN k, W)
  BY <1>3 DEF ExistsBijection
<1>5. IsFiniteSet(W) /\ Cardinality(W) = Cardinality(DOMAIN k)
  <2> DEFINE S == DOMAIN k
  <2>1. IsFiniteSet(S) /\ ExistsBijection(S, W)
    BY <1>4
  <2> HIDE DEF S
  <2>2. IsFiniteSet(W) /\ Cardinality(W) = Cardinality(S)
    BY <2>1, FS_Bijection
  <2> QED BY <2>2 DEF S
<1> QED BY <1>5

(* Where what is cached is right, creating an individual gives every       *)
(* attribute of its class a value, and no word is left over.               *)
LEMMA CreationIsComplete == CInv => CreationComplete
<1> SUFFICES ASSUME CInv, NEW c \in Class, "interrupted" \notin since,
                    \A p \in {About("attributes", c), About("optional", c)} :
                       p \in program.asks /\ Valid(p),
                    NEW W \in SUBSET Word
             PROVE  /\ \A m \in Call(c, W, FALSE) :
                          /\ AllAttributes(c) \subseteq DOMAIN m
                          /\ Cardinality(DOMAIN m) = Cardinality(W)
                    /\ \A m \in Call(c, W, TRUE) : \E f \in Fresh(About("attributes", c)) :
                          \A a \in DOMAIN f \ {b \in DOMAIN f : f[b] = None} : a \in DOMAIN m
  BY DEF CreationComplete
<1> DEFINE q == About("attributes", c)  o == About("optional", c)
           obligatory == DOMAIN cached[q]  optional == cached[o]
<1>1. /\ q.method = "attributes" /\ q.self = c /\ o.method = "optional" /\ o.self = c
  BY DEF About, Question
<1>2. cached[q] \in Right(q) /\ cached[o] \in Right(o)
  BY <1>1, NeededIsRight DEF CInv
<1>3. /\ cached[q] \in Fresh(q) /\ cached[q] \in AllDefaults(c)
      /\ cached[o] = UNION {OwnOptional(d) : d \in Ancestors(c)}
  BY <1>1, <1>2 DEF Right, Fresh
<1>4. obligatory = AllAttributes(c)
  BY <1>3, IsDefaults
<1>5. \A D \in SUBSET (obligatory \cup optional) : IsFiniteSet(D)
  <2>1. obligatory \cup optional \subseteq Entity
    BY <1>3, <1>4 DEF AllAttributes, OwnAttributes, OwnOptional, Attribute
  <2>2. IsFiniteSet(Entity)
    BY OntologyAssumption
  <2> HIDE DEF obligatory, optional
  <2> QED BY <2>1, <2>2, FS_Subset
<1>6. ASSUME NEW m \in Call(c, W, FALSE)
      PROVE  AllAttributes(c) \subseteq DOMAIN m /\ Cardinality(DOMAIN m) = Cardinality(W)
  <2>1. PICK k : /\ DOMAIN k \subseteq obligatory \cup optional
                 /\ \A a \in DOMAIN k : k[a] \in W
                 /\ \A a, b \in DOMAIN k : k[a] = k[b] => a = b
                 /\ obligatory \subseteq DOMAIN k /\ W \subseteq {k[a] : a \in DOMAIN k}
                 /\ DOMAIN m = DOMAIN k \cup {a \in obligatory \ DOMAIN k : cached[q][a] # None}
    <3> DEFINE force == FALSE
    <3> HIDE DEF force
    <3>1. PICK k : Matches(k, c, W, force, m)
      BY <1>6, CallMatches DEF force
    <3> QED BY <3>1 DEF Matches, force
  <2> HIDE DEF obligatory, optional, q
  <2>2. DOMAIN m = DOMAIN k
    BY <2>1
  <2>3. Cardinality(DOMAIN k) = Cardinality(W)
    BY <2>1, <1>5, AsManyWords
  <2> QED BY <2>1, <2>2, <2>3, <1>4
<1>7. ASSUME NEW m \in Call(c, W, TRUE)
      PROVE  \A a \in DOMAIN cached[q] \ {b \in DOMAIN cached[q] : cached[q][b] = None} : a \in DOMAIN m
  <2>1. PICK k : DOMAIN m = DOMAIN k \cup {a \in obligatory \ DOMAIN k : cached[q][a] # None}
    <3> DEFINE force == TRUE
    <3> HIDE DEF force
    <3>1. PICK k : Matches(k, c, W, force, m)
      BY <1>7, CallMatches DEF force
    <3> QED BY <3>1 DEF Matches
  <2> HIDE DEF q
  <2> QED BY <2>1
<1> HIDE DEF q
<1> QED BY <1>3, <1>6, <1>7 DEF q

(* Calling a class to create an individual (_kwargs_to_attributes)         *)
(* succeeds, once what it asks about the class is cached, only with a      *)
(* value for each attribute that the class or a class above it restricts,  *)
(* and as many values as words; with force, every attribute with a default *)
(* has a value.  For every terminology and every set of words.             *)
THEOREM CreationsAreComplete == Spec => []CreationComplete
BY InitConsistent, NextConsistent, CreationIsComplete, PTL DEF Spec

-----------------------------------------------------------------------------
(* What is still to be written. *)
Coming == IF stage = "install" THEN todo.first \cup todo.then ELSE {}

DiskTyped ==
    /\ disk \in [Identifier -> [xml : Package \cup {None, Broken}, yml : Package \cup {None, Broken}]]
    /\ stage = "install" => todo.first \subseteq Package /\ todo.then \subseteq Package

(* Everything that is required by what is installed or on its way.         *)
Provided ==
    /\ \A i \in Installed : RequiresOf(i) \subseteq Installed \cup lost \cup Identifiers(Coming)
    /\ \A f \in Coming : Requires[f] \subseteq Installed \cup Identifiers(Coming)

RInv == DiskTyped /\ Provided

-----------------------------------------------------------------------------
(* The least set is itself closed: a requirement that is not found shows   *)
(* as None in it.                                                          *)
LEMMA ExploredIsComplete ==
    ASSUME NEW files \in SUBSET Package, NEW kept \in SUBSET Identifier,
           None \notin Explored(files, kept)
    PROVE  /\ files \subseteq Explored(files, kept)
           /\ Explored(files, kept) \subseteq Package
           /\ \A f \in Explored(files, kept) :
                 Requires[f] \subseteq kept \cup Identifiers(Explored(files, kept))
<1> DEFINE E == Explored(files, kept)
           candidates == {files \cup B : B \in SUBSET Range(Bundled)}
           Closed(S) == \A f \in S \ {None} :
              \A i \in Requires[f] \ (kept \cup Identifiers(files)) : Bundled[i] \in S
<1>1. E = {f \in files \cup Range(Bundled) : \A S \in candidates : Closed(S) => f \in S}
  BY DEF Explored
<1>2. Range(Bundled) \subseteq Package \cup {None}
  BY PackagesAssumption DEF Range, Package
<1>3. files \subseteq E
  BY <1>1
<1>4. E \subseteq Package
  BY <1>1, <1>2
<1>5. ASSUME NEW f \in E, NEW i \in Requires[f], i \notin kept, i \notin Identifiers(files)
      PROVE  Bundled[i] \in E
  <2>1. f \in Package /\ f # None /\ i \in Identifier
    BY <1>4, PackagesAssumption DEF Package
  <2>2. Bundled[i] \in Range(Bundled)
    BY <2>1, PackagesAssumption DEF Range
  <2>3. ASSUME NEW S \in candidates, Closed(S) PROVE Bundled[i] \in S
    <3>1. f \in S
      BY <2>3, <1>1
    <3> QED BY <3>1, <2>1, <2>3, <1>5
  <2> QED BY <1>1, <2>2, <2>3
<1>6. ASSUME NEW f \in E, NEW i \in Requires[f], i \notin kept
      PROVE  i \in Identifiers(E)
  <2>1. CASE i \in Identifiers(files)
    BY <2>1, <1>3 DEF Identifiers
  <2>2. CASE i \notin Identifiers(files)
    <3>1. Bundled[i] \in E /\ i \in Identifier
      BY <1>4, <1>5, <1>6, <2>2, PackagesAssumption DEF Package
    <3>2. Id[Bundled[i]] = i
      BY <3>1, PackagesAssumption
    <3> QED BY <3>1, <3>2 DEF Identifiers
  <2> QED BY <2>1, <2>2
<1> QED BY <1>3, <1>4, <1>6

(* A missing file and one cut short are no packages.                       *)
LEMMA SentinelsAreNoPackages == None \notin Package /\ Broken \notin Package
BY PackagesAssumption DEF Package

(* Reloading is the end of what is on its way.                             *)
LEMMA ReloadEnds == ASSUME NEW d, Reload(d) PROVE stage' # "install"
BY DEF Reload, Stop

(* What is installed stays as it is, or less of it, and what has gone is   *)
(* noted as lost.                                                          *)
LEMMA LessIsProvided ==
    ASSUME RInv, stage' # "install",
           \A i \in Identifier : disk'[i].yml = disk[i].yml \/ disk'[i].yml \notin Package,
           \A i \in Installed \ Installed' : i \in lost' \/ \A k \in Installed' : i \notin RequiresOf(k),
           lost \cup Identifiers(Coming) \subseteq lost' \cup Installed'
    PROVE  Provided'
<1>1. Coming' = {}
  BY DEF Coming
<1>2. ASSUME NEW k \in Installed' PROVE k \in Installed /\ RequiresOf(k)' = RequiresOf(k)
  BY <1>2 DEF Installed, InstalledIn, RequiresOf
<1>3. ASSUME NEW k \in Installed', NEW r \in RequiresOf(k)' PROVE r \in Installed' \cup lost'
  BY <1>2, <1>3 DEF RInv, Provided
<1> QED BY <1>1, <1>3 DEF Provided

-----------------------------------------------------------------------------
(* A configuration that was cut short belongs to a package on its way.     *)
LEMMA InstallCutProvides ==
    ASSUME RInv, NEW alive \in BOOLEAN, InstallCut(alive), stage' # "install"
    PROVE  RInv'
<1>1. PICK f \in Due : \E parts \in CutShort(f, alive) : disk' = [disk EXCEPT ![Id[f]] = parts]
  BY DEF InstallCut
<1>2. PICK parts \in CutShort(f, alive) : disk' = [disk EXCEPT ![Id[f]] = parts]
  BY <1>1
<1>3. /\ stage = "install" /\ f \in Coming /\ f \in Package
      /\ Coming = todo.first \cup todo.then
  BY DEF InstallCut, Due, Coming, RInv, DiskTyped
<1>4. Id[f] \in Identifier /\ lost' = lost \cup Identifiers(Coming)
  BY <1>3, PackagesAssumption DEF InstallCut, Package
<1>5. /\ parts \in [xml : Package \cup {None, Broken}, yml : Package \cup {None, Broken}]
      /\ parts.yml = disk[Id[f]].yml \/ parts.yml = Broken
  BY <1>3, <1>4 DEF CutShort, RInv, DiskTyped
<1>6. DiskTyped'
  BY <1>2, <1>4, <1>5 DEF RInv, DiskTyped
<1>7. \A i \in Identifier : disk'[i].yml = disk[i].yml \/ (i = Id[f] /\ disk'[i].yml \notin Package)
  BY <1>2, <1>4, <1>5, SentinelsAreNoPackages DEF RInv, DiskTyped
<1>8. \A i \in Installed \ Installed' : i \in lost'
  BY <1>3, <1>4, <1>7 DEF Installed, InstalledIn, Identifiers
<1>9. Provided'
  BY <1>4, <1>7, <1>8, LessIsProvided
<1> QED BY <1>6, <1>9 DEF RInv

(* A removal that was cut short has noted all that it may have removed.    *)
LEMMA UninstallCutProvides ==
    ASSUME RInv, NEW S \in SUBSET Identifier, UninstallCut(S), stage' # "install"
    PROVE  RInv'
<1>1. PICK xs \in SUBSET Removed(S), ys \in SUBSET Removed(S) :
          disk' = [i \in Identifier |->
                     [xml |-> IF i \in xs THEN None ELSE disk[i].xml,
                      yml |-> IF i \in ys THEN None ELSE disk[i].yml]]
  BY DEF UninstallCut
<1>2. stage = "idle" /\ lost' = lost \cup Removed(S)
  BY DEF UninstallCut, MayUninstall
<1>3. DiskTyped'
  BY <1>1 DEF RInv, DiskTyped
<1>4. \A i \in Identifier : disk'[i].yml = disk[i].yml \/ (i \in Removed(S) /\ disk'[i].yml \notin Package)
  BY <1>1, SentinelsAreNoPackages
<1>5. \A i \in Installed \ Installed' : i \in lost'
  BY <1>2, <1>4 DEF Installed, InstalledIn
<1>6. Coming = {} /\ Identifiers(Coming) = {}
  BY <1>2 DEF Coming, Identifiers
<1> QED BY <1>2, <1>3, <1>4, <1>5, <1>6, LessIsProvided DEF RInv

(* Nothing is installed at first.                                          *)
LEMMA PicoInitProvides == PicoInit => RInv
<1> SUFFICES ASSUME PicoInit PROVE RInv
  OBVIOUS
<1>1. DiskTyped
  BY DEF PicoInit, DiskTyped, Absent
<1>2. Installed = {} /\ Coming = {}
  BY SentinelsAreNoPackages DEF PicoInit, Absent, Installed, InstalledIn, Coming
<1> QED BY <1>1, <1>2 DEF RInv, Provided

(* Each operation of Pico keeps what is required, or notes what is lost.   *)
LEMMA PicoNextProvides == RInv /\ [PicoNext]_<<vars, pico>> => RInv'
<1> SUFFICES ASSUME RInv, [PicoNext]_<<vars, pico>> PROVE RInv'
  OBVIOUS
<1>1. ASSUME NEW files \in SUBSET Package, NEW o \in BOOLEAN, Install(files, o)
      PROVE  RInv'
  <2> DEFINE new == {f \in files : o \/ Id[f] \notin Installed}
             kept == IF o THEN Installed \ Identifiers(files) ELSE Installed
             all == Explored(new, kept)
  <2>1. /\ None \notin all /\ stage' = "install" /\ stage # "install"
        /\ todo'.first = new /\ todo'.then = all \ new
        /\ UNCHANGED <<disk, lost>>
    BY <1>1 DEF Install, Nothing
  <2>2. new \in SUBSET Package /\ kept \in SUBSET Identifier /\ kept \subseteq Installed
    BY DEF Installed, InstalledIn
  <2> HIDE DEF new, kept
  <2>3. /\ new \subseteq all /\ all \subseteq Package
        /\ \A f \in all : Requires[f] \subseteq kept \cup Identifiers(all)
    BY <2>1, <2>2, ExploredIsComplete
  <2> HIDE DEF all
  <2>4. Coming' = all /\ Coming = {} /\ Installed' = Installed
    BY <2>1, <2>3 DEF Coming, Installed
  <2>5. \A i : RequiresOf(i)' = RequiresOf(i)
    BY <2>1 DEF RequiresOf
  <2>6. Identifiers(Coming)' = Identifiers(all) /\ Identifiers(Coming) = {}
    BY <2>4 DEF Identifiers
  <2>7. DiskTyped'
    BY <2>1, <2>2, <2>3 DEF RInv, DiskTyped
  <2>8. Provided'
    BY <2>1, <2>2, <2>3, <2>4, <2>5, <2>6 DEF RInv, Provided
  <2> QED BY <2>7, <2>8 DEF RInv
<1>2. CASE InstallOne
  <2>1. PICK f \in Due :
           /\ disk' = [disk EXCEPT ![Id[f]] = [xml |-> f, yml |-> f]]
           /\ lost' = lost \ {Id[f]}
           /\ IF todo.first \cup todo.then = {f} THEN Reload(disk')
              ELSE /\ todo' = [todo EXCEPT !.first = @ \ {f}, !.then = @ \ {f}]
                   /\ UNCHANGED <<stage, behind, session>>
    BY <1>2 DEF InstallOne
  <2>2. stage = "install" /\ f \in Coming /\ Coming = todo.first \cup todo.then /\ f \in Package
    BY <1>2, <2>1 DEF InstallOne, Due, Coming, RInv, DiskTyped
  <2>3. Id[f] \in Identifier
    BY <2>2, PackagesAssumption DEF Package
  <2>4. /\ Installed' = Installed \cup {Id[f]}
        /\ RequiresOf(Id[f])' = Requires[f]
        /\ \A i \in Installed \ {Id[f]} : RequiresOf(i)' = RequiresOf(i)
    BY <2>1, <2>2, <2>3 DEF Installed, InstalledIn, RequiresOf, RInv, DiskTyped
  <2>5. Coming' \subseteq Coming /\ Coming \subseteq Coming' \cup {f}
    <3>1. CASE todo.first \cup todo.then = {f}
      BY <3>1, <2>1, <2>2, ReloadEnds DEF Coming
    <3>2. CASE todo.first \cup todo.then # {f}
      <4>1. /\ stage' = "install"
            /\ todo' = [todo EXCEPT !.first = @ \ {f}, !.then = @ \ {f}]
        BY <2>1, <2>2, <3>2
      <4>2. todo'.first \subseteq todo.first /\ todo'.then \subseteq todo.then
            /\ todo.first \cup todo.then \subseteq todo'.first \cup todo'.then \cup {f}
        BY <4>1
      <4> QED BY <4>1, <4>2, <2>2 DEF Coming
    <3> QED BY <3>1, <3>2
  <2>6. Identifiers(Coming) \subseteq Identifiers(Coming)' \cup {Id[f]}
    BY <2>5 DEF Identifiers
  <2>7. DiskTyped'
    <3>1. disk' \in [Identifier -> [xml : Package \cup {None, Broken}, yml : Package \cup {None, Broken}]]
      BY <2>1, <2>2, <2>3 DEF RInv, DiskTyped
    <3>2. stage' = "install" => todo'.first \subseteq Package /\ todo'.then \subseteq Package
      <4>1. stage' = "install" => Coming' = todo'.first \cup todo'.then
        BY DEF Coming
      <4>2. Coming \subseteq Package
        BY <2>2 DEF RInv, DiskTyped
      <4> QED BY <4>1, <4>2, <2>5
    <3> QED BY <3>1, <3>2 DEF DiskTyped
  <2>8. ASSUME NEW i \in Installed'
        PROVE  RequiresOf(i)' \subseteq Installed' \cup lost' \cup Identifiers(Coming)'
    <3>1. CASE i = Id[f]
      BY <3>1, <2>1, <2>2, <2>4, <2>6 DEF RInv, Provided
    <3>2. CASE i # Id[f]
      BY <3>2, <2>1, <2>4, <2>6, <2>8 DEF RInv, Provided
    <3> QED BY <3>1, <3>2
  <2>9. ASSUME NEW g \in Coming' PROVE Requires[g] \subseteq Installed' \cup Identifiers(Coming)'
    BY <2>4, <2>5, <2>6 DEF RInv, Provided
  <2> QED BY <2>7, <2>8, <2>9 DEF RInv, Provided
<1>3. CASE InstallFails
  BY <1>3, InstallCutProvides DEF InstallFails, Stop
<1>4. ASSUME NEW S \in SUBSET Identifier, Uninstall(S)
      PROVE  RInv'
  <2>1. /\ stage = "idle" /\ S \subseteq Installed /\ Dependents(S) \subseteq S
        /\ disk' = [i \in Identifier |-> IF i \in Removed(S) THEN Absent ELSE disk[i]]
        /\ lost' = lost \cup (Removed(S) \ S) /\ stage' # "install"
    BY <1>4, ReloadEnds DEF Uninstall, MayUninstall
  <2>2. DiskTyped'
    BY <2>1 DEF RInv, DiskTyped, Absent
  <2>3. \A i \in Identifier : disk'[i].yml = disk[i].yml \/ (i \in Removed(S) /\ disk'[i].yml \notin Package)
    BY <2>1, SentinelsAreNoPackages DEF Absent
  <2>4. ASSUME NEW k \in Installed' PROVE k \in Installed /\ RequiresOf(k)' = RequiresOf(k)
    BY <2>3, <2>4 DEF Installed, InstalledIn, RequiresOf
  <2>5. ASSUME NEW i \in Installed \ Installed', i \notin lost', NEW k \in Installed' \ S
        PROVE  i \notin RequiresOf(k)
    <3>1. i \in Removed(S) /\ i \in S
      BY <2>1, <2>3, <2>5 DEF Installed, InstalledIn
    <3> QED BY <3>1, <2>1, <2>4 DEF Dependents
  <2>6. Coming = {} /\ Identifiers(Coming) = {}
    BY <2>1 DEF Coming, Identifiers
  <2>7. Installed' \cap S = {}
    <3>1. S \subseteq Removed(S)
      BY PackagesAssumption DEF Removed
    <3> QED BY <3>1, <2>1, SentinelsAreNoPackages DEF Installed, InstalledIn, Absent
  <2>8. Provided'
    BY <2>1, <2>3, <2>5, <2>6, <2>7, LessIsProvided
  <2> QED BY <2>2, <2>8 DEF RInv
<1>5. ASSUME NEW S \in SUBSET Identifier, UninstallFails(S)
      PROVE  RInv'
  BY <1>5, UninstallCutProvides DEF UninstallFails, Stop
<1>6. ASSUME UNCHANGED <<disk, lost>>, stage # "install", stage' # "install" PROVE RInv'
  BY <1>6 DEF RInv, DiskTyped, Provided, Coming, Installed, RequiresOf, Identifiers
<1>7. CASE LoadNext
  BY <1>7, <1>6 DEF LoadNext, Stop
<1>8. CASE Crash
  <2>1. stage' = "down"
    BY <1>8 DEF Crash
  <2>2. CASE InstallCut(FALSE)
    BY <2>1, <2>2, InstallCutProvides
  <2>3. CASE \E S \in SUBSET Identifier : UninstallCut(S)
    BY <2>1, <2>3, UninstallCutProvides
  <2>4. CASE stage \in {"idle", "load"} /\ UNCHANGED <<disk, lost>>
    BY <2>1, <2>4, <1>6
  <2> QED BY <1>8, <2>2, <2>3, <2>4 DEF Crash
<1>9. CASE Restart
  <2>1. stage = "down" /\ UNCHANGED <<disk, lost>> /\ stage' # "install"
    BY <1>9, ReloadEnds DEF Restart
  <2> QED BY <2>1, <1>6
<1>10. CASE UNCHANGED pico
  BY <1>10 DEF pico, RInv, DiskTyped, Provided, Coming, Installed, RequiresOf, Identifiers
<1> QED BY <1>1, <1>2, <1>3, <1>4, <1>5, <1>7, <1>8, <1>9, <1>10 DEF PicoNext

(* What an installed package requires is installed, or a failure, or the   *)
(* removal of a package with a shorter name, has taken it away (install,   *)
(* uninstall).                                                             *)
THEOREM RequirementsStayInstalled == PicoSpec => []RequirementsInstalled
<1>1. RInv => RequirementsInstalled
  BY DEF RInv, Provided, RequirementsInstalled, Coming, Identifiers
<1> QED BY PicoInitProvides, PicoNextProvides, <1>1, PTL DEF PicoSpec

-----------------------------------------------------------------------------
(* Pico changes the terminology by loading and clearing only.              *)
LEMMA PicoNextKeepsFresh == TInv /\ [PicoNext]_<<vars, pico>> => TInv'
<1> SUFFICES ASSUME TInv, [PicoNext]_<<vars, pico>> PROVE TInv'
  OBVIOUS
<1>1. CASE UNCHANGED <<session, others>>
  BY <1>1, LessStaysFresh DEF session, others, TInv, Times
<1>2. ASSUME NEW d, Reload(d), UNCHANGED others PROVE TInv'
  BY <1>2, ChangeExpires DEF Reload, Clear, others, TInv
<1>3. CASE \E files \in {F \in SUBSET Package : Distinct(F)}, o \in BOOLEAN : Install(files, o)
  BY <1>1, <1>3 DEF Install
<1>4. CASE InstallOne
  BY <1>1, <1>2, <1>4 DEF InstallOne
<1>5. CASE InstallFails
  BY <1>1, <1>5 DEF InstallFails
<1>6. CASE \E S \in SUBSET Identifier : Uninstall(S) \/ UninstallFails(S)
  BY <1>1, <1>2, <1>6 DEF Uninstall, UninstallFails
<1>7. CASE LoadNext
  BY <1>1, <1>7, LoadParserKeeps DEF LoadNext, others
<1>8. CASE Crash
  <2>1. held' = <<>> /\ cached' = <<>> /\ UNCHANGED <<clock, stamp>>
    BY <1>8 DEF Crash
  <2> QED BY <2>1 DEF TInv, Times, LookupsFresh
<1>9. CASE Restart
  BY <1>1, <1>2, <1>9 DEF Restart
<1>10. CASE Query \/ Tick
  BY <1>10, NextTInv DEF Next
<1>11. CASE UNCHANGED <<vars, pico>>
  BY <1>11, NextTInv
<1> QED BY <1>3, <1>4, <1>5, <1>6, <1>7, <1>8, <1>9, <1>10, <1>11 DEF PicoNext

(* No operation on packages, complete or not, leaves a stale answer to be  *)
(* given (_reload_installed_ontologies, load_parser, clear).               *)
THEOREM AnswersFreshAmongPackages == PicoSpec => []LookupsFresh
<1>1. PicoInit => TInv
  BY InitTInv DEF PicoInit
<1>2. TInv => LookupsFresh
  BY DEF TInv
<1> QED BY <1>1, PicoNextKeepsFresh, <1>2, PTL DEF PicoSpec

-----------------------------------------------------------------------------
(* A state of Kahn's algorithm.                                            *)
States(nodes, edges) == [result : Seq(nodes), edges : SUBSET edges, free : SUBSET nodes]

Sorted(t, edges) ==
    /\ \A e \in edges : e \in t.edges \/ e[1] \in Range(t.result)
    /\ \A e \in t.edges : e[2] \notin t.free /\ e[2] \notin Range(t.result)
    /\ t.free \cap Range(t.result) = {}
    /\ \A a, b \in DOMAIN t.result : a < b => <<t.result[b], t.result[a]>> \notin edges

(* Appending adds the element, and no other.                               *)
LEMMA RangeOfAppend ==
    ASSUME NEW S, NEW s \in Seq(S), NEW x \in S
    PROVE  Range(Append(s, x)) = Range(s) \cup {x}
<1>1. /\ DOMAIN Append(s, x) = 1..Len(s) + 1 /\ DOMAIN s = 1..Len(s) /\ Len(s) \in Nat
      /\ Append(s, x)[Len(s) + 1] = x /\ \A k \in 1..Len(s) : Append(s, x)[k] = s[k]
  OBVIOUS
<1> QED BY <1>1 DEF Range

(* A node is popped when all that it needs was popped before.              *)
LEMMA PopSorts ==
    ASSUME NEW nodes, NEW edges \in SUBSET (nodes \X nodes),
           NEW t \in States(nodes, edges), Sorted(t, edges), NEW n \in t.free
    PROVE  Pop(t, n) \in States(nodes, edges) /\ Sorted(Pop(t, n), edges)
<1> DEFINE u == Pop(t, n)
<1>1. /\ t.result \in Seq(nodes) /\ t.edges \subseteq edges /\ t.free \subseteq nodes /\ n \in nodes
      /\ t.edges \subseteq nodes \X nodes
  BY DEF States
<1>2. /\ u.result = Append(t.result, n) /\ u.edges = {e \in t.edges : e[1] # n}
      /\ u.free = (t.free \ {n}) \cup Free(u.edges, {e[2] : e \in t.edges \ u.edges})
      /\ u = [result |-> u.result, edges |-> u.edges, free |-> u.free]
  BY DEF Pop
<1> HIDE DEF u
<1>3. Range(u.result) = Range(t.result) \cup {n}
  BY <1>1, <1>2, RangeOfAppend
<1>4. \A m \in u.free : \/ m \in t.free /\ m # n
                       \/ /\ \E e \in t.edges : m = e[2]
                          /\ \A e \in u.edges : e[2] # m
  BY <1>2 DEF Free
<1>5. u.edges \subseteq t.edges
  BY <1>2
<1>6. u \in States(nodes, edges)
  <2>1. u.free \subseteq nodes
    BY <1>1, <1>4
  <2>2. u.result \in Seq(nodes)
    BY <1>1, <1>2
  <2> QED BY <2>1, <2>2, <1>1, <1>2, <1>5 DEF States
<1>7. \A e \in edges : e \in u.edges \/ e[1] \in Range(u.result)
  BY <1>2, <1>3 DEF Sorted
<1>8. \A e \in u.edges : e[2] \notin u.free /\ e[2] \notin Range(u.result)
  BY <1>3, <1>4, <1>5 DEF Sorted
<1>9. u.free \cap Range(u.result) = {}
  BY <1>3, <1>4 DEF Sorted
<1>10. ASSUME NEW a \in DOMAIN u.result, NEW b \in DOMAIN u.result, a < b
       PROVE  <<u.result[b], u.result[a]>> \notin edges
  <2>1. /\ DOMAIN u.result = 1..Len(t.result) + 1 /\ DOMAIN t.result = 1..Len(t.result)
        /\ Len(t.result) \in Nat
        /\ u.result[Len(t.result) + 1] = n
        /\ \A k \in DOMAIN t.result : u.result[k] = t.result[k]
    BY <1>1, <1>2
  <2>2. a \in DOMAIN t.result /\ u.result[a] = t.result[a] /\ t.result[a] \in Range(t.result)
    BY <2>1, <1>10 DEF Range
  <2>3. CASE b \in DOMAIN t.result
    BY <2>1, <2>2, <2>3, <1>10 DEF Sorted
  <2>4. CASE b \notin DOMAIN t.result
    <3>1. u.result[b] = n
      BY <2>1, <2>4, <1>10
    <3>2. n \notin Range(t.result)
      BY DEF Sorted
    <3>3. ASSUME <<n, t.result[a]>> \in edges PROVE FALSE
      <4> DEFINE e == <<n, t.result[a]>>
      <4>1. e \in t.edges
        BY <3>2, <3>3 DEF Sorted
      <4> QED BY <4>1, <2>2 DEF Sorted
    <3> QED BY <3>1, <3>3, <2>2
  <2> QED BY <2>3, <2>4
<1> QED BY <1>6, <1>7, <1>8, <1>9, <1>10 DEF u, Sorted

(* What the algorithm gives is an order: nothing comes before what it      *)
(* needs.                                                                  *)
LEMMA SortingsRespectEdges ==
    ASSUME NEW nodes, IsFiniteSet(nodes), NEW edges \in SUBSET (nodes \X nodes),
           NEW s \in Sortings(nodes, edges),
           NEW a \in DOMAIN s, NEW b \in DOMAIN s, a < b
    PROVE  <<s[b], s[a]>> \notin edges
<1> DEFINE start == [result |-> <<>>, edges |-> edges, free |-> Free(edges, nodes)]
           N == Cardinality(nodes)
           Eq(f) == f = [k \in 0..N |-> IF k = 0 THEN {start} ELSE PopAny(f[k - 1])]
           U == {t \in States(nodes, edges) : Sorted(t, edges)}
           V == SUBSET U
           F == [p \in Nat \X V |-> PopAny(p[2])]
<1>1. N \in Nat
  BY FS_CardinalityType
<1>2. {start} \in V
  <2>1. <<>> \in Seq(nodes) /\ DOMAIN <<>> = {} /\ Range(<<>>) = {}
    BY DEF Range
  <2> QED BY <2>1 DEF States, Sorted, Free
<1>3. \A T \in V : PopAny(T) \in V
  BY PopSorts DEF PopAny
<1>4. F \in [Nat \X V -> V]
  BY <1>3
<1> HIDE DEF V, N, start
<1>5. \E f : Eq(f)
  <2>1. PICK f \in [0..N -> V] : Stepwise(f, N, {start}, F)
    <3> HIDE DEF F
    <3> QED BY <1>1, <1>2, <1>4, StepByStep
  <2>2. ASSUME NEW k \in 0..N, k # 0 PROVE F[<<k, f[k - 1]>>] = PopAny(f[k - 1])
    <3>1. k \in Nat /\ k - 1 \in 0..N
      BY <1>1, <2>2
    <3>2. f[k - 1] \in V
      BY <2>1, <3>1
    <3> QED BY <3>1, <3>2
  <2> HIDE DEF F
  <2> QED BY <2>1, <2>2 DEF Stepwise
<1> DEFINE step == CHOOSE f : Eq(f)
<1>6. Eq(step)
  <2> HIDE DEF Eq
  <2> QED BY <1>5
<1>7. s \in {t.result : t \in {u \in step[N] : u.edges = {}}}
  BY DEF Sortings, N, start
<1> HIDE DEF step
<1>8. 0..N \subseteq {k \in 0..N : step[k] \in V}
  <2> DEFINE P == {k \in 0..N : step[k] \in V}
  <2>1. 0 \in P
    BY <1>1, <1>2, <1>6
  <2>2. ASSUME NEW k \in 1..N, k - 1 \in P PROVE k \in P
    <3>1. k \in 0..N /\ k # 0
      BY <1>1
    <3> QED BY <3>1, <2>2, <1>3, <1>6
  <2> HIDE DEF P
  <2>3. 0..N \subseteq P
    BY <1>1, <2>1, <2>2, FromZero
  <2> QED BY <2>3 DEF P
<1>9. step[N] \in V
  BY <1>1, <1>8
<1>10. PICK t \in U : s = t.result
  BY <1>7, <1>9 DEF V
<1> QED BY <1>10 DEF Sorted

-----------------------------------------------------------------------------
(* The installed packages are ordered by what they require.                *)
LEMMA LoadOrdersRespectRequirements ==
    ASSUME NEW d, NEW o \in LoadOrders(d)
    PROVE  /\ o \in Seq(InstalledIn(d)) /\ Range(o) = InstalledIn(d)
           /\ \A a, b \in DOMAIN o : a < b => o[b] \notin Requires[d[o[a]].yml]
<1> DEFINE installed == InstalledIn(d)
           edges == {e \in Identifier \X installed : e[1] \in Requires[d[e[2]].yml]}
           nodes == installed \cup {e[1] : e \in edges}
<1>1. /\ installed \subseteq Identifier /\ nodes \subseteq Identifier
      /\ IsFiniteSet(installed) /\ IsFiniteSet(nodes)
  <2>1. installed \subseteq Identifier
    BY DEF InstalledIn
  <2>2. nodes \subseteq Identifier
    BY <2>1
  <2> HIDE DEF installed, nodes
  <2> QED BY <2>1, <2>2, FS_Subset, PackagesAssumption
<1>2. edges \in SUBSET (nodes \X nodes)
  OBVIOUS
<1>3. /\ o \in [1..Cardinality(installed) -> installed] /\ Range(o) = installed
      /\ \E s \in Sortings(nodes, edges) : \A a, b \in DOMAIN o : a < b => Precedes(s, o[a], o[b])
  BY DEF LoadOrders
<1>4. o \in Seq(installed)
  <2>1. Cardinality(installed) \in Nat
    BY <1>1, FS_CardinalityType
  <2> HIDE DEF installed
  <2> QED BY <1>3, <2>1
<1>5. ASSUME NEW a \in DOMAIN o, NEW b \in DOMAIN o, a < b, o[b] \in Requires[d[o[a]].yml]
      PROVE  FALSE
  <2>1. PICK s \in Sortings(nodes, edges) : Precedes(s, o[a], o[b])
    BY <1>3, <1>5
  <2>2. PICK i \in DOMAIN s, j \in DOMAIN s : i < j /\ s[i] = o[a] /\ s[j] = o[b]
    BY <2>1 DEF Precedes
  <2>3. <<o[b], o[a]>> \in edges
    <3>1. o[a] \in installed /\ o[b] \in installed
      BY <1>3
    <3> QED BY <3>1, <1>1, <1>5
  <2>4. <<s[j], s[i]>> \notin edges
    <3> HIDE DEF nodes, edges
    <3> QED BY <1>1, <1>2, <2>2, SortingsRespectEdges
  <2> QED BY <2>2, <2>3, <2>4
<1> QED BY <1>3, <1>4, <1>5

-----------------------------------------------------------------------------
(* While packages are loaded, they come in an order of their requirements, *)
(* and what has been loaded is in the terminology, with its names.         *)
Loading ==
    LET load == todo.load
        done == Installed \ Range(load)
    IN  /\ todo = [Nothing EXCEPT !.load = load]
        /\ load \in Seq(Installed) /\ load # <<>>
        /\ \A a, b \in DOMAIN load : a < b => load[b] \notin RequiresOf(load[a])
        /\ \A i \in done : RequiresOf(i) \cap Range(load) = {}
        /\ graph \subseteq Base \cup {disk[i].xml : i \in Installed}
        /\ Base \cup {disk[i].xml : i \in done} \subseteq graph
        /\ \A i \in done : \A b \in Range(Names[disk[i].yml]) : b[2] \in DOMAIN namespaces

LInv ==
    /\ namespaces \in Bindings
    /\ stage = "load" => Loading
    /\ LoadedIsInstalled

(* The names of the base ontologies are of the right kind.                 *)
LEMMA BaseNamesBind == BaseNames \in Bindings
<1> DEFINE all == UNION {Range(Names[f]) : f \in Base}
           D == {b[2] : b \in all}
<1>1. all \subseteq Name \X Iri
  <2>1. \A f \in Base : Names[f] \in Seq(Name \X Iri)
    BY TerminologyAssumption
  <2> QED BY <2>1 DEF Range
<1>2. D \subseteq Iri
  BY <1>1
<1>3. ASSUME NEW i \in D PROVE (CHOOSE n \in Name : <<n, i>> \in all) \in Name \cup {None}
  <2>1. \E n \in Name : <<n, i>> \in all
    <3>1. PICK b \in all : b[2] = i
      OBVIOUS
    <3>2. b = <<b[1], i>> /\ b[1] \in Name
      BY <1>1, <3>1
    <3> QED BY <3>1, <3>2
  <2> QED BY <2>1
<1>4. BaseNames = [i \in D |-> CHOOSE n \in Name : <<n, i>> \in all]
  BY DEF BaseNames
<1>5. BaseNames \in [D -> Name \cup {None}]
  <2> HIDE DEF D, all
  <2> QED BY <1>3, <1>4
<1> QED BY <1>2, <1>5 DEF Bindings

(* The packages are loaded into an empty terminology.                      *)
LEMMA ReloadLoads ==
    ASSUME Reload(disk')
    PROVE  LInv'
<1>1. graph' = Base /\ namespaces' = BaseNames
  BY DEF Reload, Clear
<1>2. namespaces' \in Bindings
  BY <1>1, BaseNamesBind
<1>3. Installed' = InstalledIn(disk')
  BY DEF Installed
<1>4. CASE LoadOrders(disk') = {} /\ Stop(TRUE)
  BY <1>2, <1>4 DEF Stop, LInv, LoadedIsInstalled
<1>5. CASE LoadOrders(disk') = {<<>>} /\ Stop(FALSE)
  <2>1. Installed' = {}
    <3>1. <<>> \in LoadOrders(disk') /\ Range(<<>>) = {}
      BY <1>5 DEF Range
    <3> QED BY <3>1, <1>3, LoadOrdersRespectRequirements
  <2> QED BY <1>1, <1>2, <1>5, <2>1 DEF Stop, LInv, LoadedIsInstalled
<1>6. ASSUME NEW order \in LoadOrders(disk') \ {<<>>},
             todo' = [Nothing EXCEPT !.load = order], stage' = "load"
      PROVE  LInv'
  <2>1. /\ order \in Seq(Installed') /\ Range(order) = Installed' /\ order # <<>>
        /\ \A a, b \in DOMAIN order : a < b => order[b] \notin Requires[disk'[order[a]].yml]
    BY <1>3, <1>6, LoadOrdersRespectRequirements
  <2>2. todo'.load = order /\ todo' = [Nothing EXCEPT !.load = todo'.load]
    BY <1>6 DEF Nothing
  <2>3. Loading'
    BY <1>1, <2>1, <2>2 DEF Loading, RequiresOf
  <2> QED BY <1>2, <1>6, <2>3 DEF LInv, LoadedIsInstalled
<1> QED BY <1>4, <1>5, <1>6 DEF Reload

(* One more is loaded, and none that comes later is required by it.        *)
LEMMA LoadNextLoads ==
    ASSUME LInv, RInv, LoadNext
    PROVE  LInv'
<1> DEFINE load == todo.load
           rest == Tail(load)
           i == Head(load)
           this == disk[i]
           bound == BindAll(namespaces, Names[this.yml])
           done == Installed \ Range(load)
<1>1. Loading /\ stage = "load"
  BY DEF LoadNext, LInv
<1>2. /\ load \in Seq(Installed) /\ load # <<>> /\ i \in Installed
      /\ rest \in Seq(Installed) /\ Len(load) \in Nat \ {0}
      /\ DOMAIN rest = 1..Len(load) - 1 /\ DOMAIN load = 1..Len(load) /\ i = load[1]
      /\ \A a \in DOMAIN rest : a + 1 \in DOMAIN load /\ rest[a] = load[a + 1]
  <2>1. load \in Seq(Installed) /\ load # <<>>
    BY <1>1 DEF Loading
  <2> HIDE DEF load
  <2> QED BY <2>1
<1>3. Range(load) = {i} \cup Range(rest)
  <2>1. \A a \in DOMAIN load : a = 1 \/ (a - 1 \in DOMAIN rest /\ rest[a - 1] = load[a])
    <3> HIDE DEF load, rest, i
    <3> QED BY <1>2
  <2> HIDE DEF load, rest, i
  <2>2. \A a \in DOMAIN load : load[a] \in {i} \cup Range(rest)
    BY <2>1, <1>2 DEF Range
  <2>3. \A a \in DOMAIN rest : rest[a] \in Range(load)
    BY <1>2 DEF Range
  <2>4. i \in Range(load)
    BY <1>2 DEF Range
  <2> QED BY <2>2, <2>3, <2>4 DEF Range
<1>4. /\ UNCHANGED disk /\ Installed' = Installed
      /\ \A k \in Identifier : RequiresOf(k)' = RequiresOf(k)
  BY DEF LoadNext, Installed, RequiresOf
<1>5. this.yml \in Package /\ Names[this.yml] \in Seq(Name \X Iri)
  BY <1>2, TerminologyAssumption DEF Installed, InstalledIn, Package
<1>6. /\ bound.namespaces \in Bindings
      /\ ~bound.raised => /\ DOMAIN namespaces \subseteq DOMAIN bound.namespaces
                          /\ \A b \in Range(Names[this.yml]) : b[2] \in DOMAIN bound.namespaces
  <2>1. namespaces \in Bindings
    BY DEF LInv
  <2> QED BY <2>1, <1>5, BindAllBinds
<1>7. /\ this.xml \in Package => graph' = graph \cup {this.xml} /\ namespaces' = bound.namespaces
      /\ this.xml \notin Package => UNCHANGED <<graph, namespaces>>
  BY DEF LoadNext, LoadParser, session
<1> DEFINE raised == this.xml \notin Package \/ bound.raised
<1>8. IF raised \/ rest = <<>> THEN Stop(raised)
      ELSE todo' = [todo EXCEPT !.load = rest] /\ UNCHANGED <<stage, behind>>
  BY DEF LoadNext
<1> HIDE DEF load, rest, i, bound
<1>9. namespaces' \in Bindings
  BY <1>6, <1>7 DEF LInv
<1>10. ASSUME ~raised
       PROVE  LET after == Installed \ Range(rest) IN
              /\ graph' \subseteq Base \cup {disk[k].xml : k \in Installed}
              /\ Base \cup {disk[k].xml : k \in after} \subseteq graph'
              /\ \A k \in after : \A b \in Range(Names[disk[k].yml]) : b[2] \in DOMAIN namespaces'
  <2> DEFINE after == Installed \ Range(rest)
  <2>1. after \subseteq done \cup {i}
    BY <1>3
  <2>2. /\ graph \subseteq Base \cup {disk[k].xml : k \in Installed}
        /\ Base \cup {disk[k].xml : k \in done} \subseteq graph
        /\ \A k \in done : \A b \in Range(Names[disk[k].yml]) : b[2] \in DOMAIN namespaces
    BY <1>1 DEF Loading, load
  <2>3. graph' = graph \cup {disk[i].xml} /\ namespaces' = bound.namespaces /\ ~bound.raised
    BY <1>7, <1>10
  <2> HIDE DEF done, after
  <2>4. graph' \subseteq Base \cup {disk[k].xml : k \in Installed}
    BY <1>2, <2>2, <2>3
  <2>5. Base \cup {disk[k].xml : k \in after} \subseteq graph'
    BY <2>1, <2>2, <2>3
  <2>6. \A k \in after : \A b \in Range(Names[disk[k].yml]) : b[2] \in DOMAIN namespaces'
    BY <2>1, <2>2, <2>3, <1>6
  <2> QED BY <2>4, <2>5, <2>6 DEF after
<1>11. CASE raised
  <2>1. stage' = "idle" /\ behind' = TRUE
    BY <1>8, <1>11 DEF Stop
  <2> QED BY <2>1, <1>9 DEF LInv, LoadedIsInstalled
<1>12. CASE ~raised /\ rest = <<>>
  <2>1. stage' = "idle" /\ Range(rest) = {}
    BY <1>8, <1>12 DEF Stop, Range
  <2>2. LoadedIsInstalled'
    BY <2>1, <1>4, <1>10, <1>12 DEF LoadedIsInstalled
  <2> QED BY <2>1, <2>2, <1>9 DEF LInv
<1>13. CASE ~raised /\ rest # <<>>
  <2>1. stage' = "load" /\ todo'.load = rest /\ todo' = [Nothing EXCEPT !.load = rest]
    <3>1. stage' = stage /\ todo' = [todo EXCEPT !.load = rest]
      BY <1>8, <1>13
    <3>2. todo = [Nothing EXCEPT !.load = load]
      BY <1>1 DEF Loading, load
    <3> QED BY <3>1, <3>2, <1>1 DEF Nothing
  <2>2. \A a, b \in DOMAIN rest : a < b => rest[b] \notin RequiresOf(rest[a])
    <3>1. \A a, b \in DOMAIN load : a < b => load[b] \notin RequiresOf(load[a])
      BY <1>1 DEF Loading, load
    <3>2. \A a, b \in DOMAIN rest : a < b => a + 1 < b + 1
      BY <1>2
    <3> QED BY <3>1, <3>2, <1>2
  <2>3. ASSUME NEW k \in Installed \ Range(rest) PROVE RequiresOf(k) \cap Range(rest) = {}
    <3>1. CASE k \in done
      <4>1. RequiresOf(k) \cap Range(load) = {}
        BY <3>1, <1>1 DEF Loading, load
      <4> QED BY <4>1, <1>3
    <3>2. CASE k = i
      <4>1. ASSUME NEW a \in DOMAIN rest PROVE rest[a] \notin RequiresOf(i)
        <5>1. /\ 1 \in DOMAIN load /\ a + 1 \in DOMAIN load /\ 1 < a + 1
              /\ rest[a] = load[a + 1] /\ i = load[1]
          BY <1>2
        <5> QED BY <5>1, <1>1 DEF Loading, load
      <4> QED BY <4>1, <3>2 DEF Range
    <3> QED BY <3>1, <3>2, <2>3, <1>3
  <2>4. Loading'
    <3> DEFINE next == todo'.load
               after == Installed' \ Range(next)
    <3>1. next = rest /\ Installed' = Installed /\ disk' = disk
      BY <2>1, <1>4
    <3>2. \A a, b \in DOMAIN next : a < b => next[b] \notin Requires[disk'[next[a]].yml]
      BY <3>1, <2>2 DEF RequiresOf
    <3>3. \A k \in after : Requires[disk'[k].yml] \cap Range(next) = {}
      BY <3>1, <2>3 DEF RequiresOf
    <3>4. /\ graph' \subseteq Base \cup {disk'[k].xml : k \in Installed'}
          /\ Base \cup {disk'[k].xml : k \in after} \subseteq graph'
          /\ \A k \in after : \A b \in Range(Names[disk'[k].yml]) : b[2] \in DOMAIN namespaces'
      BY <3>1, <1>10, <1>13
    <3>5. todo' = [Nothing EXCEPT !.load = next] /\ next \in Seq(Installed') /\ next # <<>>
      BY <3>1, <2>1, <1>2, <1>13
    <3> HIDE DEF next
    <3> QED BY <3>2, <3>3, <3>4, <3>5 DEF Loading, RequiresOf, next
  <2> QED BY <2>1, <2>4, <1>9 DEF LInv, LoadedIsInstalled
<1> QED BY <1>11, <1>12, <1>13

(* Only the base ontologies are there at first.                            *)
LEMMA InitLInv == PicoInit => LInv
<1> SUFFICES ASSUME PicoInit PROVE LInv
  OBVIOUS
<1>1. Installed = {}
  BY SentinelsAreNoPackages DEF PicoInit, Absent, Installed, InstalledIn
<1> QED BY <1>1, BaseNamesBind DEF PicoInit, Init, LInv, LoadedIsInstalled

(* The terminology follows what is installed, or `behind' says it does not.*)
LEMMA NextLInv == LInv /\ RInv /\ [PicoNext]_<<vars, pico>> => LInv'
<1> SUFFICES ASSUME LInv, RInv, [PicoNext]_<<vars, pico>> PROVE LInv'
  OBVIOUS
<1>1. ASSUME UNCHANGED namespaces, stage' # "load",
             stage' = "idle" => behind'
      PROVE  LInv'
  BY <1>1 DEF LInv, LoadedIsInstalled
<1>2. ASSUME NEW files, NEW o, Install(files, o) PROVE LInv'
  BY <1>1, <1>2 DEF Install, session
<1>3. CASE InstallOne
  <2>1. PICK f \in Due :
            IF todo.first \cup todo.then = {f} THEN Reload(disk')
            ELSE UNCHANGED <<stage, behind, session>>
    BY <1>3 DEF InstallOne
  <2>2. CASE Reload(disk')
    BY <2>2, ReloadLoads
  <2>3. CASE UNCHANGED <<stage, behind, session>>
    BY <2>3, <1>1, <1>3 DEF InstallOne, session
  <2> QED BY <2>1, <2>2, <2>3
<1>4. CASE InstallFails
  BY <1>1, <1>4 DEF InstallFails, Stop, session
<1>5. ASSUME NEW S, Uninstall(S) PROVE LInv'
  BY <1>5, ReloadLoads DEF Uninstall
<1>6. ASSUME NEW S, UninstallFails(S) PROVE LInv'
  BY <1>1, <1>6 DEF UninstallFails, Stop, session
<1>7. CASE LoadNext
  BY <1>7, LoadNextLoads
<1>8. CASE Crash
  <2>1. stage' = "down" /\ namespaces' = BaseNames
    BY <1>8 DEF Crash
  <2> QED BY <2>1, BaseNamesBind DEF LInv, LoadedIsInstalled
<1>9. CASE Restart
  <2>1. CASE Readable
    <3>1. Reload(disk) /\ disk' = disk
      BY <1>9, <2>1 DEF Restart
    <3>2. Reload(disk')
      BY <3>1
    <3> QED BY <3>2, ReloadLoads
  <2>2. CASE ~Readable
    BY <1>1, <1>9, <2>2 DEF Restart, session
  <2> QED BY <2>1, <2>2
<1>10. ASSUME UNCHANGED <<graph, namespaces, pico>> PROVE LInv'
  <2>1. Installed' = Installed /\ \A i : RequiresOf(i)' = RequiresOf(i)
    BY <1>10 DEF pico, Installed, RequiresOf
  <2>2. stage = "load" => Loading'
    BY <1>10, <2>1 DEF LInv, Loading, pico, RequiresOf
  <2> QED BY <1>10, <2>1, <2>2 DEF LInv, LoadedIsInstalled, pico
<1>11. CASE (Query \/ Tick) /\ UNCHANGED pico
  BY <1>10, <1>11 DEF Query, Ask, Tick, terminology
<1>12. CASE UNCHANGED <<vars, pico>>
  BY <1>10, <1>12 DEF vars, terminology
<1> QED BY <1>2, <1>3, <1>4, <1>5, <1>6, <1>7, <1>8, <1>9, <1>11, <1>12 DEF PicoNext

(* After an operation on packages that came to its end, the terminology is *)
(* what is installed, for all packages, failures and crashes before it     *)
(* (_reload_installed_ontologies).                                         *)
THEOREM LoadedMatchesInstalled == PicoSpec => []LoadedIsInstalled
<1>1. LInv => LoadedIsInstalled
  BY DEF LInv
<1> QED BY InitLInv, NextLInv, PicoInitProvides, PicoNextProvides, <1>1, PTL DEF PicoSpec

(* Kahn's algorithm puts requirements first, and packages are loaded as it *)
(* says (topological_sort, _topologically_sorted_parsers).                 *)
THEOREM RequirementsComeFirst == PicoSpec => []RequirementsFirst
<1>1. LInv => RequirementsFirst
  BY DEF LInv, Loading, RequirementsFirst
<1> QED BY InitLInv, NextLInv, PicoInitProvides, PicoNextProvides, <1>1, PTL DEF PicoSpec
=============================================================================
