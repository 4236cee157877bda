--------------------------- MODULE EnvironmentsProofs ---------------------------
(***************************************************************************)
(* Proofs about environments: an open container can be found through the   *)
(* environment it is open in, subscriptions are stale only after a         *)
(* container was opened twice, no session is closed under a container, and *)
(* a close that raises makes progress.                                     *)
(***************************************************************************)
EXTENDS Environments, FiniteSetTheorems, SequenceTheorems, WellFoundedInduction, TLAPS

-----------------------------------------------------------------------------
(* Two facts about natural numbers, from the well-foundedness of their     *)
(* order: induction for the proofs below.                                  *)

(* A set of numbers that is not empty has a least element. *)
LEMMA LeastNumber ==
    ASSUME NEW T \in SUBSET Nat, T # {}
    PROVE  \E m \in T : \A k \in T : m <= k
<1> DEFINE R == OpToRel(<, Nat)
<1>1. PICK m \in T : \A k \in T : ~(<<k, m>> \in R)
  <2>1. IsWellFoundedOn(R, Nat)
    BY NatLessThanWellFounded
  <2> HIDE DEF R
  <2> QED
    BY <2>1, WFMin
<1>2. \A k, n \in Nat : k < n => <<k, n>> \in R
  BY DEF OpToRel
<1> HIDE DEF R
<1>3. ASSUME NEW k \in T
      PROVE  m <= k
  <2>1. k \in Nat /\ m \in Nat
    OBVIOUS
  <2>2. ~(k < m)
    BY <1>1, <1>2, <2>1
  <2> QED
    BY <2>1, <2>2
<1> QED
  BY <1>3

(* A function that maps a set into itself can be iterated: what a recursive *)
(* definition over the natural numbers means.                              *)
LEMMA Iteration ==
    ASSUME NEW S, NEW x \in S, NEW F \in [S -> S]
    PROVE  \E g \in [Nat -> S] : g[0] = x /\ \A n \in Nat : g[n+1] = F[g[n]]
<1> DEFINE Good(n, h) == h \in [0..n -> S] /\ h[0] = x /\ \A i \in 0..n-1 : h[i+1] = F[h[i]]
           Bad == {n \in Nat : ~\E h : Good(n, h)}
<1>1. Bad = {}
  <2> SUFFICES ASSUME Bad # {}
               PROVE  FALSE
    OBVIOUS
  <2>1. PICK m \in Bad : \A k \in Bad : m <= k
    <3>1. Bad \in SUBSET Nat
      OBVIOUS
    <3> HIDE DEF Bad
    <3> QED
      BY <3>1, LeastNumber
  <2>2. CASE m = 0
    <3>1. Good(0, [i \in 0..0 |-> x])
      OBVIOUS
    <3> QED
      BY <2>2, <3>1
  <2>3. CASE m # 0
    <3>1. m - 1 \in Nat /\ m - 1 \notin Bad
      BY <2>1, <2>3
    <3>2. PICK h : Good(m-1, h)
      BY <3>1
    <3> DEFINE k == [i \in 0..m |-> IF i = m THEN F[h[m-1]] ELSE h[i]]
    <3>3. Good(m, k)
      <4>1. k \in [0..m -> S]
        BY <2>3, <3>1, <3>2
      <4>2. k[0] = x
        BY <2>3, <3>1, <3>2
      <4>3. ASSUME NEW i \in 0..m-1
            PROVE  k[i+1] = F[k[i]]
        <5>1. CASE i = m-1
          BY <5>1, <3>1, <2>3
        <5>2. CASE i # m-1
          <6>1. i \in 0..(m-1)-1 /\ i+1 \in 0..m /\ i+1 # m /\ i \in 0..m /\ i # m
            BY <5>2, <2>3, <3>1
          <6> QED
            BY <6>1, <3>2
        <5> QED
          BY <5>1, <5>2
      <4> QED
        BY <4>1, <4>2, <4>3
    <3> QED
      BY <3>3
  <2> QED
    BY <2>2, <2>3
<1>2. ASSUME NEW n \in Nat, NEW h, NEW k, Good(n, h), Good(n+1, k)
      PROVE  k[n] = h[n]
  <2> DEFINE D == {i \in 0..n : k[i] # h[i]}
  <2> SUFFICES ASSUME D # {}
               PROVE  FALSE
    OBVIOUS
  <2>1. PICK i \in D : \A j \in D : i <= j
    <3>1. D \in SUBSET Nat
      OBVIOUS
    <3> HIDE DEF D
    <3> QED
      BY <3>1, LeastNumber
  <2>2. i # 0
    BY <1>2, <2>1
  <2>3. i - 1 \in 0..n-1 /\ i - 1 \in 0..n /\ i-1 \notin D /\ i - 1 \in 0..(n+1)-1
    BY <2>1, <2>2
  <2>4. h[(i-1)+1] = F[h[i-1]] /\ k[(i-1)+1] = F[k[i-1]]
    BY <1>2, <2>3
  <2>5. (i-1)+1 = i
    BY <2>1
  <2> QED
    BY <2>1, <2>3, <2>4, <2>5
<1> DEFINE H(n) == CHOOSE h : Good(n, h)
           g == [n \in Nat |-> H(n)[n]]
<1>3. \A n \in Nat : Good(n, H(n))
  BY <1>1
<1> HIDE DEF H
<1>4. g \in [Nat -> S] /\ g[0] = x
  BY <1>3
<1>5. ASSUME NEW n \in Nat
      PROVE  g[n+1] = F[g[n]]
  <2>1. n + 1 \in Nat /\ n \in 0..(n+1)-1
    OBVIOUS
  <2>2. Good(n, H(n)) /\ Good(n+1, H(n+1))
    BY <1>3, <2>1
  <2>3. H(n+1)[n] = H(n)[n]
    BY <1>2, <2>2
  <2>4. H(n+1)[n+1] = F[H(n+1)[n]]
    BY <2>1, <2>2
  <2> QED
    BY <2>1, <2>3, <2>4
<1> QED
  BY <1>4, <1>5

-----------------------------------------------------------------------------
(* What the places of the stack hold. *)
LEMMA TopIsEnv ==
    ASSUME TypeOK
    PROVE  Top \in Env /\ OnStack \subseteq Env
BY EnvironmentAssumption DEF TypeOK, Top, OnStack

LEMMA DefaultIsEnv ==
    ASSUME TypeOK, NEW x \in Env
    PROVE  Default(x) \in Env
BY TopIsEnv DEF TypeOK, Default, Env

(* The chain of environments that are opened in one another is well        *)
(* defined and begins with the two that `open' is called for.              *)
LEMMA ChainOfEnvironments ==
    ASSUME TypeOK, NEW c \in Env, NEW e \in Env
    PROVE  Chain(c, e) \in [Nat -> Env] /\ Chain(c, e)[0] = c /\ Chain(c, e)[1] = e
<1> DEFINE F == [x \in Env |-> Default(x)]
           Eq(f) == f = [n \in Nat |-> IF n = 0 THEN c ELSE IF n = 1 THEN e ELSE Default(f[n-1])]
<1>1. PICK g \in [Nat -> Env] : g[0] = e /\ \A n \in Nat : g[n+1] = F[g[n]]
  <2>1. F \in [Env -> Env]
    BY DefaultIsEnv
  <2> HIDE DEF F
  <2> QED
    BY <2>1, Iteration
<1> DEFINE f == [n \in Nat |-> IF n = 0 THEN c ELSE g[n-1]]
<1>2. Eq(f)
  <2>1. ASSUME NEW n \in Nat, n # 0, n # 1
        PROVE  f[n] = Default(f[n-1])
    <3>1. n-1 \in Nat /\ n-2 \in Nat /\ (n-2)+1 = n-1 /\ n - 1 # 0
      BY <2>1
    <3>2. g[n-1] = F[g[n-2]] /\ g[n-2] \in Env
      BY <1>1, <3>1
    <3>3. f[n-1] = g[n-2] /\ f[n] = g[n-1]
      BY <2>1, <3>1
    <3> QED
      BY <3>2, <3>3
  <2>2. f[0] = c /\ f[1] = e
    BY <1>1
  <2> QED
    BY <2>1, <2>2
<1>3. Chain(c, e) = CHOOSE h : Eq(h)
  BY DEF Chain
<1>4. Eq(Chain(c, e))
  <2> HIDE DEF Eq
  <2> QED
    BY <1>2, <1>3
<1> DEFINE at == Chain(c, e)
<1>5. /\ at = [n \in Nat |-> at[n]] /\ at[0] = c /\ at[1] = e
      /\ \A n \in Nat : n # 0 /\ n # 1 => at[n] = Default(at[n-1])
  <2> HIDE DEF at
  <2>1. at = [n \in Nat |-> IF n = 0 THEN c ELSE IF n = 1 THEN e ELSE Default(at[n-1])]
    BY <1>4 DEF at
  <2> QED
    BY <2>1
<1> HIDE DEF at
<1>6. \A n \in Nat : at[n] \in Env
  <2> DEFINE Bad == {n \in Nat : at[n] \notin Env}
  <2> SUFFICES ASSUME Bad # {}
               PROVE  FALSE
    OBVIOUS
  <2>1. PICK n \in Bad : \A k \in Bad : n <= k
    <3>1. Bad \in SUBSET Nat
      OBVIOUS
    <3> HIDE DEF Bad
    <3> QED
      BY <3>1, LeastNumber
  <2>2. n # 0 /\ n # 1 /\ n - 1 \in Nat /\ n - 1 \notin Bad
    BY <1>5, <2>1
  <2>3. at[n-1] \in Env /\ at[n] = Default(at[n-1])
    BY <1>5, <2>1, <2>2
  <2> QED
    BY <2>1, <2>3, DefaultIsEnv
<1> QED
  BY <1>5, <1>6 DEF at

-----------------------------------------------------------------------------
(* What the calls of one `open' have in common: `session' is that of the   *)
(* environment they end at, x is one of the containers that they open.     *)
Opening(c, at, last) ==
    /\ at \in [Nat -> Env] /\ at[0] = c /\ c \in Container
    /\ last \in Nat \ {0} /\ LastOf(at, last)
    /\ Agrees(c, IF last = 1 THEN SessionOf(at[last]) ELSE None)

(* The container of a call that is not the outermost was closed. *)
LEMMA CallersWereClosed ==
    ASSUME TypeOK, NEW c, NEW at, NEW last, Opening(c, at, last),
           NEW n \in 0..last-1
    PROVE  /\ at[n] \in Container
           /\ IsOpen(at[n]) => n = 0 /\ last = 1 /\ linked[at[n]] = SessionOf(at[last])
<1>1. CASE n = 0
  <2>1. IsOpen(c) => last = 1 /\ linked[c] = SessionOf(at[last])
    BY DEF Opening, Agrees, IsOpen
  <2> QED
    BY <1>1, <2>1 DEF Opening
<1>2. CASE n # 0
  <2>1. n \in 1..last-1 /\ n \in Nat
    BY <1>2 DEF Opening
  <2>2. ~Ends(at, n)
    BY <2>1 DEF Opening, LastOf
  <2> QED
    BY <2>1, <2>2 DEF Ends, Opening, Env
<1> QED
  BY <1>1, <1>2

(* A call that is not the last one opens its container, if the chain ends  *)
(* in an environment that is open.                                         *)
LEMMA CallersAreOpened ==
    ASSUME TypeOK, NEW c, NEW at, NEW last, Opening(c, at, last),
           SessionOf(at[last]) # None, NEW n \in Nat, n + 1 < last
    PROVE  n + 1 \in Calls(at, last, at[n+1])
<1>1. n + 1 \in 1..last-1 /\ n + 2 \in 1..last /\ n + 1 \in 0..last-1 /\ (n+1)+1 = n+2
  BY DEF Opening
<1>2. at[n+1] \in Container /\ ~IsOpen(at[n+1])
  BY <1>1, CallersWereClosed
<1>3. ASSUME at[n+2] = at[n+1]
      PROVE  FALSE
  <2>1. Ends(at, n+2)
    <3>1. (n+2)-1 = n+1
      OBVIOUS
    <3> QED
      BY <1>3, <3>1 DEF Ends
  <2>2. n + 2 = last
    BY <1>1, <2>1 DEF Opening, LastOf
  <2>3. SessionOf(at[last]) = linked[at[n+1]]
    BY <1>2, <1>3, <2>2, EnvironmentAssumption DEF SessionOf
  <2> QED
    BY <1>2, <2>3 DEF IsOpen
<1> QED
  BY <1>1, <1>3 DEF Calls

LEMMA OpenedContainers ==
    ASSUME TypeOK, NEW c, NEW at, NEW last, Opening(c, at, last),
           NEW x \in Opened(at, last)
    PROVE  /\ x \in Container
           /\ OpenedIn(at, last, x) \subseteq Env \ {x}
           /\ Outer(at, last, x) \in OpenedIn(at, last, x)
           /\ IsOpen(x) => linked[x] = SessionOf(at[last])
<1> DEFINE calls == Calls(at, last, x)
<1>1. x \in Container /\ calls # {} /\ calls \in SUBSET Nat
  BY DEF Opened, Calls, Opening
<1>2. OpenedIn(at, last, x) \subseteq Env \ {x}
  <2>1. \A n \in calls : n + 1 \in Nat /\ at[n+1] # x
    BY <1>1 DEF Calls
  <2> QED
    BY <2>1 DEF OpenedIn, Opening
<1>3. Outer(at, last, x) \in OpenedIn(at, last, x)
  <2> DEFINE n == CHOOSE k \in calls : \A m \in calls : k <= m
  <2>1. n \in calls
    <3> HIDE DEF calls
    <3>1. \E k \in calls : \A m \in calls : k <= m
      BY <1>1, LeastNumber
    <3> QED
      BY <3>1
  <2>2. Outer(at, last, x) = at[1 + n] /\ 1 + n = n + 1
    BY <1>1, <2>1 DEF Outer
  <2> QED
    BY <2>1, <2>2 DEF OpenedIn
<1>4. ASSUME IsOpen(x)
      PROVE  linked[x] = SessionOf(at[last])
  <2>1. PICK n \in 0..last-1 : at[n] = x
    BY <1>1 DEF Calls
  <2> QED
    BY <1>4, <2>1, CallersWereClosed
<1> QED
  BY <1>1, <1>2, <1>3, <1>4

(* A container is opened in the session that the calls end at, or in a     *)
(* container that is in this session afterwards.                           *)
LEMMA OpenedInTheSession ==
    ASSUME TypeOK, NEW c, NEW at, NEW last, Opening(c, at, last),
           NEW x \in Opened(at, last), NEW y \in OpenedIn(at, last, x)
    PROVE  /\ y \in Session => y = SessionOf(at[last])
           /\ SessionOf(at[last]) # None /\ y \in Container
                => y \in Opened(at, last) \/ linked[y] = SessionOf(at[last])
<1>1. PICK n \in 0..last-1 : n \in Calls(at, last, x) /\ y = at[n+1]
  BY DEF OpenedIn, Calls
<1>2. n \in Nat /\ last \in Nat /\ (n + 1 < last \/ n + 1 = last)
  BY DEF Opening
<1>3. CASE n + 1 = last
  BY <1>1, <1>3, EnvironmentAssumption DEF SessionOf
<1>4. CASE n + 1 < last
  <2>1. n + 1 \in 0..last-1
    BY <1>2, <1>4
  <2>2. y \in Container
    BY <1>1, <2>1, CallersWereClosed
  <2>3. SessionOf(at[last]) # None => n + 1 \in Calls(at, last, y)
    BY <1>1, <1>2, <1>4, CallersAreOpened
  <2> QED
    BY <2>2, <2>3, EnvironmentAssumption DEF Opened
<1> QED
  BY <1>2, <1>3, <1>4

(* The call that returns first, among those of some containers that were   *)
(* not in the session before, opens one of them in none of them.           *)
LEMMA FirstOpened ==
    ASSUME TypeOK, NEW c, NEW at, NEW last, Opening(c, at, last),
           SessionOf(at[last]) # None, NEW C \in SUBSET Opened(at, last), C # {},
           \A x \in C : linked[x] # SessionOf(at[last])
    PROVE  \E x \in C, y \in Env \ C :
              /\ y \in OpenedIn(at, last, x)
              /\ y = SessionOf(at[last]) \/ y \in Opened(at, last)
                   \/ (y \in Container /\ linked[y] = SessionOf(at[last]))
<1> DEFINE T == {m \in Nat : m <= last /\ \E x \in C : last - m \in Calls(at, last, x)}
<1>1. last \in Nat
  BY DEF Opening
<1>2. T # {} /\ T \in SUBSET Nat
  <2>1. PICK x \in C : TRUE
    OBVIOUS
  <2>2. PICK n \in Calls(at, last, x) : n \in 0..last-1
    BY <2>1 DEF Opened, Calls
  <2>3. last - n \in Nat /\ last - n <= last /\ last - (last - n) = n
    BY <1>1, <2>2
  <2> QED
    BY <2>1, <2>2, <2>3
<1>3. PICK m \in T : \A k \in T : m <= k
  <2> HIDE DEF T
  <2> QED
    BY <1>2, LeastNumber
<1>4. PICK x \in C : last - m \in Calls(at, last, x)
  BY <1>3
<1> DEFINE n == last - m
           y == at[n+1]
<1>5. n \in 0..last-1 /\ n \in Nat /\ n + 1 \in Nat /\ at[n] = x
  BY <1>1, <1>3, <1>4 DEF Calls
<1>6. y \in OpenedIn(at, last, x) /\ y \in Env
  BY <1>4, <1>5 DEF OpenedIn, Opening
<1>7. CASE n + 1 = last
  <2>1. y = at[last]
    BY <1>7
  <2>2. CASE y \in Session
    <3>1. y \notin C
      BY <2>2, OpenedContainers, EnvironmentAssumption
    <3> QED
      BY <1>4, <1>6, <2>1, <2>2, <3>1 DEF SessionOf
  <2>3. CASE y \notin Session
    BY <1>4, <1>6, <2>1, <2>3 DEF SessionOf, Env
  <2> QED
    BY <2>2, <2>3
<1>8. CASE n + 1 < last
  <2>1. n + 1 \in Calls(at, last, y)
    BY <1>5, <1>8, CallersAreOpened
  <2>2. y \in Opened(at, last)
    <3>1. n + 1 \in 0..last-1
      BY <1>1, <1>5, <1>8
    <3> QED
      BY <2>1, <3>1, CallersWereClosed DEF Opened
  <2>3. ASSUME y \in C
        PROVE  FALSE
    <3>1. m - 1 \in Nat /\ m - 1 <= last /\ last - (m - 1) = n + 1
      BY <1>1, <1>3, <1>5, <1>8
    <3>2. m - 1 \in T
      BY <2>1, <2>3, <3>1
    <3> QED
      BY <1>2, <1>3, <3>1, <3>2
  <2> QED
    BY <1>4, <1>6, <2>2, <2>3
<1>9. n + 1 = last \/ n + 1 < last
  BY <1>1, <1>5
<1> QED
  BY <1>7, <1>8, <1>9

-----------------------------------------------------------------------------
(* The inductive invariant.  The first part is the types of the variables  *)
(* that opening and closing change.                                        *)
PlacesTyped ==
    /\ registered \subseteq Env /\ reopened \subseteq Container
    /\ subscribers \in [Env -> SUBSET Container]
    /\ linked \in [Container -> Session \cup {None}]
    /\ parent \in [Container -> Container \cup {None}]

(* A container that is open in another one is subscribed to it even while  *)
(* it has no session (the container of the outermost call is not open in   *)
(* any when the calls end at a container that opens in itself).            *)
ParentsKnown ==
    \A c \in Container : parent[c] # None => c \in subscribers[parent[c]] /\ c \in registered

(* Any group of containers of one session hangs on something of this       *)
(* session outside of the group: there are no cycles of containers that    *)
(* are open in one another, cut off from their session.                    *)
Anchored ==
    \A s \in Session : \A C \in SUBSET {c \in Container : linked[c] = s} :
        C # {} => \E c \in C, y \in Env \ C :
                     /\ c \in subscribers[y]
                     /\ SessionOf(y) = s

PlacesInv ==
    /\ PlacesTyped
    /\ ParentsKnown
    /\ OpenMeansSubscribed
    /\ StaleOnlyIfReopened
    /\ LinkFollowsParent
    /\ Anchored

Inv == TypeOK /\ PlacesInv

LEMMA PlacesUnchanged ==
    ASSUME PlacesInv, UNCHANGED <<linked, parent, subscribers, reopened>>,
           registered \subseteq registered', registered' \subseteq Env
    PROVE  PlacesInv'
BY DEF PlacesInv, PlacesTyped, ParentsKnown, OpenMeansSubscribed, StaleOnlyIfReopened,
       LinkFollowsParent, Anchored, IsOpen, EnvironmentOf, SessionOf

-----------------------------------------------------------------------------
(* Opening.                                                                *)
Effect(at, last, entered) ==
    /\ linked' = [x \in Container |->
           IF x \in Opened(at, last) THEN SessionOf(at[last]) ELSE linked[x]]
    /\ parent' = [x \in Container |->
           IF x \in Opened(at, last) /\ Outer(at, last, x) \in Container
           THEN Outer(at, last, x) ELSE parent[x]]
    /\ subscribers' = [y \in Env |->
           subscribers[y] \cup {x \in Opened(at, last) : y \in OpenedIn(at, last, x)}]
    /\ registered' = registered \cup Opened(at, last) \cup entered
    /\ reopened' = reopened \cup {x \in Opened(at, last) :
           \E y, z \in OpenedIn(at, last, x) \cup ({EnvironmentOf(x)} \ {None}) : y # z}

LEMMA OpenInStep ==
    ASSUME TypeOK, NEW c \in Container, NEW e \in Env, NEW entered, OpenIn(c, e, entered)
    PROVE  \E at, last : Opening(c, at, last) /\ Effect(at, last, entered)
<1> DEFINE at == Chain(c, e)
<1>1. Cardinality(Container) \in Nat
  BY EnvironmentAssumption, FS_CardinalityType
<1>2. at \in [Nat -> Env] /\ at[0] = c
  BY ChainOfEnvironments DEF Env
<1> HIDE DEF at
<1>3. PICK last \in 1..Cardinality(Container) + 2 :
          /\ LastOf(at, last)
          /\ Agrees(c, IF last = 1 THEN SessionOf(at[last]) ELSE None)
          /\ Effect(at, last, entered)
  BY DEF OpenIn, Effect, at
<1>4. last \in Nat \ {0}
  BY <1>1, <1>3
<1> QED
  BY <1>2, <1>3, <1>4 DEF Opening

LEMMA OpeningTyped ==
    ASSUME TypeOK, NEW c, NEW at, NEW last, NEW entered \in SUBSET Env,
           Opening(c, at, last), Effect(at, last, entered)
    PROVE  PlacesTyped'
<1>1. Opened(at, last) \subseteq Container
  BY DEF Opened
<1>2. SessionOf(at[last]) \in Session \cup {None}
  <2>1. at[last] \in Env
    BY DEF Opening
  <2> QED
    BY <2>1 DEF SessionOf, TypeOK, Env
<1>3. linked' \in [Container -> Session \cup {None}]
  BY <1>2 DEF Effect, TypeOK
<1>4. parent' \in [Container -> Container \cup {None}]
  BY DEF Effect, TypeOK
<1>5. subscribers' \in [Env -> SUBSET Container]
  BY <1>1 DEF Effect, TypeOK
<1>6. registered' \subseteq Env /\ reopened' \subseteq Container
  BY <1>1 DEF Effect, TypeOK, Env
<1> QED
  BY <1>3, <1>4, <1>5, <1>6 DEF PlacesTyped

(* What a container that is opened belongs to afterwards: the environment  *)
(* of its outermost call, unless it stays in another container.            *)
LEMMA OpenedPlace ==
    ASSUME TypeOK, NEW c, NEW at, NEW last, NEW entered \in SUBSET Env,
           Opening(c, at, last), Effect(at, last, entered), NEW x \in Opened(at, last)
    PROVE  /\ x \in Container /\ linked'[x] = SessionOf(at[last])
           /\ x \in subscribers'[Outer(at, last, x)] /\ x \in registered'
           /\ \/ parent'[x] = Outer(at, last, x) /\ Outer(at, last, x) \in Container
              \/ /\ parent'[x] = parent[x] /\ Outer(at, last, x) \in Session
                 /\ Outer(at, last, x) = SessionOf(at[last])
<1>1. x \in Container /\ Outer(at, last, x) \in OpenedIn(at, last, x) /\ Outer(at, last, x) \in Env
  BY OpenedContainers
<1>2. linked'[x] = SessionOf(at[last]) /\ x \in registered'
  BY <1>1 DEF Effect
<1>3. x \in subscribers'[Outer(at, last, x)]
  BY <1>1 DEF Effect
<1>4. Outer(at, last, x) \in Session => Outer(at, last, x) = SessionOf(at[last])
  BY <1>1, OpenedInTheSession
<1> QED
  BY <1>1, <1>2, <1>3, <1>4 DEF Effect, Env

(* A container that is opened and counts as opened in one place was in no  *)
(* other place before.                                                     *)
LEMMA OpenedOnce ==
    ASSUME TypeOK, NEW c, NEW at, NEW last, NEW entered \in SUBSET Env,
           Opening(c, at, last), Effect(at, last, entered),
           NEW x \in Opened(at, last) \ reopened'
    PROVE  /\ OpenedIn(at, last, x) = {Outer(at, last, x)}
           /\ EnvironmentOf(x) \in {None, Outer(at, last, x)}
           /\ x \notin reopened
<1>1. \A y, z \in OpenedIn(at, last, x) \cup ({EnvironmentOf(x)} \ {None}) : y = z
  BY DEF Effect
<1>2. Outer(at, last, x) \in OpenedIn(at, last, x)
  BY OpenedContainers
<1>3. x \notin reopened
  BY DEF Effect
<1> QED
  BY <1>1, <1>2, <1>3

LEMMA OpeningKeepsLinks ==
    ASSUME TypeOK, NEW c, NEW at, NEW last, NEW entered \in SUBSET Env,
           Opening(c, at, last), Effect(at, last, entered), NEW x \in Container, IsOpen(x)
    PROVE  linked'[x] = linked[x]
BY OpenedContainers DEF Effect

LEMMA OpeningSubscribes ==
    ASSUME TypeOK, PlacesInv, NEW c, NEW at, NEW last, NEW entered \in SUBSET Env,
           Opening(c, at, last), Effect(at, last, entered)
    PROVE  ParentsKnown' /\ OpenMeansSubscribed'
<1>1. \A x \in Container : parent[x] # None => x \in subscribers'[parent[x]] /\ x \in registered'
  <2>1. \A y \in Env : subscribers[y] \subseteq subscribers'[y]
    BY DEF Effect
  <2> QED
    BY <2>1 DEF PlacesInv, PlacesTyped, ParentsKnown, Env, Effect
<1>2. ASSUME NEW x \in Container, x \notin Opened(at, last)
      PROVE  /\ parent'[x] = parent[x] /\ linked'[x] = linked[x]
             /\ IsOpen(x) => x \in subscribers'[EnvironmentOf(x)] /\ x \in registered'
  <2>1. IsOpen(x) => EnvironmentOf(x) \in Env
    BY DEF PlacesInv, PlacesTyped, EnvironmentOf, IsOpen, Env
  <2> QED
    BY <1>2, <2>1 DEF Effect, PlacesInv, OpenMeansSubscribed
<1>3. ParentsKnown'
  <2> SUFFICES ASSUME NEW x \in Container, parent'[x] # None
               PROVE  x \in subscribers'[parent'[x]] /\ x \in registered'
    BY DEF ParentsKnown
  <2>1. CASE x \in Opened(at, last)
    BY <1>1, <2>1, OpenedPlace
  <2>2. CASE x \notin Opened(at, last)
    BY <1>1, <1>2, <2>2
  <2> QED
    BY <2>1, <2>2
<1>4. OpenMeansSubscribed'
  <2> SUFFICES ASSUME NEW x \in Container, linked'[x] # None
               PROVE  /\ x \in subscribers'[IF parent'[x] # None THEN parent'[x] ELSE linked'[x]]
                      /\ x \in registered'
    BY DEF OpenMeansSubscribed, IsOpen, EnvironmentOf
  <2>1. CASE x \in Opened(at, last)
    <3>1. CASE parent'[x] # None
      BY <1>3, <3>1 DEF ParentsKnown
    <3>2. CASE parent'[x] = None
      BY <2>1, <3>2, OpenedPlace, EnvironmentAssumption DEF Env
    <3> QED
      BY <3>1, <3>2
  <2>2. CASE x \notin Opened(at, last)
    BY <1>2, <2>2 DEF IsOpen, EnvironmentOf
  <2> QED
    BY <2>1, <2>2
<1> QED
  BY <1>3, <1>4

LEMMA OpeningLeavesNothingStale ==
    ASSUME TypeOK, PlacesInv, NEW c, NEW at, NEW last, NEW entered \in SUBSET Env,
           Opening(c, at, last), Effect(at, last, entered)
    PROVE  StaleOnlyIfReopened'
<1> SUFFICES ASSUME NEW y \in Env, NEW x \in subscribers'[y] \ reopened'
             PROVE  /\ x \in registered'
                    /\ (IF parent'[x] # None THEN parent'[x] ELSE linked'[x]) = y
  BY DEF StaleOnlyIfReopened, EnvironmentOf
<1>1. PlacesTyped' /\ x \in Container
  BY OpeningTyped DEF PlacesTyped
<1>2. CASE x \notin Opened(at, last)
  <2>1. x \in subscribers[y] /\ x \notin reopened
    BY <1>2 DEF Effect
  <2>2. parent'[x] = parent[x] /\ linked'[x] = linked[x]
    BY <1>1, <1>2 DEF Effect
  <2>3. x \in registered /\ EnvironmentOf(x) = y
    BY <2>1 DEF PlacesInv, StaleOnlyIfReopened
  <2> QED
    BY <2>2, <2>3 DEF EnvironmentOf, Effect
<1>3. CASE x \in Opened(at, last)
  <2> DEFINE o == Outer(at, last, x)
  <2>1. OpenedIn(at, last, x) = {o} /\ EnvironmentOf(x) \in {None, o} /\ x \notin reopened
    BY <1>3, OpenedOnce
  <2>2. y = o
    <3>1. CASE x \in subscribers[y]
      <4>1. EnvironmentOf(x) = y
        BY <2>1, <3>1 DEF PlacesInv, StaleOnlyIfReopened
      <4> QED
        BY <2>1, <4>1, EnvironmentAssumption
    <3>2. CASE x \notin subscribers[y]
      BY <2>1, <3>2 DEF Effect
    <3> QED
      BY <3>1, <3>2
  <2> HIDE DEF o
  <2>3. /\ linked'[x] = SessionOf(at[last]) /\ x \in registered'
        /\ \/ parent'[x] = o /\ o \in Container
           \/ parent'[x] = parent[x] /\ o \in Session /\ o = SessionOf(at[last])
    BY <1>3, OpenedPlace DEF o
  <2>4. CASE o \in Container
    <3>1. parent'[x] = o /\ o # None
      BY <2>3, <2>4, EnvironmentAssumption DEF Env
    <3> QED
      BY <2>2, <2>3, <3>1
  <2>5. CASE o \in Session /\ parent'[x] = parent[x] /\ o = SessionOf(at[last])
    <3>1. parent[x] = None
      <4>1. parent[x] \in Container \cup {None}
        BY <1>1 DEF PlacesInv, PlacesTyped
      <4>2. parent[x] # None => parent[x] = o
        BY <2>1 DEF EnvironmentOf
      <4> QED
        BY <2>5, <4>1, <4>2, EnvironmentAssumption
    <3> QED
      BY <2>2, <2>3, <2>5, <3>1
  <2> QED
    BY <2>3, <2>4, <2>5
<1> QED
  BY <1>2, <1>3

LEMMA OpeningLinksLikeTheParent ==
    ASSUME TypeOK, PlacesInv, NEW c, NEW at, NEW last, NEW entered \in SUBSET Env,
           Opening(c, at, last), Effect(at, last, entered)
    PROVE  LinkFollowsParent'
<1> SUFFICES ASSUME NEW x \in Container \ reopened', linked'[x] # None, parent'[x] # None
             PROVE  linked'[x] = linked'[parent'[x]]
  BY DEF LinkFollowsParent, IsOpen
<1>1. CASE x \notin Opened(at, last)
  <2>1. parent'[x] = parent[x] /\ linked'[x] = linked[x] /\ x \notin reopened
    BY <1>1 DEF Effect
  <2>2. linked[x] = linked[parent[x]] /\ parent[x] \in Container
    BY <2>1 DEF PlacesInv, PlacesTyped, LinkFollowsParent, IsOpen
  <2>3. linked'[parent[x]] = linked[parent[x]]
    BY <2>1, <2>2, OpeningKeepsLinks DEF IsOpen
  <2> QED
    BY <2>1, <2>2, <2>3
<1>2. CASE x \in Opened(at, last)
  <2> DEFINE o == Outer(at, last, x)
  <2>1. OpenedIn(at, last, x) = {o} /\ EnvironmentOf(x) \in {None, o}
    BY <1>2, OpenedOnce
  <2>2. /\ linked'[x] = SessionOf(at[last])
        /\ \/ parent'[x] = o /\ o \in Container
           \/ parent'[x] = parent[x] /\ o \in Session
    BY <1>2, OpenedPlace
  <2>3. o \in Container => o \in Opened(at, last) \/ linked[o] = SessionOf(at[last])
    BY <1>2, <2>1, <2>2, OpenedInTheSession
  <2> HIDE DEF o
  <2>4. CASE parent'[x] = o /\ o \in Container
    <3>1. linked'[o] = SessionOf(at[last])
      BY <2>3, <2>4 DEF Effect
    <3> QED
      BY <2>2, <2>4, <3>1
  <2>5. CASE parent'[x] = parent[x] /\ o \in Session
    <3>1. parent[x] \in Container /\ parent[x] = o
      BY <2>1, <2>5 DEF EnvironmentOf, PlacesInv, PlacesTyped
    <3> QED
      BY <2>5, <3>1, EnvironmentAssumption
  <2> QED
    BY <2>2, <2>4, <2>5
<1> QED
  BY <1>1, <1>2

LEMMA OpeningAnchors ==
    ASSUME TypeOK, PlacesInv, NEW c, NEW at, NEW last, NEW entered \in SUBSET Env,
           Opening(c, at, last), Effect(at, last, entered)
    PROVE  Anchored'
<1> SUFFICES ASSUME NEW s \in Session, NEW C \in SUBSET Container, C # {},
                    \A x \in C : linked'[x] = s
             PROVE  \E x \in C, y \in Env \ C :
                       /\ x \in subscribers'[y]
                       /\ (IF y \in Session THEN y ELSE linked'[y]) = s
  BY DEF Anchored, SessionOf
<1>1. \A y \in Env : SessionOf(y) = s => (IF y \in Session THEN y ELSE linked'[y]) = s
  BY OpeningKeepsLinks, EnvironmentAssumption DEF SessionOf, IsOpen, Env
<1>2. CASE \E x \in C : linked[x] = s
  <2> DEFINE D == {x \in C : linked[x] = s}
  <2>1. PICK x \in D, y \in Env \ D : x \in subscribers[y] /\ SessionOf(y) = s
    <3>1. D \in SUBSET {x \in Container : linked[x] = s} /\ D # {}
      BY <1>2
    <3> HIDE DEF D
    <3> QED
      BY <3>1 DEF PlacesInv, Anchored
  <2>2. y \notin C
    BY <2>1, EnvironmentAssumption DEF SessionOf
  <2>3. x \in subscribers'[y]
    BY <2>1 DEF Effect
  <2> QED
    BY <1>1, <2>1, <2>2, <2>3
<1>3. CASE \A x \in C : linked[x] # s
  <2>1. C \subseteq Opened(at, last) /\ s = SessionOf(at[last])
    BY <1>3 DEF Effect
  <2>2. s # None
    BY EnvironmentAssumption DEF Env
  <2>3. PICK x \in C, y \in Env \ C :
            /\ y \in OpenedIn(at, last, x)
            /\ y = s \/ y \in Opened(at, last) \/ (y \in Container /\ linked[y] = s)
    BY <1>3, <2>1, <2>2, FirstOpened
  <2>4. x \in subscribers'[y]
    BY <2>1, <2>3 DEF Effect
  <2>5. (IF y \in Session THEN y ELSE linked'[y]) = s
    <3>1. CASE y = s
      BY <3>1
    <3>2. CASE y \in Opened(at, last)
      BY <2>1, <3>2, EnvironmentAssumption DEF Effect, Opened
    <3>3. CASE y \in Container /\ linked[y] = s
      BY <1>1, <3>3, EnvironmentAssumption DEF SessionOf, Env
    <3> QED
      BY <2>3, <3>1, <3>2, <3>3
  <2> QED
    BY <2>3, <2>4, <2>5
<1> QED
  BY <1>2, <1>3

LEMMA OpenInKeepsInv ==
    ASSUME TypeOK, PlacesInv, NEW c \in Container, NEW e \in Env,
           NEW entered \in SUBSET Env, OpenIn(c, e, entered)
    PROVE  PlacesInv'
BY OpenInStep, OpeningTyped, OpeningSubscribes, OpeningLeavesNothingStale,
   OpeningLinksLikeTheParent, OpeningAnchors DEF PlacesInv

-----------------------------------------------------------------------------
(* Closing.                                                                *)
LEMMA CloseLeafKeepsInv ==
    ASSUME PlacesInv, NEW e \in Env, NEW via \in Env, subscribers[e] = {}, CloseLeaf(e, via)
    PROVE  PlacesInv'
<1>1. /\ registered' = registered \ {e}
      /\ linked' = [x \in Container |-> IF x = e THEN None ELSE linked[x]]
      /\ parent' = [x \in Container |-> IF x = e THEN None ELSE parent[x]]
      /\ subscribers' \in [Env -> SUBSET Container]
      /\ \A y \in Env : subscribers[y] \ {e} \subseteq subscribers'[y]
      /\ \A y \in Env : subscribers'[y] \subseteq subscribers[y]
      /\ \A y \in Env : e \in Container /\ y = EnvironmentOf(e) => e \notin subscribers'[y]
      /\ reopened \ {e} \subseteq reopened' /\ reopened' \subseteq reopened
      /\ \A y \in Env : e \in subscribers'[y] => reopened' = reopened
  BY DEF CloseLeaf, PlacesInv, PlacesTyped
<1> DEFINE place(x) == IF parent'[x] # None THEN parent'[x] ELSE linked'[x]
<1>2. \A x \in Container : x # e => /\ linked'[x] = linked[x] /\ parent'[x] = parent[x]
                                   /\ place(x) = EnvironmentOf(x)
  BY <1>1 DEF EnvironmentOf
<1>3. e \in Container => linked'[e] = None /\ parent'[e] = None
  BY <1>1
<1>4. PlacesTyped'
  BY <1>1 DEF PlacesInv, PlacesTyped
<1>5. ParentsKnown'
  <2> SUFFICES ASSUME NEW x \in Container, parent'[x] # None
               PROVE  x \in subscribers'[parent'[x]] /\ x \in registered'
    BY DEF ParentsKnown
  <2>1. x # e /\ parent'[x] = parent[x]
    BY <1>2, <1>3
  <2>2. x \in subscribers[parent[x]] /\ x \in registered /\ parent[x] \in Env
    BY <2>1 DEF PlacesInv, PlacesTyped, ParentsKnown, Env
  <2> QED
    BY <1>1, <2>1, <2>2
<1>6. OpenMeansSubscribed'
  <2> SUFFICES ASSUME NEW x \in Container, linked'[x] # None
               PROVE  x \in subscribers'[place(x)] /\ x \in registered'
    BY DEF OpenMeansSubscribed, IsOpen, EnvironmentOf
  <2>1. x # e /\ linked[x] # None /\ place(x) = EnvironmentOf(x)
    BY <1>2, <1>3
  <2>2. x \in subscribers[EnvironmentOf(x)] /\ x \in registered
    BY <2>1 DEF PlacesInv, OpenMeansSubscribed, IsOpen
  <2>3. EnvironmentOf(x) \in Env
    BY <2>1 DEF PlacesInv, PlacesTyped, EnvironmentOf, Env
  <2> HIDE DEF place
  <2> QED
    BY <1>1, <2>1, <2>2, <2>3
<1>7. StaleOnlyIfReopened'
  <2> SUFFICES ASSUME NEW y \in Env, NEW x \in subscribers'[y] \ reopened'
               PROVE  x \in registered' /\ place(x) = y
    BY DEF StaleOnlyIfReopened, EnvironmentOf
  <2>1. x \in Container /\ x \in subscribers[y]
    BY <1>1
  <2>2. CASE x = e
    <3>1. e \notin reopened
      BY <1>1, <2>2
    <3>2. EnvironmentOf(e) = y
      BY <2>1, <2>2, <3>1 DEF PlacesInv, StaleOnlyIfReopened
    <3> QED
      BY <1>1, <2>1, <2>2, <3>2
  <2>3. CASE x # e
    <3>1. x \notin reopened
      BY <1>1, <2>3
    <3>2. x \in registered /\ EnvironmentOf(x) = y
      BY <2>1, <3>1 DEF PlacesInv, StaleOnlyIfReopened
    <3> HIDE DEF place
    <3> QED
      BY <1>1, <1>2, <2>1, <2>3, <3>2
  <2> QED
    BY <2>2, <2>3
<1>8. LinkFollowsParent'
  <2> SUFFICES ASSUME NEW x \in Container \ reopened', linked'[x] # None, parent'[x] # None
               PROVE  linked'[x] = linked'[parent'[x]]
    BY DEF LinkFollowsParent, IsOpen
  <2>1. x # e /\ linked'[x] = linked[x] /\ parent'[x] = parent[x] /\ x \notin reopened
    BY <1>1, <1>2, <1>3
  <2>2. linked[x] = linked[parent[x]]
    BY <2>1 DEF PlacesInv, LinkFollowsParent, IsOpen
  <2>3. x \in subscribers[parent[x]] /\ parent[x] \in Container
    BY <2>1 DEF PlacesInv, PlacesTyped, ParentsKnown
  <2>4. parent[x] # e
    BY <2>3
  <2> QED
    BY <1>2, <2>1, <2>2, <2>3, <2>4
<1>9. Anchored'
  <2> SUFFICES ASSUME NEW s \in Session, NEW C \in SUBSET Container, C # {},
                      \A x \in C : linked'[x] = s
               PROVE  \E x \in C, y \in Env \ C :
                         /\ x \in subscribers'[y]
                         /\ (IF y \in Session THEN y ELSE linked'[y]) = s
    BY DEF Anchored, SessionOf
  <2>1. e \notin C
    BY <1>3, EnvironmentAssumption DEF Env
  <2>2. \A x \in C : linked[x] = s
    BY <1>2, <2>1
  <2>3. PICK x \in C, y \in Env \ C : x \in subscribers[y] /\ SessionOf(y) = s
    <3>1. C \in SUBSET {x \in Container : linked[x] = s}
      BY <2>2
    <3> QED
      BY <3>1 DEF PlacesInv, Anchored
  <2>4. y # e /\ x # e
    BY <2>1, <2>3
  <2>5. (IF y \in Session THEN y ELSE linked'[y]) = s
    BY <1>2, <2>3, <2>4 DEF SessionOf, Env
  <2> QED
    BY <1>1, <2>3, <2>4, <2>5
<1> QED
  BY <1>4, <1>5, <1>6, <1>7, <1>8, <1>9 DEF PlacesInv

LEMMA ClosedWithIsClosed ==
    ASSUME TypeOK, NEW e \in Env
    PROVE  /\ e \in ClosedWith(e) /\ ClosedWith(e) \subseteq Container \cup {e}
           /\ \A x \in ClosedWith(e) : subscribers[x] \ OnStack \subseteq ClosedWith(e)
<1> DEFINE Reach(S) == e \in S /\ \A y \in S : subscribers[y] \ OnStack \subseteq S
           W == ClosedWith(e)
<1>1. W = {x \in Env : \A S \in SUBSET Env : Reach(S) => x \in S}
  BY DEF ClosedWith
<1>2. e \in W
  BY <1>1
<1>3. W \subseteq Container \cup {e}
  <2>1. Container \cup {e} \in SUBSET Env /\ Reach(Container \cup {e})
    BY DEF Env, TypeOK
  <2> QED
    BY <1>1, <2>1
<1>4. ASSUME NEW x \in W, NEW y \in subscribers[x] \ OnStack
      PROVE  y \in W
  <2>1. x \in Env /\ y \in Env
    BY <1>1, <1>4 DEF TypeOK, Env
  <2>2. \A S \in SUBSET Env : Reach(S) => y \in S
    BY <1>1
  <2> QED
    BY <1>1, <2>1, <2>2
<1> QED
  BY <1>2, <1>3, <1>4

(* What a close goes through are environments, and it closes one that      *)
(* nothing is subscribed to, or none.                                      *)
LEMMA CloseStep ==
    ASSUME TypeOK, NEW e \in Env, Close(e)
    PROVE  \E x, via \in Env : subscribers[x] = {} /\ CloseLeaf(x, via)
<1>1. ClosedWith(e) \subseteq Env
  BY DEF ClosedWith
<1> QED
  BY <1>1 DEF Close

LEMMA ExitStep ==
    ASSUME TypeOK, NEW e \in Env, Exit(e)
    PROVE  \/ UNCHANGED <<places, graphOpen>>
           \/ subscribers[e] = {} /\ CloseLeaf(e, e)
BY DEF Exit

-----------------------------------------------------------------------------
(* The invariant and its consequences.                                     *)
LEMMA Initially == Init => Inv
<1> SUFFICES ASSUME Init
             PROVE  Inv
  OBVIOUS
<1>1. TypeOK
  <2>1. stack \in Seq(Env) /\ Len(stack) = 1 /\ 1 \in 1..MaxDepth
    <3>1. default \in Env
      BY EnvironmentAssumption DEF Env
    <3> QED
      BY <3>1, EnvironmentAssumption DEF Init
  <2>2. locks \in [Env -> 0..MaxLocks]
    BY EnvironmentAssumption DEF Init
  <2> QED
    BY <2>1, <2>2 DEF Init, TypeOK, Env
<1>2. PlacesInv
  <2>1. Anchored
    BY EnvironmentAssumption DEF Init, Anchored, Env
  <2> QED
    BY <2>1 DEF Init, PlacesInv, PlacesTyped, ParentsKnown, OpenMeansSubscribed,
                StaleOnlyIfReopened, LinkFollowsParent, IsOpen, Env
<1> QED
  BY <1>1, <1>2 DEF Inv

LEMMA PlacesKept ==
    ASSUME Inv, [Next]_vars
    PROVE  PlacesInv'
<1> USE DEF Inv
<1>1. CASE UNCHANGED places
  BY <1>1, PlacesUnchanged DEF places, PlacesInv, PlacesTyped
<1>2. ASSUME NEW c \in Container, NEW e \in Env, Open(c, e)
      PROVE  PlacesInv'
  BY <1>2, OpenInKeepsInv DEF Open
<1>3. ASSUME NEW e \in Env, Enter(e)
      PROVE  PlacesInv'
  <2>1. CASE e \in Container
    <3>1. OpenIn(e, Default(e), {e}) /\ Default(e) \in Env
      BY <1>3, <2>1, DefaultIsEnv DEF Enter
    <3> QED
      BY <2>1, <3>1, OpenInKeepsInv
  <2>2. CASE e \notin Container
    <3>1. registered' = registered \cup {e} /\ UNCHANGED <<linked, parent, subscribers, reopened>>
      BY <1>3, <2>2 DEF Enter
    <3>2. registered' \subseteq Env
      BY <3>1 DEF TypeOK
    <3> QED
      BY <3>1, <3>2, PlacesUnchanged
  <2> QED
    BY <2>1, <2>2
<1>4. ASSUME NEW e \in Env, Exit(e)
      PROVE  PlacesInv'
  BY <1>1, <1>4, ExitStep, CloseLeafKeepsInv
<1>5. ASSUME NEW e \in Env, Close(e)
      PROVE  PlacesInv'
  BY <1>5, CloseStep, CloseLeafKeepsInv
<1>6. ASSUME NEW c \in Container, NEW e \in Places, SetOpensIn(c, e)
      PROVE  UNCHANGED places
  BY <1>6 DEF SetOpensIn
<1>7. ASSUME NEW e \in Lockable, Lock(e) \/ Unlock(e) \/ \E value \in BOOLEAN : SetLocked(e, value)
      PROVE  UNCHANGED places
  BY <1>7 DEF Lock, Unlock, SetLocked
<1>8. ASSUME NEW s \in Session, SetDefaultSession(s)
      PROVE  UNCHANGED places
  BY <1>8 DEF SetDefaultSession
<1>9. CASE UNCHANGED vars
  BY <1>1, <1>9 DEF vars
<1> QED
  BY <1>1, <1>2, <1>3, <1>4, <1>5, <1>6, <1>7, <1>8, <1>9 DEF Next

(* The rest of the types: the stack, the settings and the open graphs.     *)
StackTyped    == stack \in Seq(Env) /\ Len(stack) \in 1..MaxDepth
SettingsTyped == /\ opensIn \in [Container -> Env \cup {None}]
                 /\ locks \in [Env -> 0..MaxLocks] /\ userLock \in [Env -> BOOLEAN]

LEMMA StackKept ==
    ASSUME TypeOK, [Next]_vars
    PROVE  StackTyped'
<1>1. stack \in Seq(Env) /\ Len(stack) \in 1..MaxDepth /\ MaxDepth \in Nat \ {0}
  BY EnvironmentAssumption DEF TypeOK
<1>2. ASSUME NEW e \in Env, Enter(e)
      PROVE  StackTyped'
  <2>1. stack' = Append(stack, e) /\ Len(stack) < MaxDepth
    BY <1>2 DEF Enter
  <2>2. stack' \in Seq(Env) /\ Len(stack') = Len(stack) + 1
    BY <1>1, <2>1, AppendProperties
  <2> QED
    BY <1>1, <2>1, <2>2 DEF StackTyped
<1>3. ASSUME NEW e \in Env, Exit(e)
      PROVE  StackTyped'
  <2>1. stack' = SubSeq(stack, 1, Len(stack) - 1) /\ Len(stack) > 1
    BY <1>3 DEF Exit
  <2>2. \A i \in 1..Len(stack) - 1 : stack[i] \in Env
    BY <1>1
  <2>3. stack' \in Seq(Env) /\ Len(stack') = Len(stack) - 1
    BY <1>1, <2>1, <2>2, SubSeqProperties
  <2> QED
    BY <1>1, <2>1, <2>3 DEF StackTyped
<1>4. ASSUME NEW s \in Session, SetDefaultSession(s)
      PROVE  StackTyped'
  BY <1>1, <1>4 DEF SetDefaultSession, StackTyped, Env
<1>5. ASSUME UNCHANGED stack
      PROVE  StackTyped'
  BY <1>1, <1>5 DEF StackTyped
<1>6. \A c \in Container, e \in Env : Open(c, e) => UNCHANGED stack
  BY DEF Open
<1>7. \A e \in Env : Close(e) => UNCHANGED stack
  BY DEF Close
<1>8. \A c \in Container, e \in Places : SetOpensIn(c, e) => UNCHANGED stack
  BY DEF SetOpensIn
<1>9. \A e \in Lockable : Lock(e) \/ Unlock(e) \/ (\E value \in BOOLEAN : SetLocked(e, value))
          => UNCHANGED stack
  BY DEF Lock, Unlock, SetLocked
<1>10. UNCHANGED vars => UNCHANGED stack
  BY DEF vars
<1> QED
  BY <1>2, <1>3, <1>4, <1>5, <1>6, <1>7, <1>8, <1>9, <1>10 DEF Next

LEMMA SettingsKept ==
    ASSUME TypeOK, [Next]_vars
    PROVE  SettingsTyped'
<1>1. SettingsTyped /\ MaxLocks \in Nat
  BY EnvironmentAssumption DEF TypeOK, SettingsTyped
<1>2. ASSUME NEW c \in Container, NEW e \in Places, SetOpensIn(c, e)
      PROVE  SettingsTyped'
  BY <1>1, <1>2, EnvironmentAssumption DEF SetOpensIn, SettingsTyped
<1>3. ASSUME NEW e \in Lockable, Lock(e)
      PROVE  SettingsTyped'
  <2>1. e \in Env /\ locks[e] \in 0..MaxLocks /\ locks[e] < MaxLocks
    BY <1>1, <1>3, EnvironmentAssumption DEF Lock, SettingsTyped
  <2>2. locks[e] + 1 \in 0..MaxLocks
    BY <1>1, <2>1
  <2>3. locks' = [locks EXCEPT ![e] = locks[e] + 1] /\ UNCHANGED <<opensIn, userLock>>
    BY <1>3 DEF Lock
  <2> QED
    BY <1>1, <2>2, <2>3 DEF SettingsTyped
<1>4. ASSUME NEW e \in Lockable, Unlock(e)
      PROVE  SettingsTyped'
  <2> DEFINE n == IF locks[e] > 0 THEN locks[e] - 1 ELSE 0
  <2>1. e \in Env /\ locks[e] \in 0..MaxLocks
    BY <1>1, EnvironmentAssumption DEF SettingsTyped
  <2>2. n \in 0..MaxLocks
    BY <1>1, <2>1
  <2>3. locks' = [locks EXCEPT ![e] = n] /\ UNCHANGED <<opensIn, userLock>>
    BY <1>4 DEF Unlock
  <2> HIDE DEF n
  <2> QED
    BY <1>1, <2>2, <2>3 DEF SettingsTyped
<1>5. ASSUME NEW e \in Lockable, NEW value \in BOOLEAN, SetLocked(e, value)
      PROVE  SettingsTyped'
  BY <1>1, <1>5, EnvironmentAssumption DEF SetLocked, SettingsTyped
<1>6. ASSUME UNCHANGED settings
      PROVE  SettingsTyped'
  BY <1>1, <1>6 DEF settings, SettingsTyped
<1>7. \A c \in Container, e \in Env : Open(c, e) => UNCHANGED settings
  BY DEF Open
<1>8. \A e \in Env : Enter(e) \/ Exit(e) \/ Close(e) => UNCHANGED settings
  BY DEF Enter, Exit, Close
<1>9. \A s \in Session : SetDefaultSession(s) => UNCHANGED settings
  BY DEF SetDefaultSession
<1>10. UNCHANGED vars => UNCHANGED settings
  BY DEF vars
<1> QED
  BY <1>2, <1>3, <1>4, <1>5, <1>6, <1>7, <1>8, <1>9, <1>10 DEF Next

LEMMA GraphsKept ==
    ASSUME TypeOK, [Next]_vars
    PROVE  graphOpen' \subseteq Session
<1>1. graphOpen \subseteq Session
  BY DEF TypeOK
<1>2. \A x, via \in Env : CloseLeaf(x, via) => graphOpen' \subseteq graphOpen
  BY DEF CloseLeaf
<1>3. \A e \in Env : Exit(e) => graphOpen' \subseteq graphOpen
  BY <1>2, ExitStep
<1>4. \A e \in Env : Close(e) => graphOpen' \subseteq graphOpen
  BY <1>2, CloseStep
<1> QED
  BY <1>1, <1>3, <1>4 DEF Next, vars, Open, Enter, SetOpensIn, Lock, Unlock, SetLocked,
                          SetDefaultSession

LEMMA InvKept == Inv /\ [Next]_vars => Inv'
<1> SUFFICES ASSUME Inv, [Next]_vars
             PROVE  Inv'
  OBVIOUS
<1>1. PlacesInv'
  BY PlacesKept
<1>2. StackTyped' /\ SettingsTyped' /\ graphOpen' \subseteq Session
  BY StackKept, SettingsKept, GraphsKept DEF Inv
<1>3. TypeOK'
  BY <1>1, <1>2 DEF PlacesInv, PlacesTyped, StackTyped, SettingsTyped, TypeOK
<1> QED
  BY <1>1, <1>3 DEF Inv

LEMMA Invariance == Spec => []Inv
BY Initially, InvKept, PTL DEF Spec

(* Both directions of "opened in" agree, whatever is opened, entered,      *)
(* replaced and closed (ContainerEnvironment.open, close).                 *)
THEOREM SubscriptionsAgree == Spec => []SubscribersConsistent
<1>1. Inv => SubscribersConsistent
  BY DEF Inv, PlacesInv, SubscribersConsistent
<1> QED
  BY <1>1, Invariance, PTL

(* A container opened once fetches from the session of the container that  *)
(* it is open in (ContainerEnvironment.open).                              *)
THEOREM ContainersShareTheSession == Spec => []LinkFollowsParent
<1>1. Inv => LinkFollowsParent
  BY DEF Inv, PlacesInv
<1> QED
  BY <1>1, Invariance, PTL

(* Nothing is subscribed to an environment that is closed, so that no      *)
(* container can be linked to a session whose graph closes: by Anchored,   *)
(* one of its containers would be subscribed to it (Session.close).        *)
LEMMA NothingLinked ==
    ASSUME Inv, NEW s \in Session, subscribers[s] = {}, NEW c \in Container
    PROVE  linked[c] # s
<1> DEFINE C == {x \in Container : linked[x] = s}
<1> SUFFICES ASSUME C # {}
             PROVE  FALSE
  OBVIOUS
<1>1. PICK x \in C, y \in Env \ C : x \in subscribers[y] /\ SessionOf(y) = s
  <2>1. C \in SUBSET {x \in Container : linked[x] = s}
    OBVIOUS
  <2> HIDE DEF C
  <2> QED
    BY <2>1 DEF Inv, PlacesInv, Anchored
<1>2. y = s
  BY <1>1 DEF SessionOf, Env
<1> QED
  BY <1>1, <1>2

LEMMA ClosedGraphs ==
    ASSUME Inv, NEW e \in Env, NEW via \in Env, subscribers[e] = {}, CloseLeaf(e, via),
           NEW s \in graphOpen \ graphOpen', NEW c \in Container
    PROVE  linked'[c] # s
<1>1. s = e /\ s \in Session
  BY DEF CloseLeaf, Inv, TypeOK
<1>2. linked[c] # s
  BY <1>1, NothingLinked
<1>3. linked'[c] \in {linked[c], None}
  BY DEF CloseLeaf
<1> QED
  BY <1>1, <1>2, <1>3, EnvironmentAssumption DEF Env

(* The graph of a session is not closed while a container fetches from it  *)
(* (Session.close).                                                        *)
THEOREM NoContainerLosesItsGraph == Spec => NoneLinkedToClosed
<1>1. ASSUME Inv, [Next]_vars
      PROVE  \A s \in graphOpen \ graphOpen' : \A c \in Container : linked'[c] # s
  <2>1. CASE UNCHANGED graphOpen
    BY <2>1
  <2>2. CASE \E x, via \in Env : subscribers[x] = {} /\ CloseLeaf(x, via)
    BY <1>1, <2>2, ClosedGraphs
  <2>3. \A e \in Env : Exit(e) => \/ UNCHANGED graphOpen
                                  \/ subscribers[e] = {} /\ CloseLeaf(e, e)
    BY <1>1, ExitStep DEF Inv
  <2>4. \A e \in Env : Close(e) => \E x, via \in Env : subscribers[x] = {} /\ CloseLeaf(x, via)
    BY <1>1, CloseStep DEF Inv
  <2> QED
    BY <1>1, <2>1, <2>2, <2>3, <2>4
    DEF Next, vars, Open, Enter, SetOpensIn, Lock, Unlock, SetLocked, SetDefaultSession
<1> QED
  BY <1>1, Invariance, PTL DEF Spec, NoneLinkedToClosed

-----------------------------------------------------------------------------
(* In a close without anything that could stop it, if every environment    *)
(* still had subscribers, each would have exactly one, since nobody is     *)
(* subscribed twice: a cycle without a session, which Anchored excludes.   *)
LEMMA LeafExists ==
    ASSUME Inv, NEW e \in registered \ OnStack,
           \A c \in ClosedWith(e) \ Session : IsOpen(c) /\ c \notin reopened,
           \A x \in ClosedWith(e) : subscribers[x] \cap OnStack = {}
    PROVE  \E x \in ClosedWith(e) : subscribers[x] = {} /\ x \in registered
<1> DEFINE W == ClosedWith(e)
<1>1. /\ e \in Env /\ e \in W /\ W \subseteq Container \cup {e} /\ W \subseteq Env
      /\ \A x \in W : subscribers[x] \subseteq W \cap Container
  BY ClosedWithIsClosed DEF Inv, TypeOK, Env
<1>2. \A x \in W : x \in registered
  <2>1. \A x \in W \ Session : x \in Container /\ x \in registered
    BY <1>1 DEF Inv, PlacesInv, OpenMeansSubscribed, Env
  <2> QED
    BY <1>1, <2>1, EnvironmentAssumption
<1> SUFFICES ASSUME \A x \in W : subscribers[x] # {}
             PROVE  FALSE
  BY <1>2
<1>3. \A x \in W : \A y \in subscribers[x] :
          y \in W /\ y \in Container /\ IsOpen(y) /\ y \notin reopened /\ EnvironmentOf(y) = x
  BY <1>1, EnvironmentAssumption DEF Inv, PlacesInv, StaleOnlyIfReopened
<1> HIDE DEF W
<1>4. IsFiniteSet(W)
  <2>1. IsFiniteSet(Container \cup {e})
    BY EnvironmentAssumption, FS_AddElement
  <2> QED
    BY <1>1, <2>1, FS_Subset
<1> DEFINE one == [x \in W |-> CHOOSE y \in subscribers[x] : TRUE]
<1>5. \A x \in W : one[x] \in subscribers[x]
  OBVIOUS
<1> HIDE DEF one
<1>6. one \in Injection(W, W)
  <2>1. one \in [W -> W]
    BY <1>3, <1>5 DEF one
  <2>2. \A x, y \in W : one[x] = one[y] => x = y
    BY <1>3, <1>5
  <2> QED
    BY <2>1, <2>2 DEF Injection, IsInjective
<1>7. one \in Surjection(W, W)
  BY <1>4, <1>6, FS_Injection
<1>8. \A y \in W : y \in Container /\ IsOpen(y) /\ y \notin reopened /\ EnvironmentOf(y) \in W
  BY <1>3, <1>5, <1>7 DEF Surjection
<1> DEFINE s == linked[e]
           C == {x \in W : linked[x] = s}
<1>9. s \in Session /\ C # {} /\ C \in SUBSET {x \in Container : linked[x] = s}
  BY <1>1, <1>8 DEF IsOpen, Inv, TypeOK
<1>10. PICK c \in C, y \in Env \ C : c \in subscribers[y] /\ SessionOf(y) = s
  <2> HIDE DEF C, s
  <2> QED
    BY <1>9 DEF Inv, PlacesInv, Anchored
<1>11. EnvironmentOf(c) = y
  BY <1>8, <1>10 DEF Inv, PlacesInv, StaleOnlyIfReopened
<1>12. y \in W /\ y \in Container
  BY <1>8, <1>10, <1>11
<1> QED
  BY <1>10, <1>12, EnvironmentAssumption DEF SessionOf

(* A close that raises makes progress all the same, where no dependent was *)
(* opened twice, is in use or has no session (Environment.close).          *)
THEOREM ClosingGetsSomewhere == Spec => []CloseProgresses
<1>1. Inv => CloseProgresses
  BY LeafExists DEF CloseProgresses
<1> QED
  BY <1>1, Invariance, PTL
================================================================================
