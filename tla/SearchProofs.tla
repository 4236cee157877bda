----------------------------- MODULE SearchProofs -----------------------------
(***************************************************************************)
(* What the search finds is exact, for every graph and every number of     *)
(* individuals.                                                            *)
(*                                                                         *)
(* Soundness is about every set that is closed under the connections:      *)
(* whatever the search holds (found, visited, still to be yielded or       *)
(* searched) is in it.  Completeness rests on two facts that hold at all   *)
(* times, in spite of the individuals that are passed over: the children   *)
(* of a visited individual are visited or waiting in some call, and what   *)
(* is visited or waiting and satisfies the criterion is found or about to  *)
(* be.  When no call is left, the visited individuals are a closed set.    *)
(*                                                                         *)
(* How often an individual is found is about connections: each call on the *)
(* stack belongs to one individual, no two to the same, and whatever was   *)
(* yielded used up a connection of the individual whose call yielded it.   *)
(* A second call for an individual does not find what the first has shown, *)
(* because that is visited before the first call ends.                     *)
(***************************************************************************)
EXTENDS Search, TLAPS, FiniteSetTheorems, WellFoundedInduction

Frame == [show : SUBSET Individual, next : SUBSET Individual, depth : Nat]

Waiting == UNION {f.next : f \in Range(stack)}
Shown == UNION {f.show : f \in Range(stack)}
Undisturbed == edits = 0 /\ search.max = Unlimited /\ ~raised

Typed ==
    /\ edges \in SUBSET (Individual \X Individual) /\ ever \in SUBSET (Individual \X Individual)
    /\ edges \subseteq ever
    /\ search \in [root : Individual, criterion : SUBSET Individual, max : Nat \cup {Unlimited}]
    /\ stack \in Seq(Frame)
    /\ visited \in SUBSET Individual /\ found \in Seq(Individual) /\ edits \in Nat

Held == Range(found) \cup visited \cup Waiting \cup Shown

Sound ==
    /\ Range(found) \cup Shown \subseteq search.criterion
    /\ \A S \in SUBSET Individual : Closed(S, ever) => Held \subseteq S

Begun ==
    /\ visited = {} => stack = <<>>
    /\ raised => visited # {} /\ stack = <<>>
    /\ visited # {} => search.root \in visited
    /\ (found # <<>> \/ visited # {}) /\ search.root \in search.criterion
           => search.root \in Range(found)

Complete ==
    Undisturbed =>
        /\ \A v \in visited : Children(v) \subseteq visited \cup Waiting
        /\ (visited \cup Waiting) \cap search.criterion \subseteq Range(found) \cup Shown

IInv == Typed /\ Sound /\ Begun /\ Complete

-----------------------------------------------------------------------------
(* What putting one element before or after a sequence and taking one      *)
(* away do to the elements it has.                                         *)
LEMMA RangeCons ==
    ASSUME NEW S, NEW s \in Seq(S), NEW x \in S
    PROVE  <<x>> \o s \in Seq(S) /\ Range(<<x>> \o s) = {x} \cup Range(s)
<1> DEFINE t == <<x>> \o s
<1>1. t \in Seq(S) /\ Len(t) = 1 + Len(s)
  OBVIOUS
<1>2. t[1] = x /\ \A k \in 1..Len(s) : t[k + 1] = s[k]
  OBVIOUS
<1>3. \A k \in 2..Len(t) : k - 1 \in 1..Len(s) /\ t[k] = s[k - 1]
  BY <1>1, <1>2
<1>4. DOMAIN t = 1..Len(t) /\ DOMAIN s = 1..Len(s) /\ Len(s) \in Nat
  BY <1>1
<1>5. Range(t) \subseteq {x} \cup Range(s)
  <2>1. ASSUME NEW k \in 1..Len(t) PROVE t[k] \in {x} \cup Range(s)
    <3>1. CASE k = 1
      BY <3>1, <1>2
    <3>2. CASE k # 1
      <4>1. k \in 2..Len(t)
        BY <3>2
      <4>2. k - 1 \in DOMAIN s /\ t[k] = s[k - 1]
        BY <4>1, <1>3, <1>4
      <4> QED BY <4>2 DEF Range
    <3> QED BY <3>1, <3>2
  <2> QED BY <2>1, <1>4 DEF Range
<1>6. {x} \cup Range(s) \subseteq Range(t)
  <2>1. x \in Range(t)
    BY <1>1, <1>2, <1>4 DEF Range
  <2>2. ASSUME NEW k \in DOMAIN s PROVE s[k] \in Range(t)
    <3>1. k + 1 \in DOMAIN t /\ t[k + 1] = s[k]
      BY <1>1, <1>2, <1>4
    <3> QED BY <3>1 DEF Range
  <2> QED BY <2>1, <2>2 DEF Range
<1> QED BY <1>1, <1>5, <1>6

LEMMA RangeHeadTail ==
    ASSUME NEW S, NEW s \in Seq(S), s # <<>>
    PROVE  /\ Head(s) \in S /\ Tail(s) \in Seq(S)
           /\ Range(s) = {Head(s)} \cup Range(Tail(s))
<1>1. Head(s) \in S /\ Tail(s) \in Seq(S)
  OBVIOUS
<1>2. s = <<Head(s)>> \o Tail(s)
  OBVIOUS
<1> QED BY <1>1, <1>2, RangeCons

LEMMA RangeAppend ==
    ASSUME NEW S, NEW s \in Seq(S), NEW x \in S
    PROVE  Append(s, x) \in Seq(S) /\ Range(Append(s, x)) = Range(s) \cup {x}
<1> DEFINE t == Append(s, x)
<1>1. t \in Seq(S) /\ Len(t) = Len(s) + 1 /\ Len(s) \in Nat
  OBVIOUS
<1>2. t[Len(s) + 1] = x /\ \A k \in 1..Len(s) : t[k] = s[k]
  OBVIOUS
<1>3. DOMAIN t = 1..(Len(s) + 1) /\ DOMAIN s = 1..Len(s)
  BY <1>1
<1>4. \A k \in DOMAIN t : k = Len(s) + 1 \/ k \in DOMAIN s
  BY <1>1, <1>3
<1> QED BY <1>1, <1>2, <1>3, <1>4 DEF Range

(* A call holds nothing but children, and everything that is no child      *)
(* visited before, if the depth has no limit.                              *)
LEMMA CallHolds ==
    ASSUME Typed, NEW i \in Individual, NEW depth \in Nat
    PROVE  /\ Call(i, depth) \in Frame
           /\ Call(i, depth).next \subseteq Children(i)
           /\ Call(i, depth).show = Call(i, depth).next \cap search.criterion
           /\ search.max = Unlimited =>
                 Children(i) \subseteq Call(i, depth).next \cup visited \cup {i}
<1>1. Children(i) \subseteq Individual
  BY DEF Typed, Children
<1> QED BY <1>1 DEF Typed, Call, Deeper, Frame

(* The same without the stack's order: what is on top and what is below.   *)
LEMMA StackParts ==
    ASSUME Typed, stack # <<>>
    PROVE  /\ Top \in Frame /\ Tail(stack) \in Seq(Frame)
           /\ Range(stack) = {Top} \cup Range(Tail(stack))
BY RangeHeadTail DEF Typed, Top

-----------------------------------------------------------------------------
LEMMA InitEstablishes == Init => IInv
<1> SUFFICES ASSUME Init PROVE IInv
  OBVIOUS
<1>1. Typed
  <2>1. search \in [root : Individual, criterion : SUBSET Individual, max : Nat \cup {Unlimited}]
    BY SearchAssumption DEF Init
  <2>2. edges \in SUBSET (Individual \X Individual)
    BY SearchAssumption DEF Init
  <2> QED BY <2>1, <2>2 DEF Init, Typed
<1>2. Range(stack) = {} /\ Range(found) = {}
  BY DEF Init, Range
<1>3. Sound
  BY <1>2 DEF Sound, Held, Waiting, Shown, Init
<1>4. Begun
  BY DEF Begun, Init
<1>5. Complete
  BY <1>2 DEF Complete, Waiting, Shown, Init
<1> QED BY <1>1, <1>3, <1>4, <1>5 DEF IInv

-----------------------------------------------------------------------------
(* Each step keeps the invariant.                                          *)
LEMMA NextKeeps == IInv /\ [Next]_vars => IInv'
<1> SUFFICES ASSUME IInv, [Next]_vars PROVE IInv'
  OBVIOUS
<1> USE DEF IInv
<1>1. FindRoot => IInv'
  <2> SUFFICES ASSUME FindRoot PROVE IInv'
    OBVIOUS
  <2>0. search.root \in Individual
    BY DEF Typed
  <2>1. Typed'
    BY <2>0 DEF FindRoot, Typed
  <2>2. Range(found') = Range(found) \cup {search.root}
    BY <2>0, RangeAppend DEF FindRoot, Typed, Range
  <2>3. Sound'
    BY <2>0, <2>2 DEF Sound, FindRoot, Held, Waiting, Shown, Closed
  <2>4. Begun'
    BY <2>2 DEF Begun, FindRoot
  <2>5. Complete'
    BY <2>2 DEF Complete, Undisturbed, FindRoot, Waiting, Shown, Children
  <2> QED BY <2>1, <2>3, <2>4, <2>5
<1>2. Start => IInv'
  <2> SUFFICES ASSUME Start PROVE IInv'
    OBVIOUS
  <2> DEFINE c == Call(search.root, 0)
  <2>0. search.root \in Individual /\ stack = <<>> /\ visited = {}
    BY DEF Typed, Start, Ready, Started
  <2>1. /\ c \in Frame /\ c.next \subseteq Children(search.root)
        /\ c.show = c.next \cap search.criterion
        /\ search.max = Unlimited => Children(search.root) \subseteq c.next \cup visited \cup {search.root}
    BY <2>0, CallHolds
  <2>2. stack' = <<c>> /\ Range(stack') = {c} /\ UNCHANGED <<edges, search, found, edits, ever, raised>>
        /\ visited' = {search.root}
    BY DEF Start, Range
  <2> HIDE DEF c
  <2>3. Typed'
    BY <2>0, <2>1, <2>2 DEF Typed
  <2>4. Waiting' = c.next /\ Shown' = c.show
    BY <2>2 DEF Waiting, Shown
  <2>5. Sound'
    <3>1. (Range(found) \cup Shown)' \subseteq search'.criterion
      BY <2>1, <2>2, <2>4 DEF Sound
    <3>2. ASSUME NEW S \in SUBSET Individual, Closed(S, ever)' PROVE Held' \subseteq S
      <4>1. Closed(S, ever) /\ Held \subseteq S
        BY <3>2, <2>2 DEF Closed, Sound
      <4>2. Children(search.root) \subseteq S
        BY <4>1 DEF Closed, Children, Typed
      <4> QED BY <4>1, <4>2, <2>1, <2>2, <2>4 DEF Held, Closed
    <3> QED BY <3>1, <3>2 DEF Sound
  <2>6. Begun'
    <3>1. search.root \in search.criterion => search.root \in Range(found)
      BY DEF Start, Ready, Begun
    <3> QED BY <3>1, <2>0, <2>2 DEF Begun
  <2>7. Complete'
    <3> SUFFICES ASSUME Undisturbed' PROVE
          /\ Children(search.root)' \subseteq visited' \cup Waiting'
          /\ ((visited \cup Waiting) \cap search.criterion)' \subseteq (Range(found) \cup Shown)'
      BY <2>2 DEF Complete
    <3>1. Children(search.root)' = Children(search.root)
      BY <2>2 DEF Children
    <3>2. search.root \in search.criterion => search.root \in Range(found)
      BY DEF Start, Ready, Begun
    <3> QED BY <2>0, <2>1, <2>2, <2>4, <3>1, <3>2 DEF Undisturbed
  <2> QED BY <2>3, <2>5, <2>6, <2>7
<1>3. Yield => IInv'
  <2> SUFFICES ASSUME Yield PROVE IInv'
    OBVIOUS
  <2>1. PICK i \in Top.show : found' = Append(found, i)
                              /\ stack' = Within([Top EXCEPT !.show = @ \ {i}])
    BY DEF Yield
  <2> DEFINE f == [Top EXCEPT !.show = @ \ {i}]
  <2>2. /\ stack # <<>> /\ UNCHANGED <<edges, search, visited, edits, ever, raised>>
        /\ Top \in Frame /\ Tail(stack) \in Seq(Frame) /\ Range(stack) = {Top} \cup Range(Tail(stack))
    BY StackParts DEF Yield
  <2>3. f \in Frame /\ f.next = Top.next /\ f.show = Top.show \ {i} /\ i \in Individual
    BY <2>2 DEF Frame
  <2> HIDE DEF f
  <2>4. stack' \in Seq(Frame) /\ Range(stack') = {f} \cup Range(Tail(stack))
    BY <2>1, <2>2, <2>3, RangeCons DEF Within, f
  <2>5. found' \in Seq(Individual) /\ Range(found') = Range(found) \cup {i}
    BY <2>1, <2>3, RangeAppend DEF Typed
  <2>6. Waiting' = Waiting /\ Shown = Shown' \cup {i} /\ Shown' \subseteq Shown
    BY <2>1, <2>2, <2>3, <2>4 DEF Waiting, Shown
  <2>7. Typed'
    BY <2>2, <2>4, <2>5 DEF Typed
  <2>8. Sound'
    BY <2>2, <2>5, <2>6 DEF Sound, Held, Closed
  <2>9. Begun'
    BY <2>2, <2>5 DEF Begun
  <2>10. Complete'
    BY <2>2, <2>5, <2>6 DEF Complete, Undisturbed, Children
  <2> QED BY <2>7, <2>8, <2>9, <2>10
<1>4. Descend => IInv'
  <2> SUFFICES ASSUME Descend PROVE IInv'
    OBVIOUS
  <2>1. PICK i \in Top.next :
             /\ stack' = <<Call(i, Top.depth + 1)>> \o Within([Top EXCEPT !.next = @ \ {i}])
             /\ visited' = visited \cup {i}
    BY DEF Descend
  <2> DEFINE f == [Top EXCEPT !.next = @ \ {i}]
             c == Call(i, Top.depth + 1)
  <2>2. /\ stack # <<>> /\ Top.show = {} /\ UNCHANGED <<edges, search, found, edits, ever, raised>>
        /\ Top \in Frame /\ Tail(stack) \in Seq(Frame) /\ Range(stack) = {Top} \cup Range(Tail(stack))
    BY StackParts DEF Descend
  <2>3. /\ f \in Frame /\ f.next = Top.next \ {i} /\ f.show = {}
        /\ i \in Individual /\ Top.depth + 1 \in Nat
    BY <2>2 DEF Frame
  <2>4. /\ c \in Frame /\ c.next \subseteq Children(i)
        /\ c.show = c.next \cap search.criterion
        /\ search.max = Unlimited => Children(i) \subseteq c.next \cup visited \cup {i}
    BY <2>3, CallHolds
  <2> HIDE DEF f, c
  <2>5. stack' \in Seq(Frame) /\ Range(stack') = {c, f} \cup Range(Tail(stack))
    <3>1. <<f>> \o Tail(stack) \in Seq(Frame) /\ Range(<<f>> \o Tail(stack)) = {f} \cup Range(Tail(stack))
      BY <2>2, <2>3, RangeCons
    <3>2. stack' = <<c>> \o (<<f>> \o Tail(stack))
      BY <2>1 DEF Within, c, f
    <3> DEFINE t == <<f>> \o Tail(stack)
    <3>3. t \in Seq(Frame) /\ Range(t) = {f} \cup Range(Tail(stack)) /\ stack' = <<c>> \o t
      BY <3>1, <3>2
    <3> HIDE DEF t
    <3>4. <<c>> \o t \in Seq(Frame) /\ Range(<<c>> \o t) = {c} \cup Range(t)
      BY <3>3, <2>4, RangeCons
    <3> QED BY <3>3, <3>4
  <2>6. i \in Waiting /\ Waiting \cup c.next = Waiting' \cup {i} \cup c.next /\ c.next \subseteq Waiting'
    BY <2>1, <2>2, <2>3, <2>5 DEF Waiting
  <2>7. Shown' = Shown \cup c.show
    BY <2>2, <2>3, <2>5 DEF Shown
  <2>8. Typed'
    BY <2>1, <2>2, <2>3, <2>5 DEF Typed
  <2>9. Sound'
    <3>1. (Range(found) \cup Shown)' \subseteq search'.criterion
      BY <2>2, <2>4, <2>7 DEF Sound
    <3>2. ASSUME NEW S \in SUBSET Individual, Closed(S, ever)' PROVE Held' \subseteq S
      <4>1. Closed(S, ever) /\ Held \subseteq S
        BY <3>2, <2>2 DEF Closed, Sound
      <4>2. Children(i) \subseteq S
        BY <4>1, <2>6 DEF Closed, Children, Typed, Held
      <4>3. Waiting' \subseteq S /\ Shown' \subseteq S
        BY <4>1, <4>2, <2>4, <2>6, <2>7 DEF Held
      <4> QED BY <4>1, <4>3, <2>1, <2>2, <2>6 DEF Held
    <3> QED BY <3>1, <3>2 DEF Sound
  <2>10. Begun'
    BY <2>1, <2>2 DEF Begun
  <2>11. Complete'
    <3> SUFFICES ASSUME Undisturbed' PROVE
          /\ \A v \in visited' : Children(v)' \subseteq visited' \cup Waiting'
          /\ ((visited \cup Waiting) \cap search.criterion)' \subseteq (Range(found) \cup Shown)'
      BY DEF Complete
    <3>1. Undisturbed /\ \A v : Children(v)' = Children(v)
      BY <2>2 DEF Undisturbed, Children
    <3>2. visited \cup Waiting \subseteq visited' \cup Waiting'
      BY <2>1, <2>6
    <3>3. ASSUME NEW v \in visited' PROVE Children(v)' \subseteq visited' \cup Waiting'
      <4>1. CASE v = i
        BY <4>1, <3>1, <3>2, <2>1, <2>4, <2>6 DEF Undisturbed
      <4>2. CASE v \in visited
        BY <4>2, <3>1, <3>2 DEF Complete
      <4> QED BY <4>1, <4>2, <2>1
    <3>4. visited' \cup Waiting' \subseteq visited \cup Waiting \cup c.next
      BY <2>1, <2>6
    <3> QED BY <3>1, <3>3, <3>4, <2>2, <2>4, <2>7 DEF Complete
  <2> QED BY <2>8, <2>9, <2>10, <2>11
<1>5. Return => IInv'
  <2> SUFFICES ASSUME Return PROVE IInv'
    OBVIOUS
  <2>1. /\ stack # <<>> /\ Top.show = {} /\ Top.next = {} /\ stack' = Tail(stack)
        /\ UNCHANGED <<edges, search, visited, found, edits, ever, raised>>
        /\ Tail(stack) \in Seq(Frame) /\ Range(stack) = {Top} \cup Range(Tail(stack))
    BY StackParts DEF Return
  <2>2. Waiting' = Waiting /\ Shown' = Shown
    BY <2>1 DEF Waiting, Shown
  <2>3. Typed'
    BY <2>1 DEF Typed
  <2>4. Sound'
    BY <2>1, <2>2 DEF Sound, Held, Closed
  <2>5. Begun'
    BY <2>1 DEF Begun
  <2>6. Complete'
    BY <2>1, <2>2 DEF Complete, Undisturbed, Children
  <2> QED BY <2>3, <2>4, <2>5, <2>6
<1>6. Edit => IInv'
  <2> SUFFICES ASSUME Edit PROVE IInv'
    OBVIOUS
  <2>1. /\ UNCHANGED <<search, stack, visited, found, raised>>
        /\ ever' = ever \cup edges' /\ edits' = edits + 1
        /\ edges' \in SUBSET (Individual \X Individual)
    BY DEF Edit, Toggle, Typed
  <2>2. Typed'
    BY <2>1 DEF Typed
  <2>3. Sound'
    BY <2>1 DEF Sound, Held, Waiting, Shown, Closed
  <2>4. Begun'
    BY <2>1 DEF Begun
  <2>5. Complete'
    BY <2>1 DEF Complete, Undisturbed, Typed
  <2> QED BY <2>2, <2>3, <2>4, <2>5
<1>7. Fail => IInv'
  <2> SUFFICES ASSUME Fail PROVE IInv'
    OBVIOUS
  <2>1. /\ UNCHANGED <<edges, search, found, edits, ever>>
        /\ stack' = <<>>
    BY DEF Fail
  <2>2. PICK i \in {search.root} \cup Waiting :
             /\ i \in Individual
             /\ visited' = visited \cup {i}
             /\ search.root \in visited'
             /\ search.root \in search.criterion => search.root \in Range(found)
    <3>1. CASE Ready /\ visited' = {search.root}
      <4>1. search.root \in Individual /\ visited = {}
        BY <3>1 DEF Ready, Started, Typed
      <4>2. search.root \in search.criterion => search.root \in Range(found)
        BY <3>1 DEF Ready, Begun
      <4> QED BY <3>1, <4>1, <4>2
    <3>2. ASSUME stack # <<>>, NEW i \in Top.next, visited' = visited \cup {i}
          PROVE  /\ i \in Individual /\ i \in Waiting /\ search.root \in visited'
                 /\ search.root \in search.criterion => search.root \in Range(found)
      <4>1. Top \in Frame /\ Top \in Range(stack)
        BY <3>2, StackParts
      <4>2. i \in Individual /\ i \in Waiting
        BY <3>2, <4>1 DEF Frame, Waiting
      <4>3. visited # {}
        BY <3>2 DEF Begun
      <4> QED BY <3>2, <4>2, <4>3 DEF Begun
    <3>3. CASE stack # <<>> /\ \E i \in Top.next : visited' = visited \cup {i}
      BY <3>2, <3>3
    <3> QED BY <3>1, <3>3 DEF Fail
  <2>3. Waiting' = {} /\ Shown' = {}
    BY <2>1 DEF Waiting, Shown, Range
  <2>4. Typed'
    BY <2>1, <2>2 DEF Typed
  <2>5. Sound'
    BY <2>1, <2>2, <2>3 DEF Sound, Held, Closed
  <2>6. Begun'
    BY <2>1, <2>2 DEF Begun
  <2>7. Complete'
    BY DEF Complete, Undisturbed, Fail
  <2> QED BY <2>4, <2>5, <2>6, <2>7
<1>8. CASE UNCHANGED vars
  BY <1>8 DEF vars, Typed, Sound, Begun, Complete, Undisturbed, Held, Waiting, Shown,
              Closed, Children
<1> QED BY <1>1, <1>2, <1>3, <1>4, <1>5, <1>6, <1>7, <1>8 DEF Next, Step

-----------------------------------------------------------------------------
(* When no call is left, what is visited is closed under the connections,  *)
(* so that whatever cannot be done without is visited, and found if it is  *)
(* looked for.                                                             *)
LEMMA InvariantIsExact == IInv => SearchExact
<1> SUFFICES ASSUME IInv PROVE FindsConnected /\ FindsAll
  BY DEF SearchExact
<1>1. FindsConnected
  BY DEF IInv, Sound, FindsConnected, Held
<1>2. FindsAll
  <2> SUFFICES ASSUME Ended, ~raised, edits = 0, search.max = Unlimited,
                      NEW i \in search.criterion,
                      \A S \in SUBSET Individual : Closed(S, edges) => i \in S
               PROVE  i \in Range(found)
    BY DEF FindsAll
  <2>1. Waiting = {} /\ Shown = {}
    BY DEF Ended, Waiting, Shown, Range
  <2>2. visited \in SUBSET Individual /\ search.root \in visited
    BY DEF Ended, Started, IInv, Typed, Begun
  <2>3. \A v \in visited : Children(v) \subseteq visited
    BY <2>1 DEF IInv, Complete, Undisturbed
  <2>4. Closed(visited, edges)
    BY <2>2, <2>3 DEF Closed, Children
  <2>5. i \in visited
    BY <2>2, <2>4
  <2> QED BY <2>1, <2>5 DEF IInv, Complete, Undisturbed
<1> QED BY <1>1, <1>2

(* The search finds what is connected with its root and satisfies the      *)
(* criterion, all of it if nothing is changed on the way, and nothing      *)
(* else, whatever the graph (`find', `_iter').                             *)
THEOREM SearchIsExact == Spec => []SearchExact
BY InitEstablishes, NextKeeps, InvariantIsExact, PTL DEF Spec

-----------------------------------------------------------------------------
(* Induction over the natural numbers, for sets.                           *)
LEMMA LeastNumber ==
    ASSUME NEW T \in SUBSET Nat, T # {}
    PROVE  \E m \in T : \A k \in T : m <= k
<1> DEFINE R == OpToRel(<, Nat)
<1>1. PICK m \in T : \A k \in T : ~(<<k, m>> \in R)
  <2>1. IsWellFoundedOn(R, Nat)
    BY NatLessThanWellFounded
  <2> HIDE DEF R
  <2> QED BY <2>1, WFMin
<1>2. \A k, n \in Nat : k < n => <<k, n>> \in R
  BY DEF OpToRel
<1> HIDE DEF R
<1>3. ASSUME NEW k \in T PROVE m <= k
  <2>1. k \in Nat /\ m \in Nat
    OBVIOUS
  <2>2. ~(k < m)
    BY <1>1, <1>2, <2>1
  <2> QED BY <2>1, <2>2
<1> QED BY <1>3

(* What holds at zero and is kept by every step holds of 0..n.             *)
LEMMA FromZero ==
    ASSUME NEW n \in Nat, NEW P, 0 \in P, \A k \in 1..n : k - 1 \in P => k \in P
    PROVE  0..n \subseteq P
<1> DEFINE Bad == {k \in 0..n : k \notin P}
<1> SUFFICES ASSUME Bad # {} PROVE FALSE
  OBVIOUS
<1>1. PICK m \in Bad : \A k \in Bad : m <= k
  <2>1. Bad \in SUBSET Nat
    OBVIOUS
  <2> HIDE DEF Bad
  <2> QED BY <2>1, LeastNumber
<1>2. m \in 1..n /\ m - 1 \in 0..n /\ m - 1 \notin Bad
  BY <1>1
<1> QED BY <1>1, <1>2

(* The value at k comes from k and from the value at k - 1.                *)
Stepwise(g, n, x, F) == g = [k \in 0..n |-> IF k = 0 THEN x ELSE F[<<k, g[k - 1]>>]]

(* A recursive function on 0..n, whose values are made of the number and   *)
(* of the value before, is well defined.                                   *)
LEMMA StepByStep ==
    ASSUME NEW V, NEW x \in V, NEW n \in Nat, NEW F \in [Nat \X V -> V]
    PROVE  \E g \in [0..n -> V] : Stepwise(g, n, x, F)
<1> DEFINE Eq(m, g) == /\ g \in [0..m -> V]
                       /\ g = [k \in 0..m |-> IF k = 0 THEN x ELSE F[<<k, g[k - 1]>>]]
           P == {m \in Nat : \E g : Eq(m, g)}
<1>1. 0 \in P
  <2>1. Eq(0, [k \in 0..0 |-> x])
    OBVIOUS
  <2> QED BY <2>1
<1>2. ASSUME NEW m \in 1..n, m - 1 \in P PROVE m \in P
  <2>1. m \in Nat /\ m - 1 \in Nat /\ m # 0
    OBVIOUS
  <2>2. PICK g : Eq(m - 1, g)
    BY <1>2
  <2> DEFINE h == [k \in 0..m |-> IF k = m THEN F[<<m, g[m - 1]>>] ELSE g[k]]
             body == [k \in 0..m |-> IF k = 0 THEN x ELSE F[<<k, h[k - 1]>>]]
  <2>3. \A k \in 0..m - 1 : h[k] = g[k] /\ g[k] \in V
                           /\ g[k] = IF k = 0 THEN x ELSE F[<<k, g[k - 1]>>]
    BY <2>1, <2>2
  <2>4. ASSUME NEW k \in 0..m PROVE h[k] = body[k] /\ h[k] \in V
    <3>1. CASE k = m
      <4>1. h[k] = F[<<m, g[m - 1]>>] /\ body[k] = F[<<m, h[m - 1]>>] /\ m - 1 \in 0..m - 1
        BY <3>1, <2>1
      <4> QED BY <4>1, <2>1, <2>3
    <3>2. CASE k # m /\ k # 0
      <4>1. k \in 0..m - 1 /\ k - 1 \in 0..m - 1
        BY <3>2, <2>1
      <4> QED BY <4>1, <3>2, <2>3
    <3>3. CASE k # m /\ k = 0
      <4>1. k \in 0..m - 1
        BY <3>3, <2>1
      <4>2. h[k] = g[k] /\ g[k] = x
        BY <4>1, <3>3, <2>3
      <4> QED BY <4>2, <3>3
    <3> QED BY <3>1, <3>2, <3>3
  <2>5. Eq(m, h)
    BY <2>4
  <2> QED BY <2>1, <2>5
<1>3. n \in P
  <2> HIDE DEF P
  <2> QED BY <1>1, <1>2, FromZero
<1> QED BY <1>3 DEF Stepwise

-----------------------------------------------------------------------------
(* What at most n connections lead to, for numbers as OncePerConnection    *)
(* has them.                                                               *)
Follow(E, S) == S \cup {e[2] : e \in {x \in E : x[1] \in S}}
Size == Cardinality(Individual)
Ball(root, E) ==
    CHOOSE ball : ball = [n \in 0..Size |-> IF n = 0 THEN {root} ELSE Follow(E, ball[n - 1])]

(* They are well defined.                                                  *)
LEMMA BallSteps ==
    ASSUME NEW root \in Individual, NEW E \in SUBSET (Individual \X Individual)
    PROVE  /\ Size \in Nat
           /\ Ball(root, E)[0] = {root}
           /\ \A n \in 1..Size : Ball(root, E)[n] = Follow(E, Ball(root, E)[n - 1])
           /\ DOMAIN Ball(root, E) = 0..Size
<1> DEFINE Eq(f) == f = [n \in 0..Size |-> IF n = 0 THEN {root} ELSE Follow(E, f[n - 1])]
           V == SUBSET Individual
           F == [p \in Nat \X V |-> Follow(E, p[2])]
<1>1. Size \in Nat
  BY FS_CardinalityType, SearchAssumption DEF Size
<1>2. {root} \in V
  OBVIOUS
<1>3. F \in [Nat \X V -> V]
  BY DEF Follow
<1> HIDE DEF V
<1>4. \E f : Eq(f)
  <2>1. PICK f \in [0..Size -> V] : Stepwise(f, Size, {root}, F)
    <3> HIDE DEF F
    <3> QED BY <1>1, <1>2, <1>3, StepByStep
  <2>2. ASSUME NEW k \in 0..Size, k # 0 PROVE F[<<k, f[k - 1]>>] = Follow(E, f[k - 1])
    <3>1. k \in Nat /\ k - 1 \in 0..Size
      BY <1>1, <2>2
    <3>2. f[k - 1] \in V
      BY <2>1, <3>1
    <3> QED BY <3>1, <3>2
  <2> HIDE DEF F
  <2> QED BY <2>1, <2>2 DEF Stepwise
<1> DEFINE ball == CHOOSE f : Eq(f)
<1>5. Eq(ball)
  <2> HIDE DEF Eq
  <2> QED BY <1>4
<1>6. Ball(root, E) = ball
  BY DEF Ball
<1> HIDE DEF ball
<1>7. ball[0] = {root}
  BY <1>1, <1>5
<1>8. ASSUME NEW n \in 1..Size PROVE ball[n] = Follow(E, ball[n - 1])
  <2>1. n \in 0..Size /\ n # 0
    BY <1>1
  <2> QED BY <2>1, <1>5
<1>9. DOMAIN ball = 0..Size
  BY <1>5
<1> QED BY <1>1, <1>6, <1>7, <1>8, <1>9

(* More connections lead further.                                          *)
LEMMA BallGrows ==
    ASSUME NEW root \in Individual, NEW E \in SUBSET (Individual \X Individual),
           NEW D \in SUBSET E
    PROVE  \A n \in 0..Size : Ball(root, D)[n] \subseteq Ball(root, E)[n]
<1> DEFINE P == {n \in 0..Size : Ball(root, D)[n] \subseteq Ball(root, E)[n]}
<1>1. Size \in Nat /\ D \in SUBSET (Individual \X Individual)
  BY BallSteps
<1>2. 0 \in P
  BY <1>1, BallSteps
<1>3. ASSUME NEW n \in 1..Size, n - 1 \in P PROVE n \in P
  <2>1. /\ Ball(root, E)[n] = Follow(E, Ball(root, E)[n - 1])
        /\ Ball(root, D)[n] = Follow(D, Ball(root, D)[n - 1])
    BY <1>1, BallSteps
  <2>2. Ball(root, D)[n - 1] \subseteq Ball(root, E)[n - 1] /\ n \in 0..Size
    BY <1>1, <1>3
  <2> QED BY <2>1, <2>2 DEF Follow
<1>4. 0..Size \subseteq P
  <2> HIDE DEF P
  <2> QED BY <1>1, <1>2, <1>3, FromZero
<1> QED BY <1>4

(* So do more steps.                                                       *)
LEMMA BallWidens ==
    ASSUME NEW root \in Individual, NEW E \in SUBSET (Individual \X Individual),
           NEW m \in 0..Size
    PROVE  \A n \in 0..Size : m <= n => Ball(root, E)[m] \subseteq Ball(root, E)[n]
<1> DEFINE P == {n \in 0..Size : m <= n => Ball(root, E)[m] \subseteq Ball(root, E)[n]}
<1>1. Size \in Nat
  BY BallSteps
<1>2. 0 \in P
  BY <1>1
<1>3. ASSUME NEW n \in 1..Size, n - 1 \in P PROVE n \in P
  <2>1. Ball(root, E)[n] = Follow(E, Ball(root, E)[n - 1]) /\ n \in 0..Size
    BY <1>1, BallSteps
  <2>2. m = n \/ (m <= n => m <= n - 1)
    BY <1>1
  <2> QED BY <2>1, <2>2, <1>3 DEF Follow
<1>4. 0..Size \subseteq P
  <2> HIDE DEF P
  <2> QED BY <1>1, <1>2, <1>3, FromZero
<1> QED BY <1>4

Occurrences(s, i) == {k \in DOMAIN s : s[k] = i}
Into(E, i) == {e \in E : e[2] = i}

Calls == 1..Len(stack)

(* Each call belongs to an individual, whose connections it goes through;  *)
(* an individual was yielded over connections of its own, each of which    *)
(* leads to where the search has been or will be.                          *)
Attributed(own, used) ==
    /\ own \in [Calls -> Individual]
    /\ \A j, k \in Calls : own[j] = own[k] => j = k
    /\ \A k \in Calls : own[k] \in visited
    /\ \A j, k \in Calls : j <= k => own[k] \notin stack[j].next
    /\ \A k \in Calls : \A c \in stack[k].next : <<own[k], c>> \in ever
    /\ \A k \in Calls : stack[k].show \subseteq stack[k].next
    /\ \A k \in Calls : \A c \in stack[k].show : <<own[k], c>> \notin used /\ c # search.root
    /\ raised \/ \A e \in used :
          e[2] \in visited \/ \E k \in Calls : own[k] = e[1] /\ e[2] \in stack[k].next

Counted(used) ==
    \A i \in Individual :
        Cardinality(Occurrences(found, i)) <=
            IF i = search.root THEN 1 ELSE Cardinality(Into(used, i))

(* No call is deeper than its individual is far away.                      *)
InReach(own) ==
    search.max \in 0..Size =>
        /\ Range(found) \subseteq Ball(search.root, ever)[search.max]
        /\ \A k \in Calls :
              /\ stack[k].depth <= search.max
              /\ own[k] \in Ball(search.root, ever)[stack[k].depth]
              /\ stack[k].next # {} => stack[k].depth < search.max

OInv == \E own : \E used \in SUBSET ever : Attributed(own, used) /\ Counted(used) /\ InReach(own)

-----------------------------------------------------------------------------
(* How often an individual is in a sequence, with another element at its   *)
(* end.                                                                    *)
LEMMA OccurrencesOfAppend ==
    ASSUME NEW S, NEW s \in Seq(S), NEW x \in S, NEW i
    PROVE  /\ Cardinality(Occurrences(s, i)) \in Nat
           /\ Cardinality(Occurrences(Append(s, x), i)) =
                 IF x = i THEN Cardinality(Occurrences(s, i)) + 1 ELSE Cardinality(Occurrences(s, i))
<1> DEFINE n == Len(s)  t == Append(s, x)
<1>1. /\ n \in Nat /\ DOMAIN s = 1..n /\ DOMAIN t = 1..n + 1
      /\ t[n + 1] = x /\ \A k \in 1..n : t[k] = s[k]
  OBVIOUS
<1> HIDE DEF n, t
<1>2. IsFiniteSet(Occurrences(s, i)) /\ Cardinality(Occurrences(s, i)) \in Nat
  <2>1. Occurrences(s, i) \in SUBSET (1..n) /\ IsFiniteSet(1..n)
    BY <1>1, FS_Interval DEF Occurrences
  <2> QED BY <2>1, FS_Subset, FS_CardinalityType
<1>3. CASE x = i
  <2>1. Occurrences(t, i) = Occurrences(s, i) \cup {n + 1} /\ n + 1 \notin Occurrences(s, i)
    BY <1>1, <1>3 DEF Occurrences
  <2> QED BY <2>1, <1>2, <1>3, FS_AddElement DEF t
<1>4. CASE x # i
  <2>1. Occurrences(t, i) = Occurrences(s, i)
    BY <1>1, <1>4 DEF Occurrences
  <2> QED BY <2>1, <1>2, <1>4 DEF t
<1> QED BY <1>3, <1>4

(* The elements of a sequence with one put before them.                    *)
LEMMA ConsPlaces ==
    ASSUME NEW S, NEW s \in Seq(S), NEW x \in S
    PROVE  /\ Len(<<x>> \o s) = Len(s) + 1 /\ (<<x>> \o s)[1] = x
           /\ \A k \in 1..Len(s) : (<<x>> \o s)[k + 1] = s[k]
OBVIOUS

(* The elements of a sequence without its first one.                       *)
LEMMA TailPlaces ==
    ASSUME NEW S, NEW s \in Seq(S), s # <<>>
    PROVE  /\ Len(s) \in Nat /\ 1 <= Len(s) /\ Len(Tail(s)) = Len(s) - 1 /\ Head(s) = s[1]
           /\ \A k \in 1..Len(s) - 1 : Tail(s)[k] = s[k + 1]
OBVIOUS

(* A stack with another frame on top.                                      *)
LEMMA WithinPlaces ==
    ASSUME Typed, stack # <<>>, NEW f \in Frame
    PROVE  /\ Within(f) \in Seq(Frame) /\ Len(Within(f)) = Len(stack) /\ Len(stack) \in Nat /\ 1 \in Calls
           /\ Within(f)[1] = f /\ \A k \in Calls : k # 1 => Within(f)[k] = stack[k]
<1>1. stack \in Seq(Frame)
  BY DEF Typed
<1>2. Tail(stack) \in Seq(Frame)
  BY <1>1
<1> DEFINE t == Tail(stack)
<1>3. /\ Len(stack) \in Nat /\ 1 <= Len(stack) /\ Len(t) = Len(stack) - 1
      /\ \A k \in 1..Len(stack) - 1 : t[k] = stack[k + 1]
  BY <1>1, TailPlaces
<1>4. /\ Len(<<f>> \o t) = Len(t) + 1 /\ (<<f>> \o t)[1] = f /\ <<f>> \o t \in Seq(Frame)
      /\ \A k \in 1..Len(t) : (<<f>> \o t)[k + 1] = t[k]
  BY <1>2, ConsPlaces
<1> HIDE DEF t
<1>5. ASSUME NEW k \in Calls, k # 1 PROVE (<<f>> \o t)[k] = stack[k]
  <2>1. k - 1 \in 1..Len(t) /\ (k - 1) + 1 = k
    BY <1>3, <1>5 DEF Calls
  <2>2. (<<f>> \o t)[(k - 1) + 1] = t[k - 1] /\ t[k - 1] = stack[(k - 1) + 1]
    BY <1>3, <1>4, <2>1
  <2> QED BY <2>1, <2>2
<1> QED BY <1>3, <1>4, <1>5 DEF Within, Calls, t

(* The parts of a new call: its children are connected and new.            *)
LEMMA CallParts ==
    ASSUME Typed, NEW i \in Individual, NEW depth \in Nat
    PROVE  LET c == Call(i, depth) IN
           /\ c \in Frame /\ c.depth = depth /\ c.show \subseteq c.next
           /\ c.next \cap (visited \cup {i}) = {}
           /\ \A j \in c.next : <<i, j>> \in ever
           /\ c.next # {} => search.max = Unlimited \/ depth < search.max
<1>1. \A j \in Children(i) : <<i, j>> \in edges /\ j \in Individual
  <2> SUFFICES ASSUME NEW j \in Children(i) PROVE <<i, j>> \in edges /\ j \in Individual
    OBVIOUS
  <2>1. PICK e \in edges : e[1] = i /\ e[2] = j
    BY DEF Children
  <2>2. e = <<e[1], e[2]>> /\ e[2] \in Individual
    BY DEF Typed
  <2> QED BY <2>1, <2>2
<1> QED BY <1>1, CallHolds DEF Call, Deeper, Typed

(* There are finitely many connections to count.                           *)
LEMMA EverIsFinite ==
    ASSUME Typed
    PROVE  \A E \in SUBSET ever : \A i : IsFiniteSet(Into(E, i)) /\ Cardinality(Into(E, i)) \in Nat
<1>1. IsFiniteSet(Individual \X Individual)
  BY FS_Product, SearchAssumption
<1>2. \A E \in SUBSET ever : \A i : Into(E, i) \in SUBSET (Individual \X Individual)
  BY DEF Typed, Into
<1> QED BY <1>1, <1>2, FS_Subset, FS_CardinalityType

(* The depth of a call that goes on is one more.                           *)
LEMMA OneFurther ==
    ASSUME Typed, NEW d \in Nat, search.max \in 0..Size, d < search.max,
           NEW i \in Ball(search.root, ever)[d], NEW j, <<i, j>> \in ever
    PROVE  /\ d + 1 \in 0..Size /\ d + 1 <= search.max
           /\ j \in Ball(search.root, ever)[d + 1]
           /\ j \in Ball(search.root, ever)[search.max]
<1> DEFINE B == Ball(search.root, ever)
<1>1. search.root \in Individual /\ ever \in SUBSET (Individual \X Individual)
  BY DEF Typed
<1>2. Size \in Nat /\ \A n \in 1..Size : B[n] = Follow(ever, B[n - 1])
  BY <1>1, BallSteps
<1>3. d + 1 \in 1..Size /\ (d + 1) - 1 = d /\ d + 1 \in 0..Size /\ d + 1 <= search.max
  BY <1>2
<1>4. B[d + 1] = Follow(ever, B[d])
  <2> HIDE DEF B
  <2>1. B[d + 1] = Follow(ever, B[(d + 1) - 1])
    BY <1>2, <1>3
  <2> QED BY <2>1, <1>3
<1>5. j \in B[d + 1]
  <2> DEFINE e == <<i, j>>
  <2>1. e \in ever /\ e[1] \in B[d] /\ e[2] = j
    OBVIOUS
  <2> HIDE DEF e, B
  <2> QED BY <2>1, <1>4 DEF Follow
<1>6. B[d + 1] \subseteq B[search.max]
  BY <1>1, <1>3, BallWidens
<1> QED BY <1>3, <1>5, <1>6

(* Nothing is found and no call is made at first.                          *)
LEMMA InitAttributes == Init => OInv
<1> SUFFICES ASSUME Init PROVE OInv
  OBVIOUS
<1>1. IInv /\ Typed
  BY InitEstablishes DEF IInv
<1>2. stack = <<>> /\ found = <<>> /\ Calls = {}
  BY DEF Init, Calls
<1>3. PICK own : own = [k \in Calls |-> search.root]
  OBVIOUS
<1>4. Attributed(own, {})
  BY <1>2, <1>3 DEF Attributed
<1>5. Counted({})
  <2> SUFFICES ASSUME NEW i \in Individual
               PROVE  /\ Cardinality(Occurrences(found, i)) = 0
                      /\ Cardinality(Into({}, i)) = 0
    BY DEF Counted
  <2>1. Occurrences(found, i) = {} /\ Into({}, i) = {}
    BY <1>2 DEF Occurrences, Into
  <2> QED BY <2>1, FS_EmptySet
<1>6. InReach(own)
  BY <1>2 DEF InReach, Range
<1> QED BY <1>4, <1>5, <1>6 DEF OInv

(* Nothing has been yielded over a connection before the search begins.    *)
LEMMA NotStarted ==
    ASSUME Typed, Begun, ~Started, NEW own, NEW used \in SUBSET ever, Attributed(own, used)
    PROVE  used = {}
<1>1. Calls = {} /\ visited = {} /\ ~raised
  BY DEF Started, Calls, Begun
<1> QED BY <1>1 DEF Attributed

(* The root is found once, before any connection is followed.              *)
LEMMA FindRootAttributes == IInv /\ OInv /\ FindRoot => OInv'
<1> SUFFICES ASSUME IInv, OInv, FindRoot PROVE OInv'
  OBVIOUS
<1>0. Typed /\ search.root \in Individual
  BY DEF IInv, Typed
<1>1. PICK own : \E used \in SUBSET ever : Attributed(own, used) /\ Counted(used) /\ InReach(own)
  BY DEF OInv
<1>2. PICK used \in SUBSET ever : Attributed(own, used) /\ Counted(used) /\ InReach(own)
  BY <1>1
<1>3. /\ stack = <<>> /\ found = <<>> /\ found' = <<search.root>> /\ ~Started
      /\ UNCHANGED <<edges, search, stack, visited, edits, ever, raised>>
  BY DEF FindRoot, Started
<1>4. used = {}
  BY <1>0, <1>2, <1>3, NotStarted DEF IInv
<1>5. Attributed(own, used)'
  BY <1>2, <1>3 DEF Attributed, Calls
<1>6. Counted(used)'
  <2> SUFFICES ASSUME NEW i \in Individual
               PROVE  Cardinality(Occurrences(found', i)) <=
                         IF i = search.root THEN 1 ELSE Cardinality(Into(used, i))
    BY <1>3 DEF Counted
  <2>1. found' = <<search.root>> /\ found' = Append(found, search.root) /\ found \in Seq(Individual)
    BY <1>0, <1>3 DEF Typed
  <2>2. Occurrences(found, i) = {} /\ Into(used, i) = {}
    BY <1>3, <1>4 DEF Occurrences, Into
  <2>3. Cardinality(Occurrences(found, i)) = 0 /\ Cardinality(Into(used, i)) = 0
    BY <2>2, FS_EmptySet
  <2>4. Cardinality(Occurrences(Append(found, search.root), i)) =
           IF search.root = i THEN 1 ELSE 0
    BY <1>0, <2>1, <2>3, OccurrencesOfAppend
  <2> DEFINE root == search.root  n == Cardinality(Occurrences(found', i))
             m == Cardinality(Into(used, i))
  <2>5. n = (IF root = i THEN 1 ELSE 0) /\ m = 0
    BY <2>1, <2>3, <2>4
  <2> HIDE DEF root, n, m
  <2>6. n <= IF i = root THEN 1 ELSE m
    BY <2>5
  <2> QED BY <2>6 DEF root, n, m
<1>7. InReach(own)'
  <2> SUFFICES ASSUME search.max \in 0..Size
               PROVE  search.root \in Ball(search.root, ever)[search.max]
    BY <1>2, <1>3 DEF InReach, Range, Calls
  <2>1. /\ Size \in Nat /\ ever \in SUBSET (Individual \X Individual)
        /\ Ball(search.root, ever)[0] = {search.root}
    BY <1>0, BallSteps DEF Typed
  <2>2. Ball(search.root, ever)[0] \subseteq Ball(search.root, ever)[search.max]
    BY <1>0, <2>1, BallWidens
  <2> QED BY <2>1, <2>2
<1> QED BY <1>3, <1>5, <1>6, <1>7 DEF OInv

(* The first call belongs to the root.                                     *)
LEMMA StartAttributes == IInv /\ OInv /\ Start => OInv'
<1> SUFFICES ASSUME IInv, OInv, Start PROVE OInv'
  OBVIOUS
<1>0. Typed /\ search.root \in Individual
  BY DEF IInv, Typed
<1>1. PICK own0 : \E used \in SUBSET ever : Attributed(own0, used) /\ Counted(used) /\ InReach(own0)
  BY DEF OInv
<1>2. PICK used \in SUBSET ever : Attributed(own0, used) /\ Counted(used) /\ InReach(own0)
  BY <1>1
<1>3. PICK c : c = Call(search.root, 0)
  OBVIOUS
<1>4. /\ ~Started /\ visited = {} /\ stack' = <<c>> /\ visited' = {search.root}
      /\ UNCHANGED <<edges, search, found, edits, ever, raised>>
  BY <1>3 DEF Start, Ready, Started
<1>5. /\ c \in Frame /\ c.depth = 0 /\ c.show \subseteq c.next /\ search.root \notin c.next
      /\ \A j \in c.next : <<search.root, j>> \in ever
      /\ c.next # {} => search.max = Unlimited \/ 0 < search.max
  BY <1>0, <1>3, CallParts
<1>6. used = {}
  BY <1>0, <1>2, <1>4, NotStarted DEF IInv
<1>7. Calls' = {1} /\ stack'[1] = c
  BY <1>4 DEF Calls
<1>8. PICK own : own = [k \in {1} |-> search.root]
  OBVIOUS
<1>9. Attributed(own, used)'
  BY <1>0, <1>4, <1>5, <1>6, <1>7, <1>8 DEF Attributed
<1>10. Counted(used)'
  BY <1>2, <1>4 DEF Counted
<1>11. InReach(own)'
  <2> SUFFICES ASSUME search.max \in 0..Size
               PROVE  /\ Range(found) \subseteq Ball(search.root, ever)[search.max]
                      /\ 0 <= search.max
                      /\ search.root \in Ball(search.root, ever)[0]
                      /\ c.next # {} => 0 < search.max
    BY <1>4, <1>5, <1>7, <1>8 DEF InReach
  <2>1. /\ Size \in Nat /\ ever \in SUBSET (Individual \X Individual)
        /\ Ball(search.root, ever)[0] = {search.root}
    BY <1>0, BallSteps DEF Typed
  <2>2. search.max # Unlimited
    BY <2>1, SearchAssumption
  <2> QED BY <1>2, <1>5, <2>1, <2>2 DEF InReach
<1> QED BY <1>4, <1>9, <1>10, <1>11 DEF OInv

(* A call that cannot begin ends them all; what was yielded before counts  *)
(* for the connections that it has used.                                   *)
LEMMA FailAttributes == IInv /\ OInv /\ Fail => OInv'
<1> SUFFICES ASSUME IInv, OInv, Fail PROVE OInv'
  OBVIOUS
<1>1. PICK own0 : \E used \in SUBSET ever : Attributed(own0, used) /\ Counted(used) /\ InReach(own0)
  BY DEF OInv
<1>2. PICK used \in SUBSET ever : Attributed(own0, used) /\ Counted(used) /\ InReach(own0)
  BY <1>1
<1>3. Calls' = {} /\ raised' /\ UNCHANGED <<search, found, ever>>
  BY DEF Fail, Calls
<1>4. PICK own : own = [k \in {} |-> search.root]
  OBVIOUS
<1>5. Attributed(own, used)'
  BY <1>3, <1>4 DEF Attributed
<1>6. Counted(used)' /\ InReach(own)'
  BY <1>2, <1>3 DEF Counted, InReach
<1> QED BY <1>3, <1>5, <1>6 DEF OInv

(* Connections that are made or removed later leave those that were used.  *)
LEMMA EditAttributes == IInv /\ OInv /\ Edit => OInv'
<1> SUFFICES ASSUME IInv, OInv, Edit PROVE OInv'
  OBVIOUS
<1>0. Typed /\ Typed' /\ search.root \in Individual
  BY NextKeeps DEF IInv, Typed, Next
<1>1. PICK own : \E used \in SUBSET ever : Attributed(own, used) /\ Counted(used) /\ InReach(own)
  BY DEF OInv
<1>2. PICK used \in SUBSET ever : Attributed(own, used) /\ Counted(used) /\ InReach(own)
  BY <1>1
<1>3. ever \subseteq ever' /\ UNCHANGED <<search, stack, visited, found, raised>>
  BY DEF Edit
<1>4. Attributed(own, used)'
  BY <1>2, <1>3 DEF Attributed, Calls
<1>5. Counted(used)'
  BY <1>2, <1>3 DEF Counted
<1>6. InReach(own)'
  <2> SUFFICES ASSUME search.max \in 0..Size PROVE InReach(own)'
    BY <1>3 DEF InReach
  <2>1. Size \in Nat
    BY <1>0, BallSteps DEF Typed
  <2>2. ever' \in SUBSET (Individual \X Individual) /\ ever \in SUBSET ever'
    BY <1>0, <1>3 DEF Typed
  <2>3. \A n \in 0..Size : Ball(search.root, ever)[n] \subseteq Ball(search.root, ever')[n]
    BY <1>0, <2>2, BallGrows
  <2>4. \A k \in Calls : stack[k].depth \in Nat
    <3>1. stack \in Seq(Frame)
      BY <1>0 DEF Typed
    <3>2. \A k \in Calls : stack[k] \in Frame
      BY <3>1 DEF Calls
    <3> QED BY <3>2 DEF Frame
  <2>5. \A k \in Calls : stack[k].depth \in 0..Size
    BY <1>2, <2>1, <2>4 DEF InReach
  <2> QED BY <1>2, <1>3, <2>3, <2>5 DEF InReach, Calls
<1> QED BY <1>2, <1>3, <1>4, <1>5, <1>6 DEF OInv

(* An individual is yielded over a connection of the innermost call that   *)
(* was not used before, and that is used from now on.                      *)
LEMMA YieldAttributes == IInv /\ OInv /\ Yield => OInv'
<1> SUFFICES ASSUME IInv, OInv, Yield PROVE OInv'
  OBVIOUS
<1>0. Typed /\ ~raised
  BY DEF IInv, Begun, Yield
<1>1. PICK own : \E u \in SUBSET ever : Attributed(own, u) /\ Counted(u) /\ InReach(own)
  BY DEF OInv
<1>2. PICK u \in SUBSET ever : Attributed(own, u) /\ Counted(u) /\ InReach(own)
  BY <1>1
<1>3. PICK i \in Top.show : /\ found' = Append(found, i)
                            /\ stack' = Within([Top EXCEPT !.show = @ \ {i}])
  BY DEF Yield
<1>4. stack # <<>> /\ UNCHANGED <<edges, search, visited, edits, ever, raised>>
  BY DEF Yield
<1> DEFINE f == [Top EXCEPT !.show = @ \ {i}]
<1>5. Top \in Frame /\ Top = stack[1]
  BY <1>0, <1>4, StackParts, TailPlaces DEF Typed, Top
<1>6. /\ f \in Frame /\ f.show = Top.show \ {i} /\ f.next = Top.next /\ f.depth = Top.depth
      /\ i \in Individual
  BY <1>5 DEF Frame
<1> HIDE DEF f
<1>7. /\ Calls' = Calls /\ 1 \in Calls /\ stack'[1] = f
      /\ \A k \in Calls : k # 1 => stack'[k] = stack[k]
  BY <1>0, <1>3, <1>4, <1>6, WithinPlaces DEF f, Calls
<1>8. \A k \in Calls : /\ stack'[k].next = stack[k].next /\ stack'[k].depth = stack[k].depth
                       /\ stack'[k].show = IF k = 1 THEN stack[1].show \ {i} ELSE stack[k].show
  BY <1>5, <1>6, <1>7
<1>9. PICK e : e = <<own[1], i>>
  OBVIOUS
<1>10. /\ e \in ever /\ e \notin u /\ i # search.root /\ i \in stack[1].next /\ i \in stack[1].show
       /\ e[1] = own[1] /\ e[2] = i
  BY <1>2, <1>3, <1>5, <1>7, <1>9 DEF Attributed
<1>11. PICK used : used = u \cup {e}
  OBVIOUS
<1>12. used \in SUBSET ever'
  BY <1>4, <1>10, <1>11
<1>13. Attributed(own, used)'
  <2>1. /\ (own \in [Calls -> Individual])'
        /\ (\A j, k \in Calls : own[j] = own[k] => j = k)'
        /\ (\A k \in Calls : own[k] \in visited)'
    BY <1>2, <1>4, <1>7 DEF Attributed
  <2>2. (\A j, k \in Calls : j <= k => own[k] \notin stack[j].next)'
    BY <1>2, <1>7, <1>8 DEF Attributed
  <2>3. (\A k \in Calls : \A c \in stack[k].next : <<own[k], c>> \in ever)'
    BY <1>2, <1>4, <1>7, <1>8 DEF Attributed
  <2>4. (\A k \in Calls : stack[k].show \subseteq stack[k].next)'
    BY <1>2, <1>7, <1>8 DEF Attributed
  <2>5. ASSUME NEW k \in Calls, NEW c \in stack'[k].show
        PROVE  <<own[k], c>> \notin used /\ c # search.root
    <3>1. c \in stack[k].show
      BY <1>8, <2>5
    <3>2. <<own[k], c>> \notin u /\ c # search.root
      BY <1>2, <3>1 DEF Attributed
    <3>3. CASE k = 1
      BY <3>2, <3>3, <1>8, <1>9, <1>11
    <3>4. CASE k # 1
      <4>1. own[k] # own[1]
        BY <1>2, <1>7, <3>4 DEF Attributed
      <4> QED BY <3>2, <4>1, <1>9, <1>11
    <3> QED BY <3>3, <3>4
  <2>6. ASSUME NEW x \in used
        PROVE  x[2] \in visited \/ \E k \in Calls : own[k] = x[1] /\ x[2] \in stack'[k].next
    <3>1. CASE x = e
      BY <3>1, <1>7, <1>8, <1>10
    <3>2. CASE x \in u
      BY <3>2, <1>0, <1>2, <1>8 DEF Attributed
    <3> QED BY <3>1, <3>2, <1>11
  <2> QED BY <2>1, <2>2, <2>3, <2>4, <2>5, <2>6, <1>4, <1>7 DEF Attributed
<1>14. Counted(used)'
  <2> SUFFICES ASSUME NEW j \in Individual
               PROVE  Cardinality(Occurrences(found', j)) <=
                         IF j = search.root THEN 1 ELSE Cardinality(Into(used, j))
    BY <1>4 DEF Counted
  <2> DEFINE root == search.root  n == Cardinality(Occurrences(found, j))
             o == Cardinality(Occurrences(found', j))
             l == Cardinality(Into(u, j))  m == Cardinality(Into(used, j))
  <2>1. n \in Nat /\ o = IF i = j THEN n + 1 ELSE n
    BY <1>0, <1>3, <1>6, OccurrencesOfAppend DEF Typed
  <2>2. l \in Nat /\ IsFiniteSet(Into(u, j))
    BY <1>0, EverIsFinite
  <2>3. m = IF i = j THEN l + 1 ELSE l
    <3>1. CASE i = j
      <4>1. Into(used, j) = Into(u, j) \cup {e} /\ e \notin Into(u, j)
        BY <3>1, <1>10, <1>11 DEF Into
      <4> QED BY <4>1, <3>1, <2>2, FS_AddElement
    <3>2. CASE i # j
      <4>1. Into(used, j) = Into(u, j)
        BY <3>2, <1>10, <1>11 DEF Into
      <4> QED BY <4>1, <3>2
    <3> QED BY <3>1, <3>2
  <2>4. n <= (IF j = root THEN 1 ELSE l) /\ i # root
    BY <1>2, <1>10 DEF Counted
  <2> HIDE DEF root, n, o, l, m
  <2>5. o <= IF j = root THEN 1 ELSE m
    BY <2>1, <2>2, <2>3, <2>4
  <2> QED BY <2>5 DEF root, o, m
<1>15. InReach(own)'
  <2> SUFFICES ASSUME search.max \in 0..Size PROVE InReach(own)'
    BY <1>4 DEF InReach
  <2> DEFINE d == stack[1].depth
  <2>1. /\ \A k \in Calls : /\ stack[k].depth <= search.max
                            /\ own[k] \in Ball(search.root, ever)[stack[k].depth]
                            /\ stack[k].next # {} => stack[k].depth < search.max
        /\ Range(found) \subseteq Ball(search.root, ever)[search.max]
    BY <1>2 DEF InReach
  <2>2. /\ d \in Nat /\ d < search.max /\ own[1] \in Ball(search.root, ever)[d]
        /\ <<own[1], i>> \in ever
    BY <1>5, <1>7, <1>9, <1>10, <2>1 DEF Frame
  <2>3. i \in Ball(search.root, ever)[search.max]
    <3> HIDE DEF d
    <3> QED BY <1>0, <2>2, OneFurther
  <2>4. Range(found') = Range(found) \cup {i}
    BY <1>0, <1>3, <1>6, RangeAppend DEF Typed
  <2> QED BY <1>4, <1>7, <1>8, <2>1, <2>3, <2>4 DEF InReach
<1> QED BY <1>12, <1>13, <1>14, <1>15 DEF OInv

(* A call that has nothing left can be forgotten: no used connection leads *)
(* to an individual it still waits for.                                    *)
LEMMA ReturnAttributes == IInv /\ OInv /\ Return => OInv'
<1> SUFFICES ASSUME IInv, OInv, Return PROVE OInv'
  OBVIOUS
<1>0. Typed /\ ~raised
  BY DEF IInv, Begun, Return
<1>1. PICK own0 : \E u \in SUBSET ever : Attributed(own0, u) /\ Counted(u) /\ InReach(own0)
  BY DEF OInv
<1>2. PICK used \in SUBSET ever : Attributed(own0, used) /\ Counted(used) /\ InReach(own0)
  BY <1>1
<1>3. /\ stack # <<>> /\ Top.next = {} /\ stack' = Tail(stack)
      /\ UNCHANGED <<edges, search, visited, found, edits, ever, raised>>
  BY DEF Return
<1>4. /\ Len(stack) \in Nat /\ 1 <= Len(stack) /\ Len(stack') = Len(stack) - 1
      /\ \A k \in 1..Len(stack) - 1 : stack'[k] = stack[k + 1]
      /\ stack[1].next = {}
  BY <1>0, <1>3, TailPlaces DEF Typed, Top
<1>5. /\ \A k \in Calls' : k + 1 \in Calls /\ stack'[k] = stack[k + 1] /\ k \in Nat
      /\ \A k \in Calls : k # 1 => k - 1 \in Calls' /\ (k - 1) + 1 = k
  BY <1>4 DEF Calls
<1>6. PICK own : own = [k \in Calls' |-> own0[k + 1]]
  OBVIOUS
<1>7. Attributed(own, used)'
  <2>1. /\ (own \in [Calls -> Individual])'
        /\ (\A k \in Calls : own[k] \in visited)'
    BY <1>2, <1>3, <1>5, <1>6 DEF Attributed
  <2>2. ASSUME NEW j \in Calls', NEW k \in Calls'
        PROVE  /\ own[j] = own[k] => j = k
               /\ j <= k => own[k] \notin stack'[j].next
    <3>1. own[j] = own0[j + 1] /\ own[k] = own0[k + 1] /\ j + 1 \in Calls /\ k + 1 \in Calls
      BY <1>5, <1>6
    <3>2. own0[j + 1] = own0[k + 1] => j + 1 = k + 1
      BY <1>2, <3>1 DEF Attributed
    <3>3. j + 1 <= k + 1 => own0[k + 1] \notin stack[j + 1].next
      BY <1>2, <3>1 DEF Attributed
    <3> QED BY <1>5, <3>1, <3>2, <3>3
  <2>3. ASSUME NEW k \in Calls'
        PROVE  /\ \A c \in stack'[k].next : <<own[k], c>> \in ever
               /\ stack'[k].show \subseteq stack'[k].next
               /\ \A c \in stack'[k].show : <<own[k], c>> \notin used /\ c # search.root
    <3>1. own[k] = own0[k + 1] /\ k + 1 \in Calls /\ stack'[k] = stack[k + 1]
      BY <1>5, <1>6
    <3> QED BY <1>2, <3>1 DEF Attributed
  <2>4. ASSUME NEW x \in used
        PROVE  x[2] \in visited \/ \E k \in Calls' : own[k] = x[1] /\ x[2] \in stack'[k].next
    <3> SUFFICES ASSUME x[2] \notin visited
                 PROVE  \E k \in Calls' : own[k] = x[1] /\ x[2] \in stack'[k].next
      OBVIOUS
    <3>1. PICK k \in Calls : own0[k] = x[1] /\ x[2] \in stack[k].next
      BY <1>0, <1>2 DEF Attributed
    <3>2. k # 1
      BY <1>4, <3>1
    <3>3. k - 1 \in Calls' /\ own[k - 1] = own0[k] /\ stack'[k - 1] = stack[k]
      BY <1>5, <1>6, <3>2
    <3> QED BY <3>1, <3>3
  <2> QED BY <1>3, <2>1, <2>2, <2>3, <2>4 DEF Attributed
<1>8. Counted(used)'
  BY <1>2, <1>3 DEF Counted
<1>9. InReach(own)'
  BY <1>2, <1>3, <1>5, <1>6 DEF InReach
<1> QED BY <1>3, <1>7, <1>8, <1>9 DEF OInv

(* The individual of the new call has no call on the stack, and its        *)
(* children are not visited, so that no connection to them was used.       *)
LEMMA DescendAttributes == IInv /\ OInv /\ Descend => OInv'
<1> SUFFICES ASSUME IInv, OInv, Descend PROVE OInv'
  OBVIOUS
<1>0. Typed /\ search.root \in visited /\ ~raised
  BY DEF IInv, Begun, Descend
<1>1. PICK own0 : \E u \in SUBSET ever : Attributed(own0, u) /\ Counted(u) /\ InReach(own0)
  BY DEF OInv
<1>2. PICK used \in SUBSET ever : Attributed(own0, used) /\ Counted(used) /\ InReach(own0)
  BY <1>1
<1>3. PICK i \in Top.next :
           /\ stack' = <<Call(i, Top.depth + 1)>> \o Within([Top EXCEPT !.next = @ \ {i}])
           /\ visited' = visited \cup {i}
  BY DEF Descend
<1>4. stack # <<>> /\ Top.show = {} /\ UNCHANGED <<edges, search, found, edits, ever, raised>>
  BY DEF Descend
<1>5. Top \in Frame /\ Top = stack[1]
  BY <1>0, <1>4, StackParts, TailPlaces DEF Typed, Top
<1> DEFINE f == [Top EXCEPT !.next = @ \ {i}]  d == Top.depth
<1>6. /\ f \in Frame /\ f.show = {} /\ f.next = Top.next \ {i} /\ f.depth = d
      /\ i \in Individual /\ d \in Nat /\ d + 1 \in Nat
  BY <1>4, <1>5 DEF Frame
<1>7. PICK c : c = Call(i, d + 1)
  OBVIOUS
<1>8. /\ c \in Frame /\ c.depth = d + 1 /\ c.show \subseteq c.next
      /\ c.next \cap (visited \cup {i}) = {}
      /\ \A j \in c.next : <<i, j>> \in ever
      /\ c.next # {} => search.max = Unlimited \/ d + 1 < search.max
  <2> HIDE DEF d
  <2> QED BY <1>0, <1>6, <1>7, CallParts
<1> HIDE DEF f
<1>9. /\ \A k \in Calls' : k # 1 =>
            /\ k - 1 \in Calls /\ (k - 1) + 1 = k
            /\ stack'[k].show = stack[k - 1].show /\ stack'[k].depth = stack[k - 1].depth
            /\ stack'[k].next = IF k = 2 THEN stack[1].next \ {i} ELSE stack[k - 1].next
      /\ \A k \in Calls : k + 1 \in Calls' /\ k + 1 # 1 /\ (k + 1) - 1 = k
      /\ 1 \in Calls /\ 1 \in Calls' /\ Calls \subseteq Nat /\ Calls' \subseteq Nat
      /\ stack'[1] = c
  <2> DEFINE t == Within(f)
  <2>1. /\ t \in Seq(Frame) /\ Len(t) = Len(stack) /\ Len(stack) \in Nat /\ 1 \in Calls
        /\ t[1] = f /\ \A k \in Calls : k # 1 => t[k] = stack[k]
    BY <1>0, <1>4, <1>6, WithinPlaces
  <2>2. stack' = <<c>> \o t
    BY <1>3, <1>7 DEF f
  <2> HIDE DEF t
  <2>3. /\ Len(stack') = Len(stack) + 1 /\ stack'[1] = c
        /\ \A k \in Calls : stack'[k + 1] = t[k]
    BY <1>8, <2>1, <2>2, ConsPlaces DEF Calls
  <2>4. /\ \A k \in Calls' : k # 1 => k - 1 \in Calls /\ (k - 1) + 1 = k
        /\ \A k \in Calls : k + 1 \in Calls' /\ k + 1 # 1 /\ (k + 1) - 1 = k
        /\ 1 \in Calls' /\ Calls \subseteq Nat /\ Calls' \subseteq Nat
    BY <2>1, <2>3 DEF Calls
  <2>5. ASSUME NEW k \in Calls', k # 1
        PROVE  /\ stack'[k].show = stack[k - 1].show /\ stack'[k].depth = stack[k - 1].depth
               /\ stack'[k].next = IF k = 2 THEN stack[1].next \ {i} ELSE stack[k - 1].next
    <3>1. stack'[k] = t[k - 1] /\ k - 1 \in Calls /\ k \in Nat
      BY <2>3, <2>4, <2>5
    <3>2. CASE k = 2
      <4>1. k - 1 = 1
        BY <3>2
      <4>2. stack'[k] = f /\ stack[k - 1] = Top
        BY <4>1, <3>1, <2>1, <1>5
      <4> QED BY <4>2, <3>2, <1>4, <1>5, <1>6
    <3>3. CASE k # 2
      <4>1. k - 1 # 1
        BY <3>1, <3>3
      <4> QED BY <4>1, <3>1, <3>3, <2>1
    <3> QED BY <3>2, <3>3
  <2> QED BY <2>1, <2>3, <2>4, <2>5
<1>10. PICK own : own = [k \in Calls' |-> IF k = 1 THEN i ELSE own0[k - 1]]
  OBVIOUS
<1>11. /\ own[1] = i /\ \A k \in Calls' : k # 1 => own[k] = own0[k - 1]
       /\ \A k \in Calls : own[k + 1] = own0[k]
  BY <1>9, <1>10
<1>12. /\ own0 \in [Calls -> Individual]
       /\ \A j, k \in Calls : own0[j] = own0[k] => j = k
       /\ \A k \in Calls : own0[k] \in visited /\ own0[k] # i /\ own0[k] \notin c.next
       /\ \A k \in Calls : own0[k] \notin stack[1].next
  <2>1. \A k \in Calls : own0[k] \notin stack[1].next
    <3>1. \A k \in Calls : 1 <= k
      BY DEF Calls
    <3> QED BY <1>2, <1>9, <3>1 DEF Attributed
  <2> QED BY <1>2, <1>3, <1>5, <1>8, <2>1 DEF Attributed
<1>13. Attributed(own, used)'
  <2>1. (own \in [Calls -> Individual])'
    BY <1>6, <1>9, <1>10, <1>12
  <2>2. (\A k \in Calls : own[k] \in visited)'
    BY <1>3, <1>9, <1>11, <1>12
  <2>3. ASSUME NEW j \in Calls', NEW k \in Calls'
        PROVE  /\ own[j] = own[k] => j = k
               /\ j <= k => own[k] \notin stack'[j].next
    <3>1. CASE j # 1 /\ k # 1
      <4>1. j - 1 \in Calls /\ k - 1 \in Calls /\ own[j] = own0[j - 1] /\ own[k] = own0[k - 1]
        BY <1>9, <1>11, <3>1
      <4>2. own0[j - 1] = own0[k - 1] => j - 1 = k - 1
        BY <4>1, <1>12
      <4>3. j - 1 <= k - 1 => own0[k - 1] \notin stack[j - 1].next
        BY <1>2, <4>1 DEF Attributed
      <4>4. j \in Nat /\ k \in Nat /\ stack'[j].next \subseteq stack[j - 1].next
        BY <1>9, <3>1
      <4> QED BY <4>1, <4>2, <4>3, <4>4
    <3>2. CASE j = 1 /\ k # 1
      <4>1. k - 1 \in Calls /\ own[k] = own0[k - 1]
        BY <1>9, <1>11, <3>2
      <4> QED BY <4>1, <3>2, <1>9, <1>11, <1>12
    <3>3. CASE j # 1 /\ k = 1
      <4>1. j - 1 \in Calls /\ own[j] = own0[j - 1] /\ ~(j <= k)
        BY <1>9, <1>11, <3>3 DEF Calls
      <4> QED BY <4>1, <3>3, <1>11, <1>12
    <3>4. CASE j = 1 /\ k = 1
      BY <3>4, <1>8, <1>9, <1>11
    <3> QED BY <3>1, <3>2, <3>3, <3>4
  <2>4. ASSUME NEW k \in Calls'
        PROVE  /\ \A x \in stack'[k].next : <<own[k], x>> \in ever
               /\ stack'[k].show \subseteq stack'[k].next
               /\ \A x \in stack'[k].show : <<own[k], x>> \notin used /\ x # search.root
    <3>1. CASE k # 1
      <4>1. /\ k - 1 \in Calls /\ own[k] = own0[k - 1] /\ stack'[k].show = stack[k - 1].show
            /\ stack'[k].next \subseteq stack[k - 1].next
        BY <1>9, <1>11, <3>1
      <4>2. stack'[k].show \subseteq stack'[k].next
        <5>1. CASE k = 2
          <6>1. stack'[k].show = {}
            BY <5>1, <1>4, <1>5, <1>9
          <6> QED BY <6>1
        <5>2. CASE k # 2
          BY <5>2, <3>1, <4>1, <1>2, <1>9 DEF Attributed
        <5> QED BY <5>1, <5>2
      <4> QED BY <4>1, <4>2, <1>2 DEF Attributed
    <3>2. CASE k = 1
      <4>1. /\ own[k] = i /\ stack'[k] = c
        BY <3>2, <1>9, <1>11
      <4>2. ASSUME NEW x \in c.show PROVE <<i, x>> \notin used /\ x # search.root
        <5>1. x \notin visited
          BY <1>8, <4>2
        <5>2. ASSUME <<i, x>> \in used PROVE FALSE
          <6>1. PICK m \in Calls : own0[m] = <<i, x>>[1]
            BY <1>0, <1>2, <5>1, <5>2 DEF Attributed
          <6> QED BY <6>1, <1>12
        <5> QED BY <5>1, <5>2, <1>0
      <4> QED BY <4>1, <4>2, <1>8
    <3> QED BY <3>1, <3>2
  <2>5. ASSUME NEW x \in used
        PROVE  x[2] \in visited' \/ \E k \in Calls' : own[k] = x[1] /\ x[2] \in stack'[k].next
    <3> SUFFICES ASSUME x[2] \notin visited'
                 PROVE  \E k \in Calls' : own[k] = x[1] /\ x[2] \in stack'[k].next
      OBVIOUS
    <3>1. x[2] \notin visited /\ x[2] # i
      BY <1>3
    <3>2. PICK k \in Calls : own0[k] = x[1] /\ x[2] \in stack[k].next
      BY <1>0, <1>2, <3>1 DEF Attributed
    <3>3. k + 1 \in Calls' /\ own[k + 1] = x[1] /\ k + 1 # 1 /\ (k + 1) - 1 = k
      BY <1>9, <1>11, <3>2
    <3>4. stack'[k + 1].next = IF k + 1 = 2 THEN stack[1].next \ {i} ELSE stack[k].next
      BY <1>9, <3>3
    <3>5. x[2] \in stack'[k + 1].next
      <4>1. k \in Nat
        BY <1>9
      <4>2. CASE k = 1
        BY <3>1, <3>2, <3>4, <4>2
      <4>3. CASE k # 1
        BY <3>2, <3>4, <4>1, <4>3
      <4> QED BY <4>2, <4>3
    <3> QED BY <3>3, <3>5
  <2> QED BY <1>4, <2>1, <2>2, <2>3, <2>4, <2>5 DEF Attributed
<1>14. Counted(used)'
  BY <1>2, <1>4 DEF Counted
<1>15. InReach(own)'
  <2> SUFFICES ASSUME search.max \in 0..Size PROVE InReach(own)'
    BY <1>4 DEF InReach
  <2> DEFINE B == Ball(search.root, ever)
  <2>1. /\ \A k \in Calls : /\ stack[k].depth <= search.max /\ own0[k] \in B[stack[k].depth]
                            /\ stack[k].next # {} => stack[k].depth < search.max
        /\ Range(found) \subseteq B[search.max]
    BY <1>2 DEF InReach
  <2>2. /\ d < search.max /\ own0[1] \in B[d] /\ <<own0[1], i>> \in ever
    BY <1>2, <1>3, <1>5, <1>9, <2>1 DEF Attributed
  <2>3. d + 1 <= search.max /\ i \in B[d + 1] /\ search.max # Unlimited
    <3>1. d + 1 <= search.max /\ i \in B[d + 1]
      <4> HIDE DEF d
      <4> QED BY <1>0, <1>6, <2>2, OneFurther
    <3>2. Size \in Nat
      BY <1>0, BallSteps DEF Typed
    <3> QED BY <3>1, <3>2, SearchAssumption
  <2> HIDE DEF B, d
  <2>4. ASSUME NEW k \in Calls'
        PROVE  /\ stack'[k].depth <= search.max /\ own[k] \in B[stack'[k].depth]
               /\ stack'[k].next # {} => stack'[k].depth < search.max
    <3>1. CASE k = 1
      BY <3>1, <1>8, <1>9, <1>11, <2>3
    <3>2. CASE k # 1
      <4>1. /\ k - 1 \in Calls /\ own[k] = own0[k - 1] /\ stack'[k].depth = stack[k - 1].depth
            /\ stack'[k].next \subseteq stack[k - 1].next
        BY <1>9, <1>11, <3>2
      <4> QED BY <4>1, <2>1
    <3> QED BY <3>1, <3>2
  <2> QED BY <1>4, <2>1, <2>4 DEF InReach, B
<1> QED BY <1>4, <1>13, <1>14, <1>15 DEF OInv

(* Each step keeps the calls and connections attributed.                   *)
LEMMA NextAttributes == IInv /\ OInv /\ [Next]_vars => OInv'
<1> SUFFICES ASSUME IInv, OInv, [Next]_vars PROVE OInv'
  OBVIOUS
<1>1. ASSUME UNCHANGED vars PROVE OInv'
  <2>1. PICK own : \E u \in SUBSET ever : Attributed(own, u) /\ Counted(u) /\ InReach(own)
    BY DEF OInv
  <2>2. PICK used \in SUBSET ever : Attributed(own, used) /\ Counted(used) /\ InReach(own)
    BY <2>1
  <2>3. UNCHANGED <<search, stack, visited, found, ever, raised>>
    BY <1>1 DEF vars
  <2>4. Attributed(own, used)'
    BY <2>2, <2>3 DEF Attributed, Calls
  <2>5. Counted(used)' /\ InReach(own)'
    BY <2>2, <2>3 DEF Counted, InReach, Calls
  <2> QED BY <2>2, <2>3, <2>4, <2>5 DEF OInv
<1> QED BY <1>1, FindRootAttributes, StartAttributes, YieldAttributes, DescendAttributes,
           ReturnAttributes, EditAttributes, FailAttributes DEF Next, Step

(* Every time an individual was found counts for a connection of its own.  *)
LEMMA AttributedIsOnce == IInv /\ OInv => OncePerConnection
<1> SUFFICES ASSUME IInv, OInv PROVE OncePerConnection
  OBVIOUS
<1>0. Typed
  BY DEF IInv
<1>1. PICK own : \E u \in SUBSET ever : Attributed(own, u) /\ Counted(u) /\ InReach(own)
  BY DEF OInv
<1>2. PICK u \in SUBSET ever : Attributed(own, u) /\ Counted(u) /\ InReach(own)
  BY <1>1
<1> DEFINE B == Ball(search.root, ever)
<1>3. DOMAIN B = 0..Size /\ Size \in Nat
  BY <1>0, BallSteps DEF Typed
<1>4. ASSUME NEW i \in Range(found)
      PROVE  /\ Cardinality(Occurrences(found, i)) <=
                   IF i = search.root THEN 1 ELSE Cardinality(Into(ever, i))
             /\ search.max \in DOMAIN B => i \in B[search.max]
  <2>1. i \in Individual
    BY <1>0 DEF Typed, Range
  <2>2. search.max \in DOMAIN B => i \in B[search.max]
    BY <1>2, <1>3 DEF InReach
  <2> DEFINE n == Cardinality(Occurrences(found, i))
             l == Cardinality(Into(u, i))  m == Cardinality(Into(ever, i))
  <2>3. l \in Nat /\ m \in Nat /\ l <= m
    <3>1. Into(u, i) \in SUBSET Into(ever, i)
      BY DEF Into
    <3>2. IsFiniteSet(Into(ever, i)) /\ l \in Nat /\ m \in Nat
      BY <1>0, EverIsFinite
    <3> QED BY <3>1, <3>2, FS_Subset
  <2>4. n \in Nat
    <3>1. Occurrences(found, i) \in SUBSET (1..Len(found)) /\ Len(found) \in Nat
      BY <1>0 DEF Typed, Occurrences
    <3>2. IsFiniteSet(1..Len(found))
      BY <3>1, FS_Interval
    <3> QED BY <3>1, <3>2, FS_Subset, FS_CardinalityType
  <2>5. n <= IF i = search.root THEN 1 ELSE l
    BY <1>2, <2>1 DEF Counted
  <2> DEFINE root == search.root
  <2> HIDE DEF n, l, m
  <2>6. n <= IF i = search.root THEN 1 ELSE m
    BY <2>3, <2>4, <2>5
  <2> QED BY <2>2, <2>6 DEF n, m
<1>5. B = CHOOSE ball : ball = [n \in 0..Cardinality(Individual) |->
                IF n = 0 THEN {search.root}
                ELSE ball[n - 1] \cup {e[2] : e \in {x \in ever : x[1] \in ball[n - 1]}}]
  BY DEF Ball, Follow, Size
<1> HIDE DEF B
<1> QED BY <1>4, <1>5 DEF OncePerConnection, Occurrences, Into

(* An individual is yielded no more often than it has had connections to   *)
(* it, the root only once, and with a maximal depth only if so many        *)
(* connections lead to it, whatever is connected and disconnected while    *)
(* the generator waits (`_iter').                                          *)
THEOREM FoundOncePerConnection == Spec => []OncePerConnection
BY InitEstablishes, InitAttributes, NextKeeps, NextAttributes, AttributedIsOnce, PTL DEF Spec
=============================================================================
