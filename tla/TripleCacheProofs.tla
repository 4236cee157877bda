--------------------------- MODULE TripleCacheProofs ---------------------------
(***************************************************************************)
(* What holds of the triple cache for every vocabulary, every size of the  *)
(* cache and every choice of queries, additions and removals.              *)
(***************************************************************************)
EXTENDS TripleCache, FiniteSetTheorems, TLAPS

(* Graphs are finite, and so is the list of cached patterns.               *)
Finite ==
    /\ IsFiniteSet(backend) /\ IsFiniteSet(adding)
    /\ IsFiniteSet(cache) /\ IsFiniteSet(patterns)

(* While a commit goes through the cached patterns that an added triple    *)
(* matches, the backend already has the added triples.                     *)
CommitApplied == stage = "commit" => adding \subseteq backend

(* The cache has what the backend has of a cached pattern, but for the     *)
(* added triples of a pattern that the commit has not come to.             *)
CacheComplete ==
    blame = {} => \A q \in patterns : \A t \in Matching(backend, q) :
        \/ t \in cache
        \/ stage = "commit" /\ q \in todo /\ t \in adding

(* The inductive invariant. *)
Inv ==
    /\ TypeOK /\ Finite
    /\ CommitApplied /\ NoPhantoms /\ CacheComplete
    /\ NothingUnevictable /\ WithinSize
-----------------------------------------------------------------------------
(* Patterns *)

(* A triple that matches a pattern matches the more general patterns.      *)
LEMMA SubPatternTransitive ==
    ASSUME NEW t, NEW q, NEW r, IsSubPattern(t, q), IsSubPattern(q, r)
    PROVE  IsSubPattern(t, r)
BY DEF IsSubPattern

(* Patterns without common triples stay cached when others are evicted.    *)
LEMMA UnsharedSurvive ==
    ASSUME NEW P, ~Shared(P), NEW q \in patterns \ P,
           NEW t \in cache, IsSubPattern(t, q)
    PROVE  t \notin MatchingAny(cache, P)
BY DEF Shared, MatchingAny, Matching

(* The patterns that `_fill' evicts are cached, or the one it replaces.    *)
LEMMA VictimsCached ==
    ASSUME NEW p, NEW T, NEW evictable, NEW replace
    PROVE  Victims(p, T, evictable, replace) \subseteq patterns \cup {p}
BY DEF Victims, Always, Further

-----------------------------------------------------------------------------
(* What a fill does to the parts of the invariant *)

(* The patterns that are kept stay in order, and a new one is the last.    *)
LEMMA KeepOrder ==
    ASSUME DatesOrdered, NEW kept \in SUBSET patterns, NEW new,
           \A q \in new : q \notin kept, \A q, r \in new : q = r,
           KeepPatterns(kept, new)
    PROVE  DatesOrdered'
BY DEF DatesOrdered, KeepPatterns

(* A fill with triples of p keeps the types of the cache.                  *)
LEMMA FillTypes ==
    ASSUME TypeOK, Finite, NEW p \in Pattern, NEW T \in SUBSET Triple, IsFiniteSet(T),
           NEW evictable, NEW replace, Fill(p, T, evictable, replace)
    PROVE  /\ cache' \subseteq Triple /\ IsFiniteSet(cache')
           /\ patterns' \subseteq Pattern /\ DatesOrdered' /\ IsFiniteSet(patterns')
           /\ blame' \subseteq {"shared", "partial", "emptied", "outdated"}
<1> DEFINE V == Victims(p, T, evictable, replace)
           kept == patterns \ (V \cup {p})
<1>1. /\ cache' = (cache \ MatchingAny(cache, V \cup {p})) \cup T
      /\ KeepPatterns(kept, {p})
      /\ blame' = blame \cup BlameShared(V) \cup BlamePartial(p, T)
  BY DEF Fill
<1> HIDE DEF V
<1>2. cache' \subseteq Triple /\ IsFiniteSet(cache')
  BY <1>1, FS_Difference, FS_Union DEF TypeOK, Finite
<1>3. DatesOrdered'
  BY <1>1, KeepOrder DEF TypeOK
<1>4. patterns' = kept \cup {p} /\ IsFiniteSet(kept)
  BY <1>1, FS_Difference DEF KeepPatterns, Finite
<1>5. patterns' \subseteq Pattern /\ IsFiniteSet(patterns')
  BY <1>4, FS_AddElement DEF TypeOK
<1> QED
  BY <1>1, <1>2, <1>3, <1>5 DEF TypeOK, BlameShared, BlamePartial

(* A fill leaves no cached triple without a cached pattern.                *)
LEMMA FillEvictable ==
    ASSUME NothingUnevictable, NEW p, NEW T, \A t \in T : IsSubPattern(t, p),
           NEW evictable, NEW replace, Fill(p, T, evictable, replace)
    PROVE  NothingUnevictable'
BY DEF NothingUnevictable, Fill, KeepPatterns, MatchingAny, Matching

(* A fill with triples of the backend puts nothing else into the cache.    *)
LEMMA FillNoPhantoms ==
    ASSUME NoPhantoms, UNCHANGED backend, NEW p, NEW T \in SUBSET backend,
           NEW evictable, NEW replace, Fill(p, T, evictable, replace)
    PROVE  NoPhantoms'
BY DEF NoPhantoms, Fill

(* A fill that is not to blame keeps what the other patterns have in the   *)
(* cache, and brings all the backend has of its own pattern.               *)
LEMMA FillComplete ==
    ASSUME CacheComplete, UNCHANGED <<backend, adding>>, NEW p,
           stage = "commit" => stage' = "commit" /\ todo' = todo \ {p},
           NEW T, NEW evictable, NEW replace, Fill(p, T, evictable, replace)
    PROVE  CacheComplete'
<1> DEFINE V == Victims(p, T, evictable, replace)
<1> SUFFICES ASSUME blame' = {}, NEW q \in patterns', NEW t \in Matching(backend, q)
             PROVE  t \in cache' \/ (stage' = "commit" /\ q \in todo' /\ t \in adding)
  BY DEF CacheComplete, Matching
<1>1. /\ cache' = (cache \ MatchingAny(cache, V \cup {p})) \cup T
      /\ patterns' = (patterns \ (V \cup {p})) \cup {p}
      /\ blame' = blame \cup BlameShared(V) \cup BlamePartial(p, T)
  BY DEF Fill, KeepPatterns
<1>2. blame = {} /\ ~Shared(V) /\ T = Matching(backend, p)
  BY <1>1 DEF BlameShared, BlamePartial
<1> HIDE DEF V
<1>3. CASE q = p
  BY <1>1, <1>2, <1>3
<1>4. CASE q # p
  <2>1. q \in patterns \ V
    BY <1>1, <1>4
  <2>2. t \in cache \/ (stage' = "commit" /\ q \in todo' /\ t \in adding)
    BY <1>2, <1>4, <2>1 DEF CacheComplete
  <2>3. CASE t \in cache
    <3>1. t \notin MatchingAny(cache, V)
      BY <1>2, <2>1, <2>3, UnsharedSurvive DEF Matching
    <3>2. t \in Matching(cache, p) => t \in T
      BY <1>2 DEF Matching
    <3> QED
      BY <1>1, <2>3, <3>1, <3>2 DEF MatchingAny
  <2> QED
    BY <2>2, <2>3
<1> QED
  BY <1>3, <1>4
-----------------------------------------------------------------------------
(* The size of the cache *)

(* Of finitely many dates one is the oldest.                               *)
LEMMA OldestPattern ==
    ASSUME DatesOrdered, IsFiniteSet(patterns), NEW P \in SUBSET patterns, P # {}
    PROVE  \E q \in P : \A r \in P : <<r, q>> \notin older
<1> DEFINE B == {Before(q, patterns) : q \in P}
           R == StrictSubsetOrdering(patterns)
<1>1. B \subseteq SUBSET patterns /\ B # {}
  BY DEF Before
<1>2. \E x \in B : \A y \in B : <<y, x>> \notin R
  <2>1. IsWellFoundedOn(R, SUBSET patterns)
    BY FS_StrictSubsetOrderingWellFounded, FS_FiniteSubsetsOfFinite
  <2> HIDE DEF B, R
  <2> QED
    BY <1>1, <2>1, WFMin
<1>3. PICK q \in P : \A r \in P : <<Before(r, patterns), Before(q, patterns)>> \notin R
  BY <1>2
<1>4. ASSUME NEW r \in P, <<r, q>> \in older
      PROVE  <<Before(r, patterns), Before(q, patterns)>> \in R
  BY <1>4 DEF StrictSubsetOrdering, Before, DatesOrdered
<1> QED
  BY <1>3, <1>4

(* What finitely many patterns bring is a number, and more patterns bring  *)
(* no less.                                                                *)
LEMMA FreedMonotone ==
    ASSUME IsFiniteSet(cache), NEW Q, IsFiniteSet(Q), NEW P \in SUBSET Q
    PROVE  Freed(P) \in Nat /\ Freed(Q) \in Nat /\ Freed(P) <= Freed(Q)
<1>1. IsFiniteSet(Counted(Q))
  BY FS_Product, FS_Subset DEF Counted
<1>2. Counted(P) \subseteq Counted(Q)
  BY DEF Counted
<1> QED
  BY <1>1, <1>2, FS_Subset, FS_CardinalityType DEF Freed

(* Patterns without common triples bring as many as they match.            *)
LEMMA FreedUnshared ==
    ASSUME IsFiniteSet(cache), NEW p, NEW P \in SUBSET (patterns \cup {p}),
           IsFiniteSet(P), ~Shared(P)
    PROVE  Freed(P) = Cardinality(MatchingAny(cache, P))
<1> DEFINE f == [c \in Counted(P) |-> c[2]]
           M == MatchingAny(cache, P)
<1>1. IsFiniteSet(Counted(P))
  BY FS_Product, FS_Subset DEF Counted
<1>2. f \in [Counted(P) -> M] /\ \A t \in M : \E c \in Counted(P) : f[c] = t
  <2>1. ASSUME NEW c \in Counted(P)
        PROVE  c[2] \in M
    BY DEF Counted, MatchingAny, Matching
  <2>2. ASSUME NEW t \in M
        PROVE  \E c \in Counted(P) : c[2] = t
    <3>1. PICK q \in P : t \in cache /\ IsSubPattern(t, q)
      BY DEF MatchingAny, Matching
    <3>2. <<q, t>> \in Counted(P)
      BY <3>1 DEF Counted
    <3> QED
      BY <3>2
  <2> QED
    BY <2>1, <2>2
<1>3. ASSUME NEW c \in Counted(P), NEW d \in Counted(P), f[c] = f[d]
      PROVE  c = d
  <2>1. c = <<c[1], c[2]>> /\ d = <<d[1], d[2]>> /\ c[2] = d[2] /\ c[1] \in P /\ d[1] \in P
    BY <1>3 DEF Counted
  <2>2. c[1] # d[1] => c[2] \in Matching(cache, c[1]) \cap Matching(cache, d[1])
    BY <2>1 DEF Counted, Matching
  <2> QED
    BY <2>1, <2>2 DEF Shared
<1>4. f \in Bijection(Counted(P), M)
  BY <1>2, <1>3 DEF Bijection, Injection, Surjection, IsInjective
<1> QED
  BY <1>1, <1>4, FS_Bijection DEF ExistsBijection, Freed
(* When the triples fit, what is evicted for them brings enough: a pattern *)
(* stays only if those before it bring enough already.                     *)
LEMMA VictimsBringEnough ==
    ASSUME DatesOrdered, IsFiniteSet(patterns), IsFiniteSet(cache),
           NEW p, NEW T, IsFiniteSet(T), NEW evictable, NEW replace,
           Fits(p, T, evictable, replace), ~HasRoom(T)
    PROVE  Freed(Victims(p, T, evictable, replace)) >= Cardinality(T)
<1> DEFINE always  == Always(p, replace)
           further == Further(p, evictable, replace)
           n == Cardinality(T)
           early(q) == always \cup Before(q, further)
           taken == {q \in further : Freed(early(q)) < n}
<1>1. IsFiniteSet(always \cup further)
  <2>1. always \cup further \subseteq patterns \cup {p}
    BY DEF Always, Further
  <2> QED
    BY <2>1, FS_AddElement, FS_Subset
<1>2. /\ n = Cardinality(T) /\ n \in Nat /\ Freed(always \cup further) >= n
      /\ Victims(p, T, evictable, replace) = always \cup taken
  BY FS_CardinalityType DEF Fits, Victims
<1>3. further \subseteq patterns
  BY DEF Further
<1> HIDE DEF always, further, n
<1>4. CASE taken = further
  BY <1>2, <1>4
<1>5. CASE taken # further
  <2>1. PICK q \in further \ taken : \A r \in further \ taken : <<r, q>> \notin older
    BY <1>3, <1>5, OldestPattern
  <2>2. Before(q, further) \subseteq taken
    BY <2>1 DEF Before
  <2>3. \A P \in SUBSET (always \cup further) : Freed(P) \in Nat
    <3> TAKE P \in SUBSET (always \cup further)
    <3> QED
      BY <1>1, FreedMonotone
  <2>4. early(q) \in SUBSET (always \cup taken) /\ always \cup taken \in SUBSET (always \cup further)
    BY <2>2
  <2>5. IsFiniteSet(always \cup taken)
    BY <1>1, <2>4, FS_Subset
  <2>6. Freed(early(q)) <= Freed(always \cup taken) /\ Freed(early(q)) \in Nat
        /\ Freed(always \cup taken) \in Nat
    BY <2>4, <2>5, FreedMonotone
  <2>7. ~(Freed(early(q)) < n)
    BY <2>1
  <2> QED
    BY <1>2, <2>6, <2>7
<1> QED
  BY <1>4, <1>5

(* A fill that evicts no pattern with common triples keeps the size.       *)
LEMMA FillSize ==
    ASSUME TypeOK, Finite, WithinSize, NEW p, NEW T, IsFiniteSet(T),
           NEW evictable, NEW replace,
           Fits(p, T, evictable, replace), Fill(p, T, evictable, replace)
    PROVE  WithinSize'
<1> DEFINE V == Victims(p, T, evictable, replace)
           M == MatchingAny(cache, V)
<1> SUFFICES ASSUME "shared" \notin blame'
             PROVE  Cardinality(cache') <= Size
  BY DEF WithinSize
<1>1. /\ cache' = (cache \ MatchingAny(cache, V \cup {p})) \cup T
      /\ blame' = blame \cup BlameShared(V) \cup BlamePartial(p, T)
  BY DEF Fill
<1>2. /\ Cardinality(cache) \in Nat /\ Cardinality(cache) <= Size
      /\ Size \in Nat /\ Cardinality(T) \in Nat
  BY <1>1, FS_CardinalityType, CacheAssumption DEF WithinSize, Finite
<1>3. V \subseteq patterns \cup {p} /\ IsFiniteSet(V) /\ ~Shared(V)
  <2>1. V \subseteq patterns \cup {p}
    BY VictimsCached
  <2> QED
    BY <1>1, <2>1, FS_AddElement, FS_Subset DEF Finite, BlameShared
<1>4. /\ cache' \subseteq (cache \ M) \cup T /\ M \subseteq cache
  BY <1>1 DEF MatchingAny, Matching
<1>5. /\ IsFiniteSet(M) /\ IsFiniteSet(cache \ M) /\ Cardinality(M) \in Nat
      /\ Cardinality(cache \ M) = Cardinality(cache) - Cardinality(M)
  <2>1. cache \cap M = M /\ M \in SUBSET cache /\ IsFiniteSet(cache)
    BY <1>4 DEF Finite
  <2> HIDE DEF M
  <2>2. IsFiniteSet(M) /\ Cardinality(M) \in Nat
    BY <2>1, FS_Subset, FS_CardinalityType
  <2>3. /\ IsFiniteSet(cache \ M)
        /\ Cardinality(cache \ M) = Cardinality(cache) - Cardinality(cache \cap M)
    BY <2>1, FS_Difference
  <2> QED
    BY <2>1, <2>2, <2>3
<1>6. /\ Cardinality(cache') \in Nat
      /\ Cardinality(cache') <= Cardinality(cache \ M) + Cardinality(T)
  <2>1. /\ IsFiniteSet((cache \ M) \cup T) /\ IsFiniteSet((cache \ M) \cap T)
        /\ Cardinality((cache \ M) \cup T) = Cardinality(cache \ M) + Cardinality(T)
                                                - Cardinality((cache \ M) \cap T)
    BY <1>5, FS_Union, FS_Intersection
  <2>2. /\ Cardinality((cache \ M) \cap T) \in Nat /\ Cardinality(cache \ M) \in Nat
        /\ IsFiniteSet(cache') /\ Cardinality(cache') \in Nat
        /\ Cardinality(cache') <= Cardinality((cache \ M) \cup T)
    BY <1>4, <1>5, <2>1, FS_Subset, FS_CardinalityType
  <2> QED
    BY <1>2, <2>1, <2>2
<1>7. CASE HasRoom(T)
  <2>1. V = {}
    BY <1>7 DEF Victims
  <2>2. M = {}
    BY <2>1 DEF MatchingAny
  <2>3. Cardinality(cache \ M) = Cardinality(cache)
    BY <2>2
  <2> QED
    BY <1>2, <1>6, <1>7, <2>3 DEF HasRoom
<1>8. CASE ~HasRoom(T)
  <2>1. Freed(V) >= Cardinality(T)
    BY <1>8, VictimsBringEnough DEF TypeOK, Finite
  <2>2. Freed(V) = Cardinality(M)
    BY <1>3, FreedUnshared DEF Finite
  <2> HIDE DEF V, M
  <2> QED
    BY <1>2, <1>5, <1>6, <2>1, <2>2
<1> QED
  BY <1>7, <1>8
-----------------------------------------------------------------------------
(* The invariant *)

(* The cache of an opened driver satisfies the invariant.                  *)
LEMMA InitInv == Init => Inv
<1> SUFFICES ASSUME Init
             PROVE  Inv
  OBVIOUS
<1>1. IsFiniteSet(cache) /\ IsFiniteSet(patterns) /\ IsFiniteSet(adding) /\ Cardinality(cache) = 0
  BY FS_EmptySet DEF Init
<1>2. backend \subseteq Triple /\ IsFiniteSet(backend)
  BY CacheAssumption DEF Init
<1>3. TypeOK
  BY <1>2 DEF Init, TypeOK, DatesOrdered
<1>4. WithinSize
  BY <1>1, CacheAssumption DEF WithinSize
<1> QED
  BY <1>1, <1>2, <1>3, <1>4 DEF Init, Inv, Finite, CommitApplied, NoPhantoms, CacheComplete,
     NothingUnevictable

(* The triples of a pattern in a graph: a finite part of it.               *)
LEMMA MatchingPart ==
    ASSUME NEW G, IsFiniteSet(G), NEW p
    PROVE  /\ Matching(G, p) \in SUBSET G /\ IsFiniteSet(Matching(G, p))
           /\ \A t \in Matching(G, p) : IsSubPattern(t, p)
<1>1. Matching(G, p) \in SUBSET G /\ \A t \in Matching(G, p) : IsSubPattern(t, p)
  BY DEF Matching
<1> QED
  BY <1>1, FS_Subset

(* A fill with all or some of the triples that the backend has of a        *)
(* pattern preserves all that the invariant says of the cache.             *)
LEMMA FillInv ==
    ASSUME Inv, UNCHANGED <<backend, adding>>,
           NEW p \in Pattern, NEW T \in SUBSET backend, IsFiniteSet(T),
           \A t \in T : IsSubPattern(t, p), NEW evictable, NEW replace,
           Fits(p, T, evictable, replace), Fill(p, T, evictable, replace),
           stage = "commit" => stage' = "commit" /\ todo' = todo \ {p}
    PROVE  /\ cache' \subseteq Triple /\ patterns' \subseteq Pattern /\ DatesOrdered'
           /\ blame' \subseteq {"shared", "partial", "emptied", "outdated"}
           /\ Finite' /\ NoPhantoms' /\ CacheComplete' /\ NothingUnevictable' /\ WithinSize'
<1>1. T \in SUBSET Triple
  BY DEF Inv, TypeOK
<1>2. /\ cache' \subseteq Triple /\ IsFiniteSet(cache')
      /\ patterns' \subseteq Pattern /\ DatesOrdered' /\ IsFiniteSet(patterns')
      /\ blame' \subseteq {"shared", "partial", "emptied", "outdated"}
  BY <1>1, FillTypes DEF Inv
<1>3. NothingUnevictable'
  BY FillEvictable DEF Inv
<1>4. NoPhantoms'
  BY FillNoPhantoms DEF Inv
<1>5. CacheComplete'
  BY FillComplete DEF Inv
<1>6. WithinSize'
  BY FillSize DEF Inv
<1> QED
  BY <1>2, <1>3, <1>4, <1>5, <1>6 DEF Inv, Finite

(* A query that misses, with its fill or without.                          *)
LEMMA QueryInv == ASSUME Inv, NEW item \in Queries, Query(item) PROVE Inv'
<1> DEFINE p == IF item[1] = None THEN item ELSE <<item[1], None, None>>
           T == Matching(backend, p)
<1>1. item \in Pattern /\ p \in Pattern /\ item[1] \in Subject \cup {None}
  BY CacheAssumption DEF Pattern
<1>2. T \in SUBSET backend /\ IsFiniteSet(T) /\ \A t \in T : IsSubPattern(t, p)
  BY MatchingPart DEF Inv, Finite
<1>3. /\ stage = "idle" /\ UNCHANGED <<backend, buffers, todo>>
      /\ stage' \in {"idle", "prefetch"} /\ subject' \in Subject \cup {None} /\ rounds' \in 0..3
      /\ since' \subseteq Pattern
      /\ \/ Fits(p, T, patterns, TRUE) /\ Fill(p, T, patterns, TRUE)
         \/ UNCHANGED <<contents, blame>>
  <2>1. /\ stage = "idle" /\ UNCHANGED <<backend, buffers, todo>>
        /\ IF Fits(p, T, patterns, TRUE)
           THEN Fill(p, T, patterns, TRUE) /\ since' = {p}
           ELSE UNCHANGED <<contents, blame>> /\ since' = {}
        /\ IF item[1] # None
           THEN stage' = "prefetch" /\ subject' = item[1] /\ rounds' = 3
           ELSE UNCHANGED <<stage, subject, rounds>>
    BY DEF Query
  <2> HIDE DEF p, T
  <2>2. subject \in Subject \cup {None} /\ rounds \in 0..3
    BY DEF Inv, TypeOK
  <2>3. /\ stage' \in {"idle", "prefetch"}
        /\ subject' \in Subject \cup {None} /\ rounds' \in 0..3
    BY <1>1, <2>1, <2>2
  <2>4. since' \subseteq Pattern
    BY <1>1, <2>1
  <2>5. \/ Fits(p, T, patterns, TRUE) /\ Fill(p, T, patterns, TRUE)
        \/ UNCHANGED <<contents, blame>>
    BY <2>1
  <2> QED
    BY <2>1, <2>3, <2>4, <2>5
<1> HIDE DEF p, T
<1>4. CASE Fits(p, T, patterns, TRUE) /\ Fill(p, T, patterns, TRUE)
  <2>1. /\ cache' \subseteq Triple /\ patterns' \subseteq Pattern /\ DatesOrdered'
        /\ blame' \subseteq {"shared", "partial", "emptied", "outdated"}
        /\ Finite' /\ NoPhantoms' /\ CacheComplete' /\ NothingUnevictable' /\ WithinSize'
    BY <1>1, <1>2, <1>3, <1>4, FillInv DEF buffers
  <2> QED
    BY <1>3, <2>1 DEF Inv, TypeOK, CommitApplied, buffers
<1>5. CASE UNCHANGED <<contents, blame>>
  BY <1>3, <1>5 DEF Inv, TypeOK, DatesOrdered, Finite, CommitApplied, NoPhantoms, CacheComplete,
     NothingUnevictable, WithinSize, Matching, buffers, contents
<1> QED
  BY <1>3, <1>4, <1>5
(* A query of the prefetch picks subjects of the backend.                  *)
LEMMA PrefetchQueryInv == ASSUME Inv, PrefetchQuery PROVE Inv'
<1>1. Related(subject, rounds) \subseteq Subject
  BY DEF Related, SubjectsOf, Inv, TypeOK, Triple
<1>2. {PatternOf(s) : s \in Related(subject, rounds)} \subseteq Pattern
  BY <1>1 DEF PatternOf, Pattern
<1>3. /\ stage = "prefetch" /\ rounds > 0 /\ rounds' = rounds - 1
      /\ todo' \subseteq {PatternOf(s) : s \in Related(subject, rounds)}
      /\ UNCHANGED <<backend, buffers, contents, stage, since, subject, blame>>
  BY DEF PrefetchQuery
<1> QED
  BY <1>2, <1>3 DEF Inv, TypeOK, DatesOrdered, Finite, CommitApplied, NoPhantoms, CacheComplete,
     NothingUnevictable, WithinSize, Matching, buffers, contents

(* A fill of the prefetch. *)
LEMMA PrefetchFillInv == ASSUME Inv, PrefetchFill PROVE Inv'
<1>1. PICK p \in todo :
        /\ Fits(p, Matching(backend, p), patterns, TRUE)
        /\ Fill(p, Matching(backend, p), patterns, TRUE)
        /\ todo' = todo \ {p} /\ since' = since \cup {p}
  BY DEF PrefetchFill
<1>2. stage = "prefetch" /\ UNCHANGED <<backend, buffers, stage, subject, rounds>>
  BY DEF PrefetchFill
<1>3. p \in Pattern /\ UNCHANGED <<adding, removing>>
  BY <1>2 DEF Inv, TypeOK, buffers
<1>4. /\ Matching(backend, p) \in SUBSET backend /\ IsFiniteSet(Matching(backend, p))
      /\ \A t \in Matching(backend, p) : IsSubPattern(t, p)
  BY MatchingPart DEF Inv, Finite
<1>5. /\ cache' \subseteq Triple /\ patterns' \subseteq Pattern /\ DatesOrdered'
      /\ blame' \subseteq {"shared", "partial", "emptied", "outdated"}
      /\ Finite' /\ NoPhantoms' /\ CacheComplete' /\ NothingUnevictable' /\ WithinSize'
  BY <1>1, <1>2, <1>3, <1>4, FillInv
<1> QED
  BY <1>1, <1>2, <1>3, <1>5 DEF Inv, TypeOK, CommitApplied

(* The commit of the buffers to the backend: what is removed leaves the    *)
(* cache, what is added is still to be cached.                             *)
LEMMA CommitInv == ASSUME Inv, Commit PROVE Inv'
<1>1. /\ backend' = (backend \ removing) \cup adding /\ cache' = cache \ removing
      /\ todo' = {p \in patterns : Matching(adding, p) # {}}
      /\ stage' = "commit" /\ since' = {}
      /\ UNCHANGED <<adding, removing, patterns, older, subject, rounds, blame>>
  BY DEF Commit, buffers
<1>2. IsFiniteSet(backend') /\ IsFiniteSet(cache')
  BY <1>1, FS_Difference, FS_Union DEF Inv, Finite
<1>3. TypeOK'
  BY <1>1 DEF Inv, TypeOK, DatesOrdered
<1>4. Finite' /\ CommitApplied' /\ NoPhantoms' /\ NothingUnevictable'
  BY <1>1, <1>2 DEF Inv, Finite, CommitApplied, NoPhantoms, NothingUnevictable
<1>5. CacheComplete'
  BY <1>1 DEF Inv, CommitApplied, CacheComplete, Matching
<1>6. WithinSize'
  <2>1. cache' \in SUBSET cache
    BY <1>1
  <2>2. /\ Cardinality(cache') <= Cardinality(cache) /\ Cardinality(cache') \in Nat
        /\ Cardinality(cache) \in Nat
    BY <1>2, <2>1, FS_Subset, FS_CardinalityType DEF Inv, Finite
  <2> QED
    BY <1>1, <2>2, CacheAssumption DEF Inv, WithinSize
<1> QED
  BY <1>3, <1>4, <1>5, <1>6 DEF Inv

(* The commit comes to a cached pattern: its added triples are cached, or  *)
(* it is dropped for want of space.                                        *)
LEMMA CommitFillInv == ASSUME Inv, CommitFill PROVE Inv'
<1> DEFINE T(p) == Matching(adding, p)
           evictable == patterns \ since
<1>1. PICK p \in todo :
        /\ IF Fits(p, T(p), evictable, FALSE)
           THEN Fill(p, T(p), evictable, FALSE) /\ since' = since \cup {p}
           ELSE /\ cache' = cache \ Matching(cache, p)
                /\ KeepPatterns(patterns \ {p}, {})
                /\ blame' = blame \cup BlameShared({p})
                /\ UNCHANGED since
        /\ todo' = todo \ {p}
  BY DEF CommitFill
<1>2. stage = "commit" /\ UNCHANGED <<backend, adding, removing, stage, subject, rounds>>
  BY DEF CommitFill, buffers
<1>3. p \in Pattern
  BY DEF Inv, TypeOK
<1>4. /\ T(p) \in SUBSET backend /\ IsFiniteSet(T(p)) /\ \A t \in T(p) : IsSubPattern(t, p)
  BY <1>2, MatchingPart DEF Inv, Finite, CommitApplied
<1> HIDE DEF T, evictable
<1>5. CASE Fits(p, T(p), evictable, FALSE) /\ Fill(p, T(p), evictable, FALSE)
  <2>1. /\ cache' \subseteq Triple /\ patterns' \subseteq Pattern /\ DatesOrdered'
        /\ blame' \subseteq {"shared", "partial", "emptied", "outdated"}
        /\ Finite' /\ NoPhantoms' /\ CacheComplete' /\ NothingUnevictable' /\ WithinSize'
    BY <1>1, <1>2, <1>3, <1>4, <1>5, FillInv
  <2>2. since' \subseteq Pattern
    BY <1>1, <1>3 DEF Inv, TypeOK
  <2> QED
    BY <1>1, <1>2, <1>3, <2>1, <2>2 DEF Inv, TypeOK, CommitApplied
<1>6. CASE ~Fits(p, T(p), evictable, FALSE)
  <2>1. /\ cache' = cache \ Matching(cache, p) /\ KeepPatterns(patterns \ {p}, {})
        /\ blame' = blame \cup BlameShared({p}) /\ UNCHANGED since
    BY <1>1, <1>6
  <2>2. patterns' = patterns \ {p} /\ DatesOrdered'
    BY <2>1 DEF KeepPatterns, DatesOrdered, Inv, TypeOK
  <2>3. IsFiniteSet(cache') /\ IsFiniteSet(patterns')
    BY <2>1, <2>2, FS_Difference DEF Inv, Finite
  <2>4. TypeOK' /\ Finite' /\ CommitApplied' /\ NoPhantoms'
    BY <1>1, <1>2, <2>1, <2>2, <2>3 DEF Inv, TypeOK, Finite, CommitApplied, NoPhantoms, BlameShared
  <2>5. NothingUnevictable'
    BY <2>1, <2>2 DEF Inv, NothingUnevictable, Matching
  <2>6. CacheComplete'
    <3> SUFFICES ASSUME blame' = {}, NEW q \in patterns', NEW t \in Matching(backend, q)
                 PROVE  t \in cache' \/ (stage' = "commit" /\ q \in todo' /\ t \in adding)
      BY <1>2 DEF CacheComplete, Matching
    <3>1. blame = {} /\ ~Shared({p}) /\ q \in patterns \ {p}
      BY <2>1, <2>2 DEF BlameShared
    <3>2. t \in cache \/ (stage' = "commit" /\ q \in todo' /\ t \in adding)
      BY <1>1, <1>2, <3>1 DEF Inv, CacheComplete
    <3>3. t \in cache => t \notin Matching(cache, p)
      BY <3>1, UnsharedSurvive DEF Matching, MatchingAny
    <3> QED
      BY <2>1, <3>2, <3>3
  <2>7. WithinSize'
    <3>1. cache' \in SUBSET cache
      BY <2>1
    <3>2. /\ Cardinality(cache') <= Cardinality(cache) /\ Cardinality(cache') \in Nat
          /\ Cardinality(cache) \in Nat
      BY <2>3, <3>1, FS_Subset, FS_CardinalityType DEF Inv, Finite
    <3> QED
      BY <2>1, <3>2, CacheAssumption DEF Inv, WithinSize
  <2> QED
    BY <2>4, <2>5, <2>6, <2>7 DEF Inv
<1> QED
  BY <1>1, <1>5, <1>6
(* The operations that leave the cache and its patterns alone. *)
LEMMA OtherInv ==
    ASSUME Inv, UNCHANGED contents, TypeOK', IsFiniteSet(backend'), IsFiniteSet(adding'),
           stage' = "commit" => FALSE,
           \/ blame' = blame /\ UNCHANGED backend /\ (stage = "commit" => todo = {})
           \/ blame' = blame \cup {"outdated"}
    PROVE  Inv'
<1>1. Finite' /\ CommitApplied' /\ NothingUnevictable'
  BY DEF Inv, Finite, CommitApplied, NothingUnevictable, contents
<1>2. WithinSize' /\ NoPhantoms'
  BY DEF Inv, WithinSize, NoPhantoms, contents
<1>3. CacheComplete'
  BY DEF Inv, CacheComplete, contents, Matching
<1> QED
  BY <1>1, <1>2, <1>3 DEF Inv

(* The driver is closed and opened again: no triples, the same patterns.   *)
LEMMA ReopenInv == ASSUME Inv, Reopen PROVE Inv'
<1>1. IsFiniteSet(cache') /\ IsFiniteSet(adding') /\ Cardinality(cache') = 0
  BY FS_EmptySet DEF Reopen
<1>2. TypeOK' /\ Finite' /\ CommitApplied'
  BY <1>1 DEF Reopen, Inv, TypeOK, DatesOrdered, Finite, CommitApplied, prefetch
<1>3. NoPhantoms' /\ CacheComplete' /\ NothingUnevictable' /\ WithinSize'
  BY <1>1, CacheAssumption
     DEF Reopen, Inv, NoPhantoms, CacheComplete, NothingUnevictable, WithinSize
<1> QED
  BY <1>2, <1>3 DEF Inv

(* Every step preserves the invariant. *)
LEMMA NextInv == Inv /\ [Next]_vars => Inv'
<1> SUFFICES ASSUME Inv, [Next]_vars
             PROVE  Inv'
  OBVIOUS
<1> USE DEF buffers, contents, prefetch
<1>0. TypeOK /\ IsFiniteSet(backend) /\ IsFiniteSet(adding)
  BY DEF Inv, Finite
<1>1. ASSUME NEW item \in Queries, Query(item)
      PROVE  Inv'
  BY <1>1, QueryInv
<1>2. CASE PrefetchQuery
  BY <1>2, PrefetchQueryInv
<1>3. CASE PrefetchFill
  BY <1>3, PrefetchFillInv
<1>4. CASE PrefetchRaise \/ PrefetchEnd
  <2>1. /\ stage = "prefetch" /\ stage' = "idle" /\ todo' = {} /\ rounds' = 0 /\ subject' = None
        /\ since' = {} /\ UNCHANGED <<backend, buffers, contents, blame>>
    BY <1>4 DEF PrefetchRaise, PrefetchEnd
  <2>2. TypeOK'
    BY <1>0, <2>1 DEF TypeOK, DatesOrdered
  <2> QED
    BY <1>0, <2>1, <2>2, OtherInv
<1>5. ASSUME NEW t \in Additions, AddTriple(t)
      PROVE  Inv'
  <2>1. TypeOK'
    BY <1>0, <1>5, CacheAssumption DEF AddTriple, TypeOK, DatesOrdered
  <2>2. IsFiniteSet(adding')
    BY <1>0, <1>5, FS_AddElement DEF AddTriple
  <2> QED
    BY <1>0, <1>5, <2>1, <2>2, OtherInv DEF AddTriple
<1>6. ASSUME NEW p \in Removals, RemoveMatching(p)
      PROVE  Inv'
  <2>1. TypeOK'
    BY <1>0, <1>6 DEF RemoveMatching, TypeOK, DatesOrdered, Matching
  <2>2. IsFiniteSet(adding')
    BY <1>0, <1>6, FS_Difference DEF RemoveMatching
  <2> QED
    BY <1>0, <1>6, <2>1, <2>2, OtherInv DEF RemoveMatching
<1>7. CASE Commit
  BY <1>7, CommitInv
<1>8. CASE CommitFill
  BY <1>8, CommitFillInv
<1>9. CASE CommitEnd \/ Rollback
  <2>1. TypeOK' /\ IsFiniteSet(adding')
    BY <1>0, <1>9, FS_EmptySet DEF CommitEnd, Rollback, TypeOK, DatesOrdered
  <2> QED
    BY <1>0, <1>9, <2>1, OtherInv DEF CommitEnd, Rollback
<1>10. CASE CommitRaise
  <2>1. TypeOK'
    BY <1>0, <1>10 DEF CommitRaise, TypeOK, DatesOrdered
  <2>2. IsFiniteSet(backend')
    BY <1>0, <1>10, FS_Difference, FS_Union DEF CommitRaise
  <2> QED
    BY <1>0, <1>10, <2>1, <2>2, OtherInv DEF CommitRaise
<1>11. ASSUME NEW T \in Backends, Compute(T)
       PROVE  Inv'
  <2>1. TypeOK' /\ IsFiniteSet(backend')
    BY <1>0, <1>11, CacheAssumption DEF Compute, TypeOK, DatesOrdered
  <2> QED
    BY <1>0, <1>11, <2>1, OtherInv DEF Compute
<1>12. CASE Reopen
  BY <1>12, ReopenInv
<1>13. CASE UNCHANGED vars
  BY <1>13 DEF vars, Inv, TypeOK, DatesOrdered, Finite, CommitApplied, NoPhantoms, CacheComplete,
     NothingUnevictable, WithinSize, Matching
<1> QED
  BY <1>1, <1>2, <1>3, <1>4, <1>5, <1>6, <1>7, <1>8, <1>9, <1>10, <1>11, <1>12, <1>13 DEF Next

(* The cache satisfies the invariant after any sequence of operations.     *)
LEMMA Invariance == Spec => []Inv
BY InitInv, NextInv, PTL DEF Spec

(* Every cached triple belongs to a cached pattern and can be evicted, the *)
(* patterns have dates of their own, and the cache keeps its size as long  *)
(* as `_fill' has not counted a triple for two patterns.                   *)
THEOREM CacheStaysConsistent == Spec => []CacheConsistent
<1>1. Inv => CacheConsistent
  BY DEF Inv, CacheConsistent
<1> QED
  BY <1>1, Invariance, PTL

(* The cache never has a triple that the backend has not, unless the       *)
(* backend was changed without a word to the cache.                        *)
THEOREM NothingInvented == Spec => []NoPhantoms
<1>1. Inv => NoPhantoms
  BY DEF Inv
<1> QED
  BY <1>1, Invariance, PTL

(* Between two operations the cache has all that the backend has of a      *)
(* cached pattern and nothing else, and so also of its sub-patterns.       *)
LEMMA InvReadsExact == Inv => CachedReadsExact
<1> SUFFICES ASSUME Inv, stage = "idle", blame = {}, NEW item \in Pattern, Cached(item)
             PROVE  Matching(cache, item) = Matching(backend, item)
  BY DEF CachedReadsExact
<1>1. PICK q \in patterns : IsSubPattern(item, q)
  BY DEF Cached, Generalisations
<1>2. cache \subseteq backend
  BY DEF Inv, NoPhantoms
<1>3. ASSUME NEW t \in backend, IsSubPattern(t, item)
      PROVE  t \in cache
  <2>1. t \in Matching(backend, q)
    BY <1>1, <1>3, SubPatternTransitive DEF Matching
  <2> QED
    BY <2>1 DEF Inv, CacheComplete
<1> QED
  BY <1>2, <1>3 DEF Matching

(* What a session reads from the cache is what the backend would answer,   *)
(* as long as nothing has spoiled the cache.                               *)
THEOREM CacheIsTransparent == Spec => []CachedReadsExact
BY InvReadsExact, Invariance, PTL
=============================================================================
