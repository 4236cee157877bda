------------------------------ MODULE TripleCache ------------------------------
(***************************************************************************)
(* The triple cache of InterfaceDriver (Interface.cache = True): which     *)
(* patterns are cached, how a miss fills the cache and evicts the oldest   *)
(* patterns, how it fetches related subjects ahead, and how a commit       *)
(* reflects its changes in the cache.                                      *)
(*                                                                         *)
(* Base graph and interface are one backend here, and the two pairs of     *)
(* buffers are one (InterfaceDriver models them).  Of the dates of the     *)
(* cached patterns only their order counts: <<q, r>> \in older when q was  *)
(* filled before r.                                                        *)
(*                                                                         *)
(* The code has several ways to spoil its own cache.  The history variable *)
(* `blame' records which of them have happened, so that the properties can *)
(* say what holds until then:                                              *)
(*   "shared"    a pattern was evicted that had a cached triple in common  *)
(*               with another one: the triple is gone for both, and it was *)
(*               counted for both;                                         *)
(*   "partial"   a commit cached the added triples of a pattern alone;     *)
(*   "emptied"   the driver was closed and opened again;                   *)
(*   "outdated"  the backend changed without a word to the cache.          *)
(***************************************************************************)
EXTENDS Triples, FiniteSets

CONSTANTS Size,         \* _cache_size
          Backends,     \* the contents the backend may have at first
          Queries,      \* the patterns the session asks for
          Additions,    \* the triples the session adds
          Removals      \* the patterns the session removes

ASSUME CacheAssumption ==
    /\ Size \in Nat
    /\ Backends \subseteq SUBSET Triple
    /\ \A T \in Backends : IsFiniteSet(T)
    /\ Queries \subseteq Pattern
    /\ Additions \subseteq Triple
    /\ Removals \subseteq Pattern

VARIABLES backend,            \* base graph and interface
          adding, removing,   \* the buffers of the driver
          cache,              \* _cache
          patterns, older,    \* _cached_patterns and the order of its dates
          stage, todo,        \* control: what is left to fill
          since,              \* the patterns filled since the call began
          subject, rounds,    \* the prefetch: its subject and queries left
          blame               \* how the cache was spoiled (history)

buffers  == <<adding, removing>>
contents == <<cache, patterns, older>>
prefetch == <<since, subject, rounds>>
vars     == <<backend, buffers, contents, stage, todo, prefetch, blame>>

Generalisations(p) == {q \in Pattern : IsSubPattern(p, q)}
MatchingAny(T, P) == UNION {Matching(T, p) : p \in P}

(* How many cached triples the patterns P bring, pattern by pattern: a     *)
(* triple of two patterns is counted twice.                                *)
Counted(P) == {c \in P \X cache : IsSubPattern(c[2], c[1])}
Freed(P)   == Cardinality(Counted(P))

(* `_cached': some generalisation of the pattern has been cached. *)
Cached(p) == Generalisations(p) \cap patterns # {}

-----------------------------------------------------------------------------
(* `_fill': the patterns that give way to the triples T of pattern p are   *)
(* the sub-patterns of p and, if p is replaced, p itself, and then as many *)
(* of the patterns `evictable', oldest first, as bring enough triples: a   *)
(* pattern goes when those before it do not bring enough.                  *)
Always(p, replace) ==
    {q \in patterns \ {p} : IsSubPattern(q, p)} \cup IF replace THEN {p} ELSE {}

Further(p, evictable, replace) == (patterns \cap evictable) \ Always(p, replace)

Before(q, P) == {r \in P : <<r, q>> \in older}

HasRoom(T) == Cardinality(T) <= Size - Cardinality(cache)

Fits(p, T, evictable, replace) ==
    /\ Cardinality(T) <= Size
    /\ \/ HasRoom(T)
       \/ Freed(Always(p, replace) \cup Further(p, evictable, replace)) >= Cardinality(T)

Victims(p, T, evictable, replace) ==
    LET always  == Always(p, replace)
        further == Further(p, evictable, replace)
    IN IF HasRoom(T) THEN {}
       ELSE always \cup {q \in further :
                            Freed(always \cup Before(q, further)) < Cardinality(T)}

Shared(P) ==
    \E q \in P, r \in patterns :
        q # r /\ Matching(cache, q) \cap Matching(cache, r) # {}

BlameShared(P) == IF Shared(P) THEN {"shared"} ELSE {}
BlamePartial(p, T) == IF T # Matching(backend, p) THEN {"partial"} ELSE {}

(* The patterns `kept' stay in the order of their dates, before those of   *)
(* the set `new'.                                                          *)
KeepPatterns(kept, new) ==
    /\ patterns' = kept \cup new
    /\ older' = (older \cap (kept \X kept)) \cup (kept \X new)

(* Faulty variants of the definitions below: the properties must notice    *)
(* each of them.                                                           *)

FaultyFillKeepingTriples(p, T, evictable, replace) ==
    LET victims == Victims(p, T, evictable, replace) IN
    /\ cache' = (cache \ Matching(cache, p)) \cup T
    /\ KeepPatterns(patterns \ (victims \cup {p}), {p})
    /\ blame' = blame \cup BlameShared(victims) \cup BlamePartial(p, T)

FaultyFillKeepingPatterns(p, T, evictable, replace) ==
    LET victims == Victims(p, T, evictable, replace) IN
    /\ cache' = (cache \ MatchingAny(cache, victims \cup {p})) \cup T
    /\ KeepPatterns(patterns \ {p}, {p})
    /\ blame' = blame \cup BlameShared(victims) \cup BlamePartial(p, T)

(* The triples of p are removed and T is added, whether p is replaced or   *)
(* not, and p is the newest pattern.                                       *)
Fill(p, T, evictable, replace) ==
    LET victims == Victims(p, T, evictable, replace) IN
    /\ cache' = (cache \ MatchingAny(cache, victims \cup {p})) \cup T
    /\ KeepPatterns(patterns \ (victims \cup {p}), {p})
    /\ blame' = blame \cup BlameShared(victims) \cup BlamePartial(p, T)

(* `_compute_space': what could be free without the patterns `evictable'.  *)
Space(evictable) ==
    LET free == Size - Cardinality(cache) + Freed(evictable)
    IN IF free < Size THEN free ELSE Size

-----------------------------------------------------------------------------
Init ==
    /\ backend \in Backends
    /\ adding = {} /\ removing = {}
    /\ cache = {} /\ patterns = {} /\ older = {}
    /\ stage = "idle" /\ todo = {} /\ since = {} /\ subject = None /\ rounds = 0
    /\ blame = {}

(* `triples' on a miss: the triples of the subject if the pattern has one, *)
(* otherwise those of the pattern.  No space: no action.                   *)
Query(item) ==
    LET p == IF item[1] = None THEN item ELSE <<item[1], None, None>>
        T == Matching(backend, p)
    IN
    /\ stage = "idle" /\ ~Cached(item)
    /\ IF Fits(p, T, patterns, TRUE)
       THEN Fill(p, T, patterns, TRUE) /\ since' = {p}
       ELSE UNCHANGED <<contents, blame>> /\ since' = {}
    /\ IF item[1] # None
       THEN stage' = "prefetch" /\ subject' = item[1] /\ rounds' = 3
       ELSE UNCHANGED <<stage, subject, rounds>>
    /\ UNCHANGED <<backend, buffers, todo>>

(* The three SPARQL queries: children, parents and neighbours of s. *)
Children(s) == {t[3] : t \in Matching(backend, <<s, None, None>>)}
Parents(s)  == {t[1] : t \in Matching(backend, <<None, None, s>>)}
Related(s, round) ==
    SubjectsOf(backend) \cap
        CASE round = 3 -> Children(s)
          [] round = 2 -> Parents(s)
          [] round = 1 -> UNION {Children(q) : q \in Parents(s)}

PatternOf(s) == <<s, None, None>>

(* One query of the prefetch: its results are cached subject by subject if *)
(* there is space for all of them without the patterns of this call.       *)
PrefetchQuery ==
    LET P == {PatternOf(s) : s \in Related(subject, rounds)} IN
    /\ stage = "prefetch" /\ todo = {} /\ rounds > 0
    /\ rounds' = rounds - 1
    /\ todo' = IF Space(patterns \ since) >= Cardinality(MatchingAny(backend, P))
               THEN P ELSE {}
    /\ UNCHANGED <<backend, buffers, contents, stage, since, subject, blame>>

PrefetchFill ==
    /\ stage = "prefetch"
    /\ \E p \in todo :
        /\ Fits(p, Matching(backend, p), patterns, TRUE)
        /\ Fill(p, Matching(backend, p), patterns, TRUE)
        /\ todo' = todo \ {p} /\ since' = since \cup {p}
    /\ UNCHANGED <<backend, buffers, stage, subject, rounds>>

(* Here CacheSizeException is not caught: the session's query raises. *)
PrefetchRaise ==
    /\ stage = "prefetch"
    /\ \E p \in todo : ~Fits(p, Matching(backend, p), patterns, TRUE)
    /\ stage' = "idle" /\ todo' = {} /\ rounds' = 0 /\ subject' = None /\ since' = {}
    /\ UNCHANGED <<backend, buffers, contents, blame>>

(* The prefetch ends after its queries or when it has taken too long. *)
PrefetchEnd ==
    /\ stage = "prefetch" /\ todo = {}
    /\ stage' = "idle" /\ subject' = None /\ rounds' = 0 /\ since' = {}
    /\ UNCHANGED <<backend, buffers, contents, todo, blame>>

AddTriple(t) ==
    /\ stage = "idle"
    /\ adding' = adding \cup {t} /\ removing' = removing \ {t}
    /\ UNCHANGED <<backend, contents, stage, todo, prefetch, blame>>

RemoveMatching(p) ==
    /\ stage = "idle"
    /\ adding' = adding \ Matching(adding, p)
    /\ removing' = removing \cup Matching(backend, p)
    /\ UNCHANGED <<backend, contents, stage, todo, prefetch, blame>>

FaultyCommit ==
    /\ stage = "idle"
    /\ backend' = (backend \ removing) \cup adding
    /\ todo' = {p \in patterns : Matching(adding, p) # {}}
    /\ stage' = "commit" /\ since' = {}
    /\ UNCHANGED <<buffers, contents, subject, rounds, blame>>

(* `commit' changes the backend, drops the deleted triples from the cache  *)
(* and goes through the cached patterns that an added triple matches.      *)
Commit ==
    /\ stage = "idle"
    /\ backend' = (backend \ removing) \cup adding
    /\ cache' = cache \ removing
    /\ todo' = {p \in patterns : Matching(adding, p) # {}}
    /\ stage' = "commit" /\ since' = {}
    /\ UNCHANGED <<buffers, patterns, older, subject, rounds, blame>>

CommitFill ==
    /\ stage = "commit"
    /\ \E p \in todo :
        LET T == Matching(adding, p)
            evictable == patterns \ since
        IN /\ IF Fits(p, T, evictable, FALSE)
              THEN Fill(p, T, evictable, FALSE) /\ since' = since \cup {p}
              ELSE /\ cache' = cache \ Matching(cache, p)
                   /\ KeepPatterns(patterns \ {p}, {})
                   /\ blame' = blame \cup BlameShared({p})
                   /\ UNCHANGED since
           /\ todo' = todo \ {p}
    /\ UNCHANGED <<backend, buffers, stage, subject, rounds>>

CommitEnd ==
    /\ stage = "commit" /\ todo = {}
    /\ stage' = "idle" /\ since' = {}
    /\ adding' = {} /\ removing' = {}
    /\ UNCHANGED <<backend, contents, todo, subject, rounds, blame>>

(* A commit that raises when the files are saved, with the backend already *)
(* changed, never comes to the cache.                                      *)
CommitRaise ==
    /\ stage = "idle"
    /\ backend' = (backend \ removing) \cup adding
    /\ blame' = blame \cup {"outdated"}
    /\ UNCHANGED <<buffers, contents, stage, todo, prefetch>>

Rollback ==
    /\ stage = "idle"
    /\ adding' = {} /\ removing' = {}
    /\ UNCHANGED <<backend, contents, stage, todo, prefetch, blame>>

(* `compute', after its own commit, lets the wrapper change the backend. *)
Compute(T) ==
    /\ stage = "idle"
    /\ adding = {} /\ removing = {}
    /\ backend' = T
    /\ blame' = blame \cup {"outdated"}
    /\ UNCHANGED <<buffers, contents, stage, todo, prefetch>>

(* `close' and `open' empty the cache and keep the list of patterns. *)
Reopen ==
    /\ stage = "idle"
    /\ adding' = {} /\ removing' = {}
    /\ cache' = {}
    /\ blame' = blame \cup {"emptied"}
    /\ UNCHANGED <<backend, patterns, older, stage, todo, prefetch>>

Next ==
    \/ \E item \in Queries : Query(item)
    \/ PrefetchQuery \/ PrefetchFill \/ PrefetchRaise \/ PrefetchEnd
    \/ \E t \in Additions : AddTriple(t)
    \/ \E p \in Removals : RemoveMatching(p)
    \/ Commit \/ CommitFill \/ CommitEnd \/ CommitRaise
    \/ Rollback
    \/ \E T \in Backends : Compute(T)
    \/ Reopen

Spec == Init /\ [][Next]_vars
-----------------------------------------------------------------------------
(* The dates of _cached_patterns: every cached pattern has one of its own. *)
DatesOrdered ==
    /\ older \subseteq patterns \X patterns
    /\ \A q, r \in patterns : <<q, r>> \in older <=> q # r /\ <<r, q>> \notin older
    /\ \A q, r, s \in patterns :
            <<q, r>> \in older /\ <<r, s>> \in older => <<q, s>> \in older

(* Type invariant; the dates of the cached patterns order them totally.    *)
TypeOK ==
    /\ backend \subseteq Triple /\ adding \subseteq Triple /\ removing \subseteq Triple
    /\ cache \subseteq Triple
    /\ patterns \subseteq Pattern /\ DatesOrdered
    /\ stage \in {"idle", "prefetch", "commit"}
    /\ todo \subseteq Pattern /\ since \subseteq Pattern
    /\ subject \in Subject \cup {None} /\ rounds \in 0..3
    /\ blame \subseteq {"shared", "partial", "emptied", "outdated"}

(* Until one of the four things happens that spoil the cache, the answer   *)
(* to a pattern that counts as cached is the backend's answer (`_cached':  *)
(* "whether a given pattern is already cached"): misses, prefetches,       *)
(* evictions of patterns without common triples, and commits that delete   *)
(* triples or add all there is of a pattern keep it so.                    *)
CachedReadsExact ==
    stage = "idle" /\ blame = {} => \A item \in Pattern :
        Cached(item) => Matching(cache, item) = Matching(backend, item)

(* Shared evictions, partial fills and reopening make the cache forget,    *)
(* but never invent: the session does not read a triple that the backend   *)
(* does not have unless the backend was changed behind the cache's back.   *)
NoPhantoms ==
    "outdated" \notin blame => cache \subseteq backend

(* The cache stays within its size (_cache_size: "Maximum size of the      *)
(* cache in triples") as long as no triple is counted twice.               *)
WithinSize == "shared" \notin blame => Cardinality(cache) <= Size

(* Whatever happens, every cached triple belongs to a cached pattern, and  *)
(* so can be evicted: patterns that overlap, failed commits and reopening  *)
(* do not leave triples behind that would use up the cache for good.       *)
NothingUnevictable == \A t \in cache : \E p \in patterns : IsSubPattern(t, p)

(* What the cache needs to go on: triples and patterns that belong         *)
(* together, each pattern cached once, and a size that is kept.            *)
CacheConsistent == TypeOK /\ WithinSize /\ NothingUnevictable
=============================================================================
