----------------------------- MODULE BufferedStore -----------------------------
(***************************************************************************)
(* BufferedSimpleMemoryStore: the in-memory base graph of an interface.    *)
(* Changes stay in two buffers until they are committed.  The names leave  *)
(* room for the buffers and the steps of the InterfaceDriver on top of it. *)
(***************************************************************************)
EXTENDS Triples

VARIABLES mem,       \* the SimpleMemory store underneath
          bAdded,    \* BufferType.ADDED
          bDeleted    \* BufferType.DELETED

base == <<mem, bAdded, bDeleted>>

-----------------------------------------------------------------------------
(* Faulty variants of the definitions below: the properties must notice    *)
(* each of them.                                                           *)

FaultyTriplesOf(p) == (Matching(mem, p) \ Matching(bAdded, p)) \cup Matching(bAdded, p)

FaultyAddAll(T) == bAdded' = bAdded \cup T /\ UNCHANGED <<mem, bDeleted>>

FaultyCommit == mem' = mem \cup bAdded /\ bAdded' = {} /\ bDeleted' = {}

-----------------------------------------------------------------------------
(* What `triples' yields for a pattern, and for the wildcard pattern. *)
TriplesOf(p) ==
    (Matching(mem, p) \ (Matching(bAdded, p) \cup Matching(bDeleted, p)))
    \cup Matching(bAdded, p)

Working == (mem \ (bAdded \cup bDeleted)) \cup bAdded

BaseInit == mem \in SUBSET Triple /\ bAdded = {} /\ bDeleted = {}

(* `add' for every triple of T, one after the other. *)
AddAll(T) ==
    /\ bDeleted' = bDeleted \ T
    /\ bAdded' = bAdded \cup T
    /\ UNCHANGED mem

(* `remove' of what the pattern matches.  The ADDED buffer is purged       *)
(* first, so that `triples' then yields what is in memory only.            *)
RemoveAll(T) ==
    /\ bAdded' = bAdded \ T
    /\ bDeleted' = bDeleted \cup (mem \cap T)
    /\ UNCHANGED mem

Commit ==
    /\ mem' = (mem \ bDeleted) \cup bAdded
    /\ bAdded' = {} /\ bDeleted' = {}

(* rollback, open and close replace the buffers by empty ones. *)
Discard == bAdded' = {} /\ bDeleted' = {} /\ UNCHANGED mem

BaseNext == \/ \E t \in Triple : AddAll({t})
            \/ \E p \in Pattern : RemoveAll(Matching(Triple, p))
            \/ Commit
            \/ Discard

BaseSpec == BaseInit /\ [][BaseNext]_base

-----------------------------------------------------------------------------
(* Type invariant of the memory and of the two buffers: they hold triples, *)
(* never the patterns `remove' is called with.                             *)
BaseTypeOK == mem \subseteq Triple /\ bAdded \subseteq Triple /\ bDeleted \subseteq Triple

(* No triple is buffered for both addition and deletion, and only stored   *)
(* triples are buffered for deletion: `add' purges the DELETED buffer and  *)
(* `remove' purges the ADDED one before it looks at the memory.  Together  *)
(* they make the order in which `commit' applies the buffers irrelevant.   *)
BuffersConsistent == bAdded \cap bDeleted = {} /\ bDeleted \subseteq mem

(* A query for any pattern yields exactly the matching part of the graph   *)
(* a commit would store, although `triples' filters each pattern against   *)
(* the buffers on its own and never looks at the whole graph.              *)
QueriesReadPendingCommit ==
    \A p \in Pattern : TriplesOf(p) = Matching((mem \ bDeleted) \cup bAdded, p)

(* The store implements the abstract transactional store: reads see the    *)
(* buffered changes, `commit' makes exactly them permanent without being   *)
(* visible to reads, and `rollback' returns to the committed triples.      *)
BaseAbstract == INSTANCE TransactionalStore WITH committed <- mem, working <- Working
ImplementsTransactionalStore == BaseAbstract!Spec
=============================================================================
