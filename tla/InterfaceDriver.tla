---------------------------- MODULE InterfaceDriver ----------------------------
(***************************************************************************)
(* InterfaceDriver: the store between a session and the interface of a     *)
(* wrapper.  A triple goes to one of two pairs of buffers: the interface   *)
(* `catches' it, and reflects it on its own data structures during commit, *)
(* or it is left for the base graph.  A commit is a sequence of calls to   *)
(* the interface and to the base graph, and each call may raise.           *)
(*                                                                         *)
(* The cache is off here (TripleCache models it) and files are one call    *)
(* that returns or raises (FileQueue models it).                           *)
(***************************************************************************)
EXTENDS BufferedStore, FiniteSets

CONSTANTS Type,             \* rdf:type
          Caught,           \* the triples for which Interface.add is False
          Faults,           \* the calls that may raise
          EntityTracking    \* Interface.entity_tracking

Calls == {"interface", "base", "files", "compute"}

ASSUME DriverAssumption ==
    /\ Type \in Predicate
    /\ Caught \subseteq Triple
    /\ Faults \subseteq Calls
    /\ EntityTracking \in BOOLEAN

VARIABLES ext,                     \* the data structures of the interface
          uAdded, uDeleted,        \* _buffer_uncaught
          cAdded, cDeleted,        \* _buffer_caught
          stage,                   \* where the driver's control is
          computing,               \* the commit was called by `compute'
          tracked                  \* interface.added, updated and deleted

buffers == <<uAdded, uDeleted, cAdded, cDeleted>>
control == <<stage, computing, tracked>>
vars    == <<base, ext, buffers, control>>

Stages == {"idle", "interface", "remove", "add", "sync", "files",
           "compute", "computed", "closed"}

(* What the interface yields without the buffers (`old_graph'), what the   *)
(* session reads (`new_graph'), and what would survive a crash.            *)
Stored  == Working \cup ext
Pending == uAdded \cup cAdded
View    == (Stored \ (Pending \cup uDeleted \cup cDeleted)) \cup Pending
Durable == mem \cup ext

NoEntities == [added |-> {}, updated |-> {}, deleted |-> {}]

-----------------------------------------------------------------------------
(* Faulty variants of the definitions below: the properties must notice    *)
(* each of them.                                                           *)

FaultyAdd(t) ==
    /\ stage = "idle"
    /\ uAdded' = uAdded \cup {t} /\ cAdded' = cAdded \cup {t}
    /\ UNCHANGED <<base, ext, uDeleted, cDeleted, control>>

FaultyBaseSync ==
    /\ stage = "sync"
    /\ stage' = "files"
    /\ UNCHANGED <<base, ext, buffers, computing, tracked>>

FaultyInterfaceRaise ==
    /\ stage = "interface" /\ "interface" \in Faults
    /\ stage' = "idle"
    /\ uAdded' = {} /\ uDeleted' = {} /\ cAdded' = {} /\ cDeleted' = {}
    /\ UNCHANGED <<base, ext, computing, tracked>>

FaultyRollback ==
    /\ stage = "idle"
    /\ uAdded' = {} /\ uDeleted' = {}
    /\ UNCHANGED <<base, ext, cAdded, cDeleted, control>>

-----------------------------------------------------------------------------
(* Entity tracking                                                         *)

Of(s, T) == {t \in T : t[1] = s}

(* Session.from_identifier finds an entity only if it is typed. *)
Typed(s, T) == <<s, Type>> \in {<<t[1], t[2]>> : t \in T}

FaultyAddedEntities == SubjectsOf(Pending)

FaultyUpdatedEntities ==
    SubjectsOf(Pending \cup uDeleted \cup cDeleted) \cap SubjectsOf(Stored)

(* The subjects of the buffers that the old graph does not have.  The set  *)
(* is the tracker's own, so that the subjects of the deleted triples,      *)
(* visited later, land in it too.                                          *)
AddedEntities ==
    SubjectsOf(Pending \cup uDeleted \cup cDeleted) \ SubjectsOf(Stored)

(* Deletions are counted buffer by buffer and compared with the number of  *)
(* triples that the old graph has.                                         *)
DeletedEntities ==
    {s \in SubjectsOf(uDeleted \cup cDeleted) \cap SubjectsOf(Stored) :
        Cardinality(Of(s, uDeleted)) + Cardinality(Of(s, cDeleted))
            >= Cardinality(Of(s, Stored))}

FaultyUpdatedByAdditions ==
    (SubjectsOf(Pending) \cap SubjectsOf(Stored)) \ DeletedEntities

UpdatedEntities ==
    (SubjectsOf(Pending \cup uDeleted \cup cDeleted) \cap SubjectsOf(Stored))
        \ DeletedEntities

(* Every entity is looked up, which raises KeyError if one is not found. *)
EntitiesResolve ==
    /\ \A s \in AddedEntities \cup UpdatedEntities : Typed(s, View)
    /\ \A s \in DeletedEntities : Typed(s, Stored)

-----------------------------------------------------------------------------
Init ==
    /\ BaseInit
    /\ ext \in SUBSET Caught
    /\ uAdded = {} /\ uDeleted = {} /\ cAdded = {} /\ cDeleted = {}
    /\ stage = "idle" /\ computing = FALSE /\ tracked = NoEntities

(* `add': only the buffer that takes the triple forgets its deletion. *)
Add(t) ==
    /\ stage = "idle"
    /\ IF t \in Caught
       THEN /\ cAdded' = cAdded \cup {t}
            /\ cDeleted' = cDeleted \ {t}
            /\ UNCHANGED <<uAdded, uDeleted>>
       ELSE /\ uAdded' = uAdded \cup {t}
            /\ uDeleted' = uDeleted \ {t}
            /\ UNCHANGED <<cAdded, cDeleted>>
    /\ UNCHANGED <<base, ext, control>>

(* Interface.remove of a wrapper with data structures of its own. *)
InterfaceRemove(p) == Matching(ext, p)

(* `remove': the base graph and the interface say what there is to delete. *)
Remove(p) ==
    LET M == Matching(Triple, p) IN
    /\ stage = "idle"
    /\ uAdded' = uAdded \ M
    /\ cAdded' = cAdded \ M
    /\ uDeleted' = uDeleted \cup TriplesOf(p)
    /\ cDeleted' = cDeleted \cup InterfaceRemove(p)
    /\ UNCHANGED <<base, ext, control>>

(* `commit' up to the call of Interface.commit.  When an entity cannot be  *)
(* looked up the commit ends here.                                         *)
BeginCommit(byCompute) ==
    /\ stage = "idle"
    /\ EntityTracking => EntitiesResolve
    /\ stage' = "interface"
    /\ computing' = byCompute
    /\ tracked' = IF EntityTracking
                  THEN [added |-> AddedEntities, updated |-> UpdatedEntities,
                        deleted |-> DeletedEntities]
                  ELSE tracked
    /\ UNCHANGED <<base, ext, buffers>>

LookupRaises ==
    /\ stage = "idle"
    /\ EntityTracking /\ ~EntitiesResolve
    /\ UNCHANGED vars

(* Interface.commit reflects the caught triples one at a time. *)
InterfaceApply ==
    /\ stage = "interface"
    /\ \/ \E t \in cDeleted \cap ext : ext' = ext \ {t}
       \/ \E t \in cAdded \ ext : ext' = ext \cup {t}
    /\ UNCHANGED <<base, buffers, control>>

InterfaceReturn ==
    /\ stage = "interface"
    /\ cDeleted \cap ext = {} /\ cAdded \subseteq ext
    /\ stage' = "remove"
    /\ UNCHANGED <<base, ext, buffers, computing, tracked>>

InterfaceRaise ==
    /\ stage = "interface" /\ "interface" \in Faults
    /\ stage' = "idle"
    /\ UNCHANGED <<base, ext, buffers, computing, tracked>>

(* The uncaught triples go to the base graph, which is then committed. *)
BaseRemove ==
    /\ stage = "remove"
    /\ RemoveAll(uDeleted)
    /\ stage' = "add"
    /\ UNCHANGED <<ext, buffers, computing, tracked>>

BaseAdd ==
    /\ stage = "add"
    /\ AddAll(uAdded)
    /\ stage' = "sync"
    /\ UNCHANGED <<ext, buffers, computing, tracked>>

BaseSync ==
    /\ stage = "sync"
    /\ Commit
    /\ stage' = "files"
    /\ UNCHANGED <<ext, buffers, computing, tracked>>

(* A base graph on a database may raise with part of the work done. *)
BaseRaise ==
    /\ "base" \in Faults
    /\ \/ stage = "remove" /\ \E D \in SUBSET uDeleted : RemoveAll(D)
       \/ stage = "add" /\ \E A \in SUBSET uAdded : AddAll(A)
       \/ stage = "sync" /\ UNCHANGED base
    /\ stage' = "idle"
    /\ UNCHANGED <<ext, buffers, computing, tracked>>

(* The files are saved and deleted; then the buffers are reset. *)
FilesReturn ==
    /\ stage = "files"
    /\ stage' = IF computing THEN "compute" ELSE "idle"
    /\ uAdded' = {} /\ uDeleted' = {} /\ cAdded' = {} /\ cDeleted' = {}
    /\ tracked' = NoEntities
    /\ UNCHANGED <<base, ext, computing>>

FilesRaise ==
    /\ stage = "files" /\ "files" \in Faults
    /\ stage' = "idle"
    /\ UNCHANGED <<base, ext, buffers, computing, tracked>>

(* `rollback' forgets the driver's buffers and leaves the base graph. *)
Rollback ==
    /\ stage = "idle"
    /\ uAdded' = {} /\ uDeleted' = {} /\ cAdded' = {} /\ cDeleted' = {}
    /\ UNCHANGED <<base, ext, control>>

(* Interface.compute rewrites the base graph and the backend, and the base *)
(* session is committed; when it raises the base graph keeps its changes.  *)
Simulate(T, E) ==
    /\ stage = "compute"
    /\ bAdded' = T /\ bDeleted' = mem \ T
    /\ ext' = E
    /\ stage' \in {"computed"} \cup IF "compute" \in Faults THEN {"idle"} ELSE {}
    /\ UNCHANGED <<mem, buffers, computing, tracked>>

EndCompute ==
    /\ stage = "computed"
    /\ Commit
    /\ stage' = "idle"
    /\ UNCHANGED <<ext, buffers, computing, tracked>>

(* `close' drops what the base graph has not committed and clears the      *)
(* entities; the buffers are only reset when the driver is opened again.   *)
Close ==
    /\ stage = "idle"
    /\ Discard
    /\ stage' = "closed"
    /\ tracked' = NoEntities
    /\ UNCHANGED <<ext, buffers, computing>>

Open ==
    /\ stage = "closed"
    /\ stage' = "idle"
    /\ uAdded' = {} /\ uDeleted' = {} /\ cAdded' = {} /\ cDeleted' = {}
    /\ UNCHANGED <<base, ext, computing, tracked>>

CommitStep ==
    \/ \E byCompute \in BOOLEAN : BeginCommit(byCompute)
    \/ LookupRaises
    \/ InterfaceApply \/ InterfaceReturn \/ InterfaceRaise
    \/ BaseRemove \/ BaseAdd \/ BaseSync \/ BaseRaise
    \/ FilesReturn \/ FilesRaise

Next ==
    \/ \E t \in Triple : Add(t)
    \/ \E p \in Pattern : Remove(p)
    \/ CommitStep
    \/ Rollback
    \/ \E T \in SUBSET Triple, E \in SUBSET Caught : Simulate(T, E)
    \/ EndCompute
    \/ Close
    \/ Open

Spec == Init /\ [][Next]_vars
-----------------------------------------------------------------------------
(* Type invariant: the buffers hold triples of their own kind, caught or   *)
(* uncaught, for what is added.                                            *)
TypeOK ==
    /\ BaseTypeOK
    /\ ext \subseteq Caught
    /\ uAdded \subseteq Triple \ Caught /\ uDeleted \subseteq Triple
    /\ cAdded \subseteq Caught /\ cDeleted \subseteq Caught
    /\ stage \in Stages /\ computing \in BOOLEAN
    /\ tracked \in [added : SUBSET Subject, updated : SUBSET Subject,
                    deleted : SUBSET Subject]

(* What the session reads never changes while `commit' runs, whichever     *)
(* call raises and however often the commit is tried again: part of the    *)
(* triples may already be in the interface or in the base graph, and the   *)
(* buffers hide just that.                                                 *)
CommitInvisible == [][CommitStep => View' = View]_vars

(* Once the base graph is committed, what is stored for good is exactly    *)
(* what the session reads: nothing is lost between the two pairs of        *)
(* buffers, their deletions and the order in which `commit' applies them.  *)
DurableWhenSynced == stage = "files" => Durable = View

(* When the base graph is the in-memory one, the driver implements a       *)
(* transactional store whose commit may be cut short: in particular a      *)
(* rollback, also after a failed commit, returns to what is stored.        *)
Abstract == INSTANCE TransactionalStore WITH committed <- Durable, working <- View
ImplementsBackend == Abstract!BackendSpec

(* No earlier attempt of this commit has deleted any of its triples: the   *)
(* old graph still has what the buffers delete from it.                    *)
DeletionsPending == uDeleted \cup cDeleted \subseteq Stored

(* Entity tracking reports as added exactly the entities that the new      *)
(* graph has and the old one has not, and does so also when the commit is  *)
(* tried again after an earlier attempt has added some of its triples.     *)
AddedEntitiesExact ==
    [][\A byCompute \in BOOLEAN :
        BeginCommit(byCompute) /\ EntityTracking /\ DeletionsPending =>
            tracked'.added = SubjectsOf(View) \ SubjectsOf(Stored)]_vars

(* No change goes unreported: an entity that gains or loses a triple by    *)
(* the commit, in the interface or in the base graph, is on one of the     *)
(* three lists that Interface.commit gets to see.                          *)
ChangesReported ==
    [][\A byCompute \in BOOLEAN : BeginCommit(byCompute) /\ EntityTracking =>
        SubjectsOf((Stored \ View) \cup (View \ Stored)) \subseteq
            tracked'.added \cup tracked'.updated \cup tracked'.deleted]_vars

(* A commit is not refused by its own entity tracking when every entity of *)
(* the old and of the new graph can be looked up, unless an earlier        *)
(* attempt has already deleted some of its triples.                        *)
WellTyped(T) == \A s \in SubjectsOf(T) : Typed(s, T)

TypedCommitAccepted ==
    stage = "idle" /\ DeletionsPending /\ WellTyped(Stored) /\ WellTyped(View) =>
        EntitiesResolve
=============================================================================
