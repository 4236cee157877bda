------------------------- MODULE InterfaceDriverProofs -------------------------
(***************************************************************************)
(* What holds of BufferedSimpleMemoryStore for every set of triples; and   *)
(* that a commit of InterfaceDriver is invisible to the session and        *)
(* complete, for every vocabulary, every division of the triples between   *)
(* interface and base graph, and every set of calls that may raise.        *)
(***************************************************************************)
EXTENDS InterfaceDriver, FiniteSetTheorems, TLAPS

-----------------------------------------------------------------------------
(***************************************************************************)
(* The base graph by itself, BufferedStore.                                *)
(***************************************************************************)

(* The inductive invariant: types and the consistency of the two buffers. *)
BaseInv == BaseTypeOK /\ BuffersConsistent

(* The initial store, with empty buffers, satisfies the invariant. *)
LEMMA BaseInitInv == BaseInit => BaseInv
BY DEF BaseInit, BaseInv, BaseTypeOK, BuffersConsistent

(* Every operation of the store preserves the invariant. *)
LEMMA BaseNextInv == BaseInv /\ [BaseNext]_base => BaseInv'
<1> SUFFICES ASSUME BaseInv, [BaseNext]_base
             PROVE  BaseInv'
  OBVIOUS
<1> USE DEF BaseInv, BaseTypeOK, BuffersConsistent
<1>1. ASSUME NEW t \in Triple, AddAll({t})
      PROVE  BaseInv'
  BY <1>1 DEF AddAll
<1>2. ASSUME NEW p \in Pattern, RemoveAll(Matching(Triple, p))
      PROVE  BaseInv'
  BY <1>2 DEF RemoveAll
<1>3. CASE Commit
  BY <1>3 DEF Commit
<1>4. CASE Discard
  BY <1>4 DEF Discard
<1>5. CASE UNCHANGED base
  BY <1>5 DEF base
<1> QED
  BY <1>1, <1>2, <1>3, <1>4, <1>5 DEF BaseNext

(* The memory and the buffers of a BufferedSimpleMemoryStore only ever     *)
(* hold triples.                                                           *)
THEOREM BaseTypeCorrect == BaseSpec => []BaseTypeOK
<1>1. BaseSpec => []BaseInv
  BY BaseInitInv, BaseNextInv, PTL DEF BaseSpec
<1> QED
  BY <1>1, PTL DEF BaseInv

(* The buffers of a BufferedSimpleMemoryStore are disjoint and its DELETED *)
(* buffer holds stored triples only, after any sequence of operations.     *)
THEOREM BuffersStayConsistent == BaseSpec => []BuffersConsistent
<1>1. BaseSpec => []BaseInv
  BY BaseInitInv, BaseNextInv, PTL DEF BaseSpec
<1> QED
  BY <1>1, PTL DEF BaseInv

(* With consistent buffers, what `triples' filters for a pattern is the    *)
(* matching part of what `commit' would store.                             *)
LEMMA QueriesFollowFromBuffers == BaseInv => QueriesReadPendingCommit
BY DEF BaseInv, BaseTypeOK, BuffersConsistent, QueriesReadPendingCommit, TriplesOf, Matching

(* A query of a BufferedSimpleMemoryStore always answers from the graph a  *)
(* commit would store, whatever the pattern.                               *)
THEOREM QueriesReadTheirWrites == BaseSpec => []QueriesReadPendingCommit
<1>1. BaseSpec => []BaseInv
  BY BaseInitInv, BaseNextInv, PTL DEF BaseSpec
<1> QED
  BY <1>1, QueriesFollowFromBuffers, PTL

(* Every operation on the buffers is an operation of the abstract store on *)
(* the graph that is read, or a stutter.                                   *)
LEMMA BaseStepSimulation == BaseInv /\ [BaseNext]_base => [BaseAbstract!Next]_(BaseAbstract!vars)
<1> SUFFICES ASSUME BaseInv, [BaseNext]_base
             PROVE  [BaseAbstract!Next]_(BaseAbstract!vars)
  OBVIOUS
<1> USE DEF BaseInv, BaseTypeOK, BuffersConsistent, Working
<1>1. ASSUME NEW t \in Triple, AddAll({t})
      PROVE  BaseAbstract!Add(t)
  BY <1>1 DEF AddAll, BaseAbstract!Add
<1>2. ASSUME NEW p \in Pattern, RemoveAll(Matching(Triple, p))
      PROVE  BaseAbstract!Remove(p)
  BY <1>2 DEF RemoveAll, BaseAbstract!Remove, BaseAbstract!Matching, Matching,
              IsSubPattern, BaseAbstract!IsSubPattern
<1>3. CASE Commit
  BY <1>3 DEF Commit, BaseAbstract!Commit, BaseAbstract!Next
<1>4. CASE Discard
  BY <1>4 DEF Discard, BaseAbstract!Rollback, BaseAbstract!Next
<1>5. CASE UNCHANGED base
  BY <1>5 DEF base, BaseAbstract!vars
<1> QED
  BY <1>1, <1>2, <1>3, <1>4, <1>5 DEF BaseNext, BaseAbstract!Next, Triple, Pattern,
     BaseAbstract!Triple, BaseAbstract!Pattern

(* BufferedSimpleMemoryStore implements the abstract transactional store:  *)
(* read-your-writes, invisible commits and exact rollbacks.                *)
THEOREM BaseImplementation == BaseSpec => ImplementsTransactionalStore
<1>1. BaseInit => BaseAbstract!Init
  BY DEF BaseInit, BaseAbstract!Init, Working, Triple, BaseAbstract!Triple
<1>2. BaseSpec => []BaseInv
  BY BaseInitInv, BaseNextInv, PTL DEF BaseSpec
<1> QED
  BY <1>1, <1>2, BaseStepSimulation, PTL DEF BaseSpec, BaseAbstract!Spec, ImplementsTransactionalStore

-----------------------------------------------------------------------------
(***************************************************************************)
(* The driver on top of it.                                                *)
(***************************************************************************)

(* Within a pair of buffers no triple is both added and deleted. *)
Separated == uAdded \cap uDeleted = {} /\ cAdded \cap cDeleted = {}

(* A deletion hides a triple for good: wherever the triple is still        *)
(* stored, the buffer that will remove it from there knows of it.          *)
Hidden ==
    stage # "closed" =>
        \A t \in (uDeleted \cup cDeleted) \ Pending :
            (t \in Working => t \in uDeleted) /\ (t \in ext => t \in cDeleted)

(* How far the commit has come. *)
InterfaceDone == stage \in {"remove", "add", "sync", "files"} =>
                     cDeleted \cap ext = {} /\ cAdded \subseteq ext
RemoveDone    == stage \in {"add", "sync", "files"} => uDeleted \cap Working = {}
AddDone       == stage \in {"sync", "files"} => uAdded \subseteq Working
SyncDone      == stage = "files" => bAdded = {} /\ bDeleted = {}
NothingLeft   == stage \in {"compute", "computed"} =>
                     Pending = {} /\ uDeleted = {} /\ cDeleted = {}

Inv ==
    /\ TypeOK /\ BuffersConsistent
    /\ Separated /\ Hidden
    /\ InterfaceDone /\ RemoveDone /\ AddDone /\ SyncDone /\ NothingLeft

(* What a query of the base graph yields is the matching part of the graph *)
(* it reads.                                                               *)
LEMMA BaseTriples ==
    ASSUME BaseTypeOK, NEW p
    PROVE  TriplesOf(p) = Working \cap Matching(Triple, p)
BY DEF BaseTypeOK, TriplesOf, Working, Matching

(* The initial state satisfies the inductive invariant. *)
LEMMA InitInv == Init => Inv
<1> SUFFICES ASSUME Init
             PROVE  Inv
  OBVIOUS
<1>1. TypeOK
  BY DriverAssumption
     DEF Init, TypeOK, BaseInit, BaseTypeOK, NoEntities, Stages, Triple
<1>2. BuffersConsistent /\ Separated /\ Hidden
  BY DEF Init, BaseInit, BuffersConsistent, Separated, Hidden
<1>3. InterfaceDone /\ RemoveDone /\ AddDone /\ SyncDone /\ NothingLeft
  BY DEF Init, InterfaceDone, RemoveDone, AddDone, SyncDone, NothingLeft
<1> QED
  BY <1>1, <1>2, <1>3 DEF Inv

(* The entity lists given to the interface hold subjects. *)
LEMMA TrackedType ==
    ASSUME TypeOK
    PROVE  [added |-> AddedEntities, updated |-> UpdatedEntities, deleted |-> DeletedEntities]
               \in [added : SUBSET Subject, updated : SUBSET Subject, deleted : SUBSET Subject]
<1>1. SubjectsOf(Pending \cup uDeleted \cup cDeleted) \subseteq Subject
  BY DriverAssumption DEF TypeOK, Pending, SubjectsOf, Triple
<1>2. SubjectsOf(uDeleted \cup cDeleted) \subseteq Subject
  BY DriverAssumption DEF TypeOK, SubjectsOf, Triple
<1> QED
  BY <1>1, <1>2 DEF AddedEntities, UpdatedEntities, DeletedEntities

(* Every action of the driver preserves the inductive invariant. *)
LEMMA NextInv == Inv /\ [Next]_vars => Inv'
<1> SUFFICES ASSUME Inv, [Next]_vars
             PROVE  Inv'
  OBVIOUS
<1> USE DriverAssumption
<1> USE DEF Inv, TypeOK, BaseTypeOK, BuffersConsistent, Separated, Hidden, InterfaceDone,
            RemoveDone, AddDone, SyncDone, NothingLeft, Pending, Working, Stages,
            base, control, buffers, Triple
<1>1. ASSUME NEW t \in Triple, Add(t)
      PROVE  Inv'
  BY <1>1 DEF Add
<1>2. ASSUME NEW p \in Pattern, Remove(p)
      PROVE  Inv'
  <2> DEFINE M == Matching(Triple, p)
  <2>1. /\ stage = "idle" /\ UNCHANGED <<base, ext, control>>
        /\ uAdded' = uAdded \ M /\ cAdded' = cAdded \ M
        /\ uDeleted' = uDeleted \cup (Working \cap M)
    BY <1>2, BaseTriples DEF Remove
  <2>2. cDeleted' = cDeleted \cup (ext \cap M)
    BY <1>2 DEF Remove, InterfaceRemove, Matching
  <2>3. M \subseteq Triple
    BY DEF Matching
  <2> QED
    BY <2>1, <2>2, <2>3
<1>3. ASSUME NEW byCompute \in BOOLEAN, BeginCommit(byCompute)
      PROVE  Inv'
  BY <1>3, TrackedType DEF BeginCommit
<1>4. CASE LookupRaises
  BY <1>4 DEF LookupRaises, vars
<1>5. CASE InterfaceApply
  BY <1>5 DEF InterfaceApply
<1>6. CASE InterfaceReturn
  BY <1>6 DEF InterfaceReturn
<1>7. CASE InterfaceRaise
  BY <1>7 DEF InterfaceRaise
<1>8. CASE BaseRemove
  BY <1>8 DEF BaseRemove, RemoveAll
<1>9. CASE BaseAdd
  BY <1>9 DEF BaseAdd, AddAll
<1>10. CASE BaseSync
  BY <1>10 DEF BaseSync, Commit
<1>11. CASE BaseRaise
  <2>1. CASE \E D \in SUBSET uDeleted : RemoveAll(D)
    BY <1>11, <2>1 DEF BaseRaise, RemoveAll
  <2>2. CASE \E A \in SUBSET uAdded : AddAll(A)
    BY <1>11, <2>2 DEF BaseRaise, AddAll
  <2>3. CASE UNCHANGED base
    BY <1>11, <2>3 DEF BaseRaise
  <2> QED
    BY <1>11, <2>1, <2>2, <2>3 DEF BaseRaise
<1>12. CASE FilesReturn
  BY <1>12 DEF FilesReturn, NoEntities
<1>13. CASE FilesRaise
  BY <1>13 DEF FilesRaise
<1>14. CASE Rollback
  BY <1>14 DEF Rollback
<1>15. ASSUME NEW T \in SUBSET Triple, NEW E \in SUBSET Caught, Simulate(T, E)
       PROVE  Inv'
  BY <1>15 DEF Simulate
<1>16. CASE EndCompute
  BY <1>16 DEF EndCompute, Commit
<1>17. CASE Close
  BY <1>17 DEF Close, Discard, NoEntities
<1>18. CASE Open
  BY <1>18 DEF Open
<1>19. CASE UNCHANGED vars
  BY <1>19 DEF vars
<1> QED
  BY <1>1, <1>2, <1>3, <1>4, <1>5, <1>6, <1>7, <1>8, <1>9, <1>10, <1>11, <1>12, <1>13,
     <1>14, <1>15, <1>16, <1>17, <1>18, <1>19 DEF Next, CommitStep

(* The inductive invariant holds in every reachable state. *)
LEMMA Invariance == Spec => []Inv
BY InitInv, NextInv, PTL DEF Spec

(* The driver's buffers, its stages and the entity lists it hands to the   *)
(* interface always have their types; in particular the uncaught buffer    *)
(* never takes a triple that the interface catches.                        *)
THEOREM TypeCorrect == Spec => []TypeOK
BY Invariance, PTL DEF Inv

(* When the files are handled, the base graph and the interface together   *)
(* hold exactly what the session reads.                                    *)
THEOREM CommitIsComplete == Spec => []DurableWhenSynced
<1>1. Inv => DurableWhenSynced
  BY DEF Inv, Separated, Hidden, InterfaceDone, RemoveDone, AddDone, SyncDone, Pending,
         DurableWhenSynced, Durable, View, Stored, Working
<1> QED
  BY <1>1, Invariance, PTL

(* No step of a commit changes what the session reads, raised or not. *)
LEMMA CommitStepKeepsView ==
    ASSUME Inv, CommitStep
    PROVE  View' = View
<1> USE DEF Inv, Separated, Hidden, InterfaceDone, RemoveDone, AddDone, SyncDone, Pending,
            View, Stored, Working, BuffersConsistent, base, buffers
<1>1. ASSUME NEW byCompute \in BOOLEAN, BeginCommit(byCompute)
      PROVE  View' = View
  BY <1>1 DEF BeginCommit
<1>2. CASE LookupRaises
  BY <1>2 DEF LookupRaises, vars
<1>3. CASE InterfaceApply
  BY <1>3 DEF InterfaceApply
<1>4. CASE InterfaceReturn \/ InterfaceRaise \/ FilesRaise
  BY <1>4 DEF InterfaceReturn, InterfaceRaise, FilesRaise
<1>5. CASE BaseRemove
  BY <1>5 DEF BaseRemove, RemoveAll
<1>6. CASE BaseAdd
  BY <1>6 DEF BaseAdd, AddAll
<1>7. CASE BaseSync
  BY <1>7 DEF BaseSync, Commit
<1>8. CASE BaseRaise
  <2>1. CASE \E D \in SUBSET uDeleted : RemoveAll(D)
    BY <1>8, <2>1 DEF BaseRaise, RemoveAll
  <2>2. CASE \E A \in SUBSET uAdded : AddAll(A)
    BY <1>8, <2>2 DEF BaseRaise, AddAll
  <2>3. CASE UNCHANGED base
    BY <1>8, <2>3 DEF BaseRaise
  <2> QED
    BY <1>8, <2>1, <2>2, <2>3 DEF BaseRaise
<1>9. CASE FilesReturn
  BY <1>9 DEF FilesReturn
<1> QED
  BY <1>1, <1>2, <1>3, <1>4, <1>5, <1>6, <1>7, <1>8, <1>9 DEF CommitStep

(* What the session reads is the same before, during and after a commit,   *)
(* whichever call raises and however often the commit is tried again.      *)
THEOREM CommitsAreInvisible == Spec => CommitInvisible
<1>1. Inv /\ [Next]_vars => [CommitStep => View' = View]_vars
  BY CommitStepKeepsView
<1> QED
  BY <1>1, Invariance, PTL DEF Spec, CommitInvisible

(***************************************************************************)
(* The refinement.  It needs a base graph that raises neither during a     *)
(* commit nor during a computation, as the in-memory one: then the base    *)
(* graph has nothing uncommitted outside of these two.                     *)
(***************************************************************************)
SafeBase == Faults \cap {"base", "compute"} = {}

Clean == stage \notin {"add", "sync", "computed"} => bAdded = {} /\ bDeleted = {}

(* Outside of the two, a safe base graph has empty buffers. *)
LEMMA CleanInvariance ==
    ASSUME SafeBase
    PROVE  Spec => []Clean
<1>1. Init => Clean
  BY DEF Init, BaseInit, Clean
<1>2. Inv /\ Clean /\ [Next]_vars => Clean'
  <2> SUFFICES ASSUME Inv, Clean, [Next]_vars
               PROVE  Clean'
    OBVIOUS
  <2> USE SafeBase DEF SafeBase, Inv, SyncDone, RemoveDone, Clean, base, control
  <2>1. CASE CommitStep
    <3>1. CASE BaseRemove \/ BaseAdd \/ BaseSync
      BY <3>1 DEF BaseRemove, BaseAdd, BaseSync, Commit
    <3>2. CASE ~(BaseRemove \/ BaseAdd \/ BaseSync)
      BY <2>1, <3>2 DEF CommitStep, BeginCommit, LookupRaises, InterfaceApply, InterfaceReturn,
         InterfaceRaise, BaseRaise, FilesReturn, FilesRaise, vars
    <3> QED
      BY <3>1, <3>2
  <2>2. CASE ~CommitStep
    BY <2>2 DEF Next, Add, Remove, Rollback, Simulate, EndCompute, Commit, Close,
       Discard, Open, vars
  <2> QED
    BY <2>1, <2>2
<1> QED
  BY <1>1, <1>2, Invariance, PTL DEF Spec

(* Every step of the driver on a safe base graph is a step of the abstract *)
(* backend on what is stored for good and what the session reads.          *)
LEMMA StepSimulation ==
    ASSUME SafeBase
    PROVE  Inv /\ Clean /\ [Next]_vars
             => [Abstract!Next \/ Abstract!Persist \/ Abstract!Simulate]_(Abstract!vars)
<1> SUFFICES ASSUME Inv, Clean, [Next]_vars
             PROVE  [Abstract!Next \/ Abstract!Persist \/ Abstract!Simulate]_(Abstract!vars)
  OBVIOUS
<1> USE SafeBase, DriverAssumption
<1> USE DEF SafeBase, Inv, Clean, TypeOK, BaseTypeOK, BuffersConsistent, Separated, Hidden,
            InterfaceDone, RemoveDone, AddDone, SyncDone, NothingLeft, Pending, View, Stored,
            Durable, Working, base, control, buffers, Triple,
            Abstract!Triple, Abstract!vars, Abstract!Next
<1>1. ASSUME NEW t \in Triple, Add(t)
      PROVE  Abstract!Add(t)
  BY <1>1 DEF Add, Abstract!Add
<1>2. ASSUME NEW p \in Pattern, Remove(p)
      PROVE  Abstract!Remove(p)
  <2> DEFINE M == Matching(Triple, p)
  <2>1. /\ stage = "idle" /\ UNCHANGED <<base, ext, control>>
        /\ uAdded' = uAdded \ M /\ cAdded' = cAdded \ M
        /\ uDeleted' = uDeleted \cup (Working \cap M)
    BY <1>2, BaseTriples DEF Remove
  <2>2. cDeleted' = cDeleted \cup (ext \cap M)
    BY <1>2 DEF Remove, InterfaceRemove, Matching
  <2>3. View \subseteq Triple
    OBVIOUS
  <2>4. Abstract!Matching(View, p) = View \cap M
    BY <2>3 DEF Abstract!Matching, Matching, Abstract!IsSubPattern, IsSubPattern
  <2>5. View' = View \ M
    BY <2>1, <2>2
  <2> QED
    BY <2>1, <2>2, <2>4, <2>5 DEF Abstract!Remove
<1>3. CASE CommitStep
  <2>1. View' = View
    BY <1>3, CommitStepKeepsView
  <2>2. CASE InterfaceApply
    BY <2>1, <2>2 DEF InterfaceApply, Abstract!Persist
  <2>3. CASE BaseSync
    <3>1. Stored = View
      BY <2>3 DEF BaseSync
    <3>2. Durable' = Stored
      BY <2>3 DEF BaseSync, Commit
    <3> QED
      BY <2>1, <3>1, <3>2 DEF Abstract!Commit
  <2>4. CASE ~(InterfaceApply \/ BaseSync)
    <3>1. Durable' = Durable
      BY <1>3, <2>4 DEF CommitStep, BeginCommit, LookupRaises, InterfaceReturn, InterfaceRaise,
         BaseRemove, RemoveAll, BaseAdd, AddAll, BaseRaise, FilesReturn, FilesRaise, vars
    <3> QED
      BY <2>1, <3>1
  <2> QED
    BY <2>2, <2>3, <2>4
<1>4. CASE Rollback
  BY <1>4 DEF Rollback, Abstract!Rollback
<1>5. ASSUME NEW T \in SUBSET Triple, NEW E \in SUBSET Caught, Simulate(T, E)
      PROVE  Abstract!Simulate
  BY <1>5 DEF Simulate, Abstract!Simulate
<1>6. CASE EndCompute
  BY <1>6 DEF EndCompute, Commit, Abstract!Commit
<1>7. CASE Close
  BY <1>7 DEF Close, Discard
<1>8. CASE Open
  BY <1>8 DEF Open, Abstract!Rollback
<1>9. CASE UNCHANGED vars
  BY <1>9 DEF vars
<1> QED
  BY <1>1, <1>2, <1>3, <1>4, <1>5, <1>6, <1>7, <1>8, <1>9
     DEF Next, Pattern, Abstract!Pattern

(* The driver on a safe base graph implements the transactional store with *)
(* a backend: whatever the interface and the file storage raise, a commit  *)
(* stores a part of what is pending at worst, it never changes what is     *)
(* read, and a rollback returns to what is stored.                         *)
THEOREM Implementation ==
    ASSUME SafeBase
    PROVE  Spec => ImplementsBackend
<1>1. Init => Abstract!Init
  BY DriverAssumption
     DEF Init, BaseInit, Working, Abstract!Init, Abstract!Triple, Triple, Durable, View,
         Stored, Pending
<1>2. Inv /\ Clean /\ [Next]_vars
        => [Abstract!Next \/ Abstract!Persist \/ Abstract!Simulate]_(Abstract!vars)
  BY SafeBase, StepSimulation
<1>3. Spec => []Clean
  BY SafeBase, CleanInvariance
<1> QED
  BY <1>1, <1>2, <1>3, Invariance, PTL DEF Spec, ImplementsBackend, Abstract!BackendSpec

(***************************************************************************)
(* Entity tracking.  It compares numbers of triples, and numbers of        *)
(* triples there are in finite graphs only.                                *)
(***************************************************************************)
FiniteVocabulary == IsFiniteSet(Triple)

(* An entity with more triples than are deleted from it keeps one.         *)
LEMMA DeletionsLeaveOne ==
    ASSUME FiniteVocabulary, TypeOK, NEW s,
           ~(Cardinality(Of(s, uDeleted)) + Cardinality(Of(s, cDeleted))
                 >= Cardinality(Of(s, Stored)))
    PROVE  \E t \in Of(s, Stored) : t \notin uDeleted \cup cDeleted
<1> DEFINE U == Of(s, uDeleted)
           C == Of(s, cDeleted)
           S == Of(s, Stored)
<1> SUFFICES ASSUME S \subseteq U \cup C
             PROVE  FALSE
  BY DEF Of
<1>1. /\ U \in SUBSET Triple /\ C \in SUBSET Triple
      /\ ~(Cardinality(U) + Cardinality(C) >= Cardinality(S))
  BY DriverAssumption DEF Of, TypeOK
<1> HIDE DEF U, C, S
<1>2. /\ IsFiniteSet(U) /\ IsFiniteSet(C)
      /\ Cardinality(U) \in Nat /\ Cardinality(C) \in Nat
  BY <1>1, FS_Subset, FS_CardinalityType DEF FiniteVocabulary
<1>3. /\ IsFiniteSet(U \cup C) /\ IsFiniteSet(U \cap C)
      /\ Cardinality(U \cup C) = Cardinality(U) + Cardinality(C) - Cardinality(U \cap C)
  BY <1>2, FS_Union, FS_Intersection
<1>4. Cardinality(U \cap C) \in Nat /\ Cardinality(U \cup C) \in Nat
  BY <1>3, FS_CardinalityType
<1>5. /\ Cardinality(S) <= Cardinality(U \cup C)
      /\ Cardinality(S) \in Nat
  BY <1>3, FS_Subset, FS_CardinalityType
<1> QED
  BY <1>1, <1>2, <1>3, <1>4, <1>5

(* The typed entities of both graphs can all be looked up.                 *)
LEMMA TypedEntitiesResolve ==
    ASSUME FiniteVocabulary, TypeOK
    PROVE  TypedCommitAccepted
<1> SUFFICES ASSUME DeletionsPending, WellTyped(Stored), WellTyped(View)
             PROVE  EntitiesResolve
  BY DEF TypedCommitAccepted
<1>1. ASSUME NEW s \in AddedEntities
      PROVE  s \in SubjectsOf(View)
  BY <1>1 DEF AddedEntities, SubjectsOf, View, DeletionsPending
<1>2. ASSUME NEW s \in UpdatedEntities
      PROVE  s \in SubjectsOf(View)
  <2>1. CASE s \in SubjectsOf(Pending)
    BY <2>1 DEF SubjectsOf, View
  <2>2. CASE s \notin SubjectsOf(Pending)
    <3>1. s \in SubjectsOf(uDeleted \cup cDeleted) /\ s \in SubjectsOf(Stored)
      BY <1>2, <2>2 DEF UpdatedEntities, SubjectsOf
    <3>2. s \notin DeletedEntities
      BY <1>2 DEF UpdatedEntities
    <3>3. \E t \in Of(s, Stored) : t \notin uDeleted \cup cDeleted
      BY <3>1, <3>2, DeletionsLeaveOne DEF DeletedEntities
    <3> QED
      BY <2>2, <3>3 DEF Of, SubjectsOf, View
  <2> QED
    BY <2>1, <2>2
<1>3. ASSUME NEW s \in DeletedEntities
      PROVE  s \in SubjectsOf(Stored)
  BY DEF DeletedEntities
<1> QED
  BY <1>1, <1>2, <1>3 DEF WellTyped, EntitiesResolve

(* A commit is not refused by its own entity tracking, whatever the        *)
(* division of the triples and whichever calls raised before.              *)
THEOREM TypedCommitsAccepted ==
    ASSUME FiniteVocabulary
    PROVE  Spec => []TypedCommitAccepted
BY TypeCorrect, TypedEntitiesResolve, PTL

(* Entity tracking reports as added exactly the entities the new graph has *)
(* and the old one has not, first attempt or not.                          *)
THEOREM AddedReportedExactly == Spec => AddedEntitiesExact
<1>1. ASSUME NEW byCompute \in BOOLEAN, BeginCommit(byCompute), EntityTracking, DeletionsPending
      PROVE  tracked'.added = SubjectsOf(View) \ SubjectsOf(Stored)
  <2>1. tracked'.added = AddedEntities
    BY <1>1 DEF BeginCommit
  <2>2. AddedEntities = SubjectsOf(View) \ SubjectsOf(Stored)
    BY <1>1 DEF AddedEntities, SubjectsOf, View, DeletionsPending
  <2> QED
    BY <2>1, <2>2
<1>2. [Next]_vars =>
        [\A byCompute \in BOOLEAN :
            BeginCommit(byCompute) /\ EntityTracking /\ DeletionsPending =>
                tracked'.added = SubjectsOf(View) \ SubjectsOf(Stored)]_vars
  BY <1>1
<1> QED
  BY <1>2, PTL DEF Spec, AddedEntitiesExact

(* Every entity that a commit changes is on one of the three lists.        *)
THEOREM AllChangesReported == Spec => ChangesReported
<1>1. ASSUME NEW byCompute \in BOOLEAN, BeginCommit(byCompute), EntityTracking
      PROVE  SubjectsOf((Stored \ View) \cup (View \ Stored)) \subseteq
                 tracked'.added \cup tracked'.updated \cup tracked'.deleted
  <2>1. /\ tracked'.added = AddedEntities /\ tracked'.updated = UpdatedEntities
        /\ tracked'.deleted = DeletedEntities
    BY <1>1 DEF BeginCommit
  <2>2. SubjectsOf((Stored \ View) \cup (View \ Stored)) \subseteq
            AddedEntities \cup UpdatedEntities \cup DeletedEntities
    BY DEF AddedEntities, UpdatedEntities, SubjectsOf, View
  <2> QED
    BY <2>1, <2>2
<1>2. [Next]_vars =>
        [\A byCompute \in BOOLEAN : BeginCommit(byCompute) /\ EntityTracking =>
            SubjectsOf((Stored \ View) \cup (View \ Stored)) \subseteq
                tracked'.added \cup tracked'.updated \cup tracked'.deleted]_vars
  BY <1>1
<1> QED
  BY <1>2, PTL DEF Spec, ChangesReported
=============================================================================
