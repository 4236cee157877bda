-------------------------- MODULE IndividualsProofs --------------------------
(***************************************************************************)
(* What holds of the sets of individuals and of sessions for every         *)
(* terminology, every conversion of values that is stable, and every graph *)
(* that the operations can produce. The outcome of an operation is         *)
(* followed through the few steps that the operations share: adding        *)
(* element by element, deleting, and replacing.                            *)
(***************************************************************************)
EXTENDS Individuals, FiniteSetTheorems, TLAPS

-----------------------------------------------------------------------------
(* Which operation of which kind of set it is.                             *)
LEMMA KindsAreDistinct ==
    /\ \A p \in Attribute : p \notin Relationship /\ p \notin Annotation
    /\ \A p \in Relationship : p \notin Attribute /\ p \notin Annotation
    /\ \A p \in Annotation : p \notin Attribute /\ p \notin Relationship
    /\ \A p \in Predicate : p # Type
BY ObjectSetsAssumption DEF Predicate

(* What the operations of DataStructureSet are for an attribute.           *)
LEMMA AttributeOperations ==
    ASSUME NEW g, NEW s, s.predicate \in Attribute, NEW V
    PROVE  /\ Members(g, s) = AttributeMembers(g, s)
           /\ Update(g, s, V) = AttributeUpdate(g, s, V)
           /\ Intersection(g, s, V) = AttributeIntersection(g, s, V)
           /\ Difference(g, s, V) = AttributeDifference(g, s, V)
           /\ Symmetric(g, s, V) = AttributeSymmetric(g, s, V)
BY KindsAreDistinct DEF Members, Update, Intersection, Difference, Symmetric

(* What they are for a relationship.                                       *)
LEMMA RelationshipOperations ==
    ASSUME NEW g, NEW s, s.predicate \in Relationship, NEW V
    PROVE  /\ Members(g, s) = RelationshipMembers(g, s)
           /\ Update(g, s, V) = RelationshipUpdate(g, s, V)
           /\ Intersection(g, s, V) = RelationshipIntersection(g, s, V)
           /\ Difference(g, s, V) = RelationshipDifference(g, s, V)
           /\ Symmetric(g, s, V) = RelationshipSymmetric(g, s, V)
BY KindsAreDistinct DEF Members, Update, Intersection, Difference, Symmetric

(* What they are for an annotation.                                        *)
LEMMA AnnotationOperations ==
    ASSUME NEW g, NEW s, s.predicate \in Annotation, NEW V
    PROVE  /\ Members(g, s) = AnnotationMembers(g, s)
           /\ Update(g, s, V) = AnnotationUpdate(g, s, V)
           /\ Intersection(g, s, V) = AnnotationIntersection(g, s, V)
           /\ Difference(g, s, V) = AnnotationDifference(g, s, V)
           /\ Symmetric(g, s, V) = AnnotationSymmetric(g, s, V)
BY KindsAreDistinct DEF Members, Update, Intersection, Difference, Symmetric

(* Every set is of an individual and a predicate; only those of            *)
(* relationships are inverted or restricted.                               *)
LEMMA SetsArePredicates ==
    ASSUME NEW s \in Sets
    PROVE  /\ s.predicate \in Predicate /\ s.individual \in Individual
           /\ s.predicate \notin Relationship => s.inverse = FALSE /\ s.class = None
           /\ s.inverse \in BOOLEAN
BY KindsAreDistinct DEF Sets, Predicate

-----------------------------------------------------------------------------

(* An operation that returns leaves its graph and does not raise.          *)
LEMMA ReturnsParts ==
    ASSUME NEW g, NEW r \in Returns(g) PROVE r.graph = g /\ r.raised = FALSE /\ ~r.raised
BY DEF Returns

(* One that raises leaves its graph too.                                   *)
LEMMA RaisesParts ==
    ASSUME NEW g, NEW r \in Raises(g) PROVE r.graph = g /\ r.raised = TRUE /\ r.raised
BY DEF Raises

(* Adding element by element loses nothing, adds no more than was asked    *)
(* for, raises for bad elements only, and adds everything if it does not   *)
(* raise.                                                                  *)
LEMMA EachAdded ==
    ASSUME NEW g, NEW good, NEW bad \in BOOLEAN, NEW r \in AddEach(g, good, bad)
    PROVE  /\ g \subseteq r.graph /\ r.graph \subseteq g \cup good
           /\ r.raised <=> bad
           /\ ~r.raised => r.graph = g \cup good
<1>1. CASE bad = TRUE
  <2>1. PICK W \in SUBSET good : r \in Raises(g \cup W)
    BY <1>1 DEF AddEach
  <2>2. r.graph = g \cup W /\ r.raised
    BY <2>1, RaisesParts
  <2> QED BY <1>1, <2>2
<1>2. CASE bad = FALSE
  <2>1. r \in Returns(g \cup good)
    BY <1>2 DEF AddEach
  <2>2. r.graph = g \cup good /\ ~r.raised
    BY <2>1, ReturnsParts
  <2> QED BY <1>2, <2>2
<1> QED BY <1>1, <1>2

(* The same of attributes_add: it raises when a value cannot be converted. *)
LEMMA AttributesAdded ==
    ASSUME NEW g, NEW i, NEW a, NEW V, NEW r \in AttributesAdd(g, i, a, V)
    PROVE  /\ g \subseteq r.graph /\ r.graph \subseteq g \cup {<<i, a, l>> : l \in StoredAs(a, V)}
           /\ r.raised <=> Refuses(a, V)
           /\ ~r.raised => r.graph = g \cup {<<i, a, l>> : l \in StoredAs(a, V)}
<1> DEFINE good == {<<i, a, l>> : l \in StoredAs(a, V)}  bad == Refuses(a, V)
<1>1. r \in AddEach(g, good, bad)
  BY DEF AttributesAdd
<1>2. bad \in BOOLEAN
  BY DEF Refuses
<1> HIDE DEF good, bad
<1>3. /\ g \subseteq r.graph /\ r.graph \subseteq g \cup good
      /\ r.raised <=> bad
      /\ ~r.raised => r.graph = g \cup good
  BY <1>1, <1>2, EachAdded
<1> QED BY <1>3 DEF good, bad

(* The statements that attributes_delete is to remove.                     *)
Gone(i, P, V) == {t \in {i} \X P \X Literal : \E v \in V : Cast[t[2]][v] = t[3]}

(* attributes_delete removes nothing else, and all of them if it does not  *)
(* raise.                                                                  *)
LEMMA AttributesDeleted ==
    ASSUME NEW g, NEW i, NEW P, NEW V, NEW r \in AttributesDelete(g, i, P, V)
    PROVE  /\ r.graph \subseteq g /\ g \ Gone(i, P, V) \subseteq r.graph
           /\ ~r.raised => r.graph = g \ Gone(i, P, V) /\ \A b \in P : ~Refuses(b, V)
<1> DEFINE gone == Gone(i, P, V)
           Of(B) == {t \in gone : t[2] \in B}
           refusing == {b \in P : Refuses(b, V)}
           Left(B, W) == Raises(g \ (Of(B) \cup W))
           Bs == SUBSET (P \ refusing)
           Ws == UNION {SUBSET Of({c}) : c \in refusing}
           some == UNION {Left(B, W) : B \in Bs, W \in Ws}
<1>1. AttributesDelete(g, i, P, V) = IF refusing = {} THEN Returns(g \ gone) ELSE some
  BY DEF AttributesDelete, Gone
<1>2. \A B \in Bs, W \in Ws : Of(B) \cup W \subseteq gone
  OBVIOUS
<1>3. CASE refusing = {}
  <2>1. \A b \in P : ~Refuses(b, V)
    BY <1>3
  <2> HIDE DEF gone, refusing, some
  <2>2. r \in Returns(g \ gone)
    BY <1>1, <1>3
  <2>3. r.graph = g \ gone /\ ~r.raised
    BY <2>2, ReturnsParts
  <2> QED BY <2>1, <2>3 DEF gone
<1>4. CASE refusing # {}
  <2> HIDE DEF gone, refusing, some
  <2>1. r \in some
    BY <1>1, <1>4
  <2> HIDE DEF Left, Bs, Ws
  <2>2. PICK B \in Bs, W \in Ws : r \in Left(B, W)
    BY <2>1 DEF some
  <2>3. r.graph = g \ (Of(B) \cup W) /\ r.raised
    BY <2>2, RaisesParts DEF Left
  <2> HIDE DEF Of
  <2> QED BY <1>2, <2>3 DEF gone
<1> QED BY <1>3, <1>4

-----------------------------------------------------------------------------
(* Only statements about i under P differ between g and h.                 *)
Confined(g, h, i, P) == \A t \in (g \ h) \cup (h \ g) : t[1] = i /\ t[2] \in P

(* Two changes confined to the same statements are together.               *)
LEMMA ConfinedIsTransitive ==
    ASSUME NEW g, NEW h, NEW k, NEW i, NEW P, Confined(g, h, i, P), Confined(h, k, i, P)
    PROVE  Confined(g, k, i, P)
BY DEF Confined

(* Adding values changes statements under their attribute only.            *)
LEMMA AddedIsConfined ==
    ASSUME NEW g, NEW i, NEW a, NEW V, NEW P, a \in P
    PROVE  \A r \in AttributesAdd(g, i, a, V) : Confined(g, r.graph, i, P)
<1> SUFFICES ASSUME NEW r \in AttributesAdd(g, i, a, V) PROVE Confined(g, r.graph, i, P)
  OBVIOUS
<1> QED BY AttributesAdded DEF Confined

(* Deleting values changes statements under the attributes given only.     *)
LEMMA DeletedIsConfined ==
    ASSUME NEW g, NEW i, NEW P, NEW V
    PROVE  \A r \in AttributesDelete(g, i, P, V) : Confined(g, r.graph, i, P)
<1> SUFFICES ASSUME NEW r \in AttributesDelete(g, i, P, V) PROVE Confined(g, r.graph, i, P)
  OBVIOUS
<1>1. \A t \in Gone(i, P, V) : t[1] = i /\ t[2] \in P
  BY DEF Gone
<1> QED BY <1>1, AttributesDeleted DEF Confined

(* A set of an attribute changes statements under its subclasses only,     *)
(* also when an operation raises half way.                                 *)
LEMMA AttributeSetsAreConfined ==
    ASSUME NEW g, NEW s, s.predicate \in Attribute, NEW V, NEW r,
           \/ r \in Update(g, s, V) \/ r \in Intersection(g, s, V)
           \/ r \in Difference(g, s, V) \/ r \in Symmetric(g, s, V)
    PROVE  Confined(g, r.graph, s.individual, Sub[s.predicate])
<1> DEFINE M == AttributeMembers(g, s)
<1>0. s.predicate \in Sub[s.predicate]
  BY ObjectSetsAssumption
<1>1. CASE r \in Update(g, s, V)
  <2>1. r \in AttributesAdd(g, s.individual, s.predicate, V \ M)
    BY <1>1, AttributeOperations DEF AttributeUpdate
  <2> QED BY <1>0, <2>1, AddedIsConfined
<1>2. CASE r \in Intersection(g, s, V)
  <2>1. r \in AttributesDelete(g, s.individual, Sub[s.predicate], M \ V)
    BY <1>2, AttributeOperations DEF AttributeIntersection
  <2> QED BY <2>1, DeletedIsConfined
<1>3. CASE r \in Difference(g, s, V)
  <2>1. r \in AttributesDelete(g, s.individual, Sub[s.predicate], M \cap V)
    BY <1>3, AttributeOperations DEF AttributeDifference
  <2> QED BY <2>1, DeletedIsConfined
<1>4. CASE r \in Symmetric(g, s, V)
  <2> DEFINE H == AttributesAdd(g, s.individual, s.predicate, V \ M)
             Then(q) == IF q.raised THEN {q}
                        ELSE AttributesDelete(q.graph, s.individual, Sub[s.predicate], M \cap V)
  <2>0. r \in UNION {Then(q) : q \in H}
    BY <1>4, AttributeOperations DEF AttributeSymmetric
  <2>1. PICK q \in H : r \in Then(q)
    <3> HIDE DEF H, Then
    <3> QED BY <2>0
  <2>2. Confined(g, q.graph, s.individual, Sub[s.predicate])
    BY <1>0, <2>1, AddedIsConfined
  <2>3. CASE q.raised
    BY <2>1, <2>2, <2>3
  <2>4. CASE ~q.raised
    <3>1. r \in AttributesDelete(q.graph, s.individual, Sub[s.predicate], M \cap V)
      BY <2>1, <2>4
    <3>2. Confined(q.graph, r.graph, s.individual, Sub[s.predicate])
      BY <3>1, DeletedIsConfined
    <3> QED BY <2>2, <3>2, ConfinedIsTransitive
  <2> QED BY <2>3, <2>4
<1> QED BY <1>1, <1>2, <1>3, <1>4

(* An update of a set of a relationship adds statements for those not      *)
(* connected yet, all of them if it does not raise; then all were          *)
(* individuals that are known or not connected.                            *)
LEMMA RelationshipUpdated ==
    ASSUME NEW g, NEW s, NEW V, NEW r \in RelationshipUpdate(g, s, V)
    PROVE  LET new == (V \cap Individual) \ Connected(g, s) IN
           /\ g \subseteq r.graph /\ r.graph \subseteq g \cup Statements(s, new)
           /\ ~r.raised => /\ s.class = None /\ r.graph = g \cup Statements(s, new)
                          /\ \A x \in V : x \in Individual /\ ~Dangling(g, s, x)
<1> DEFINE new == (V \cap Individual) \ Connected(g, s)
           bad == \E x \in V : x \notin Individual \/ Dangling(g, s, x)
<1>1. CASE s.class # None
  <2>1. r \in Raises(g)
    BY <1>1 DEF RelationshipUpdate
  <2> QED BY <2>1, RaisesParts
<1>2. CASE s.class = None
  <2> DEFINE added == Statements(s, new)
  <2>1. r \in AddEach(g, added, bad)
    BY <1>2 DEF RelationshipUpdate
  <2>2. bad \in BOOLEAN
    OBVIOUS
  <2>3. /\ g \subseteq r.graph /\ r.graph \subseteq g \cup added
        /\ r.raised <=> bad
        /\ ~r.raised => r.graph = g \cup added
    <3> HIDE DEF bad, added
    <3> QED BY <2>1, <2>2, EachAdded
  <2> QED BY <1>2, <2>3
<1> QED BY <1>1, <1>2

(* A set of a relationship changes statements under its subclasses only.   *)
LEMMA RelationshipSetsAreConfined ==
    ASSUME NEW g, NEW s, s.predicate \in Relationship, NEW V, NEW r,
           \/ r \in Update(g, s, V) \/ r \in Intersection(g, s, V)
           \/ r \in Difference(g, s, V) \/ r \in Symmetric(g, s, V)
    PROVE  Confined(g, r.graph, s.individual, Sub[s.predicate])
<1> DEFINE i == s.individual  P == Sub[s.predicate]  M == RelationshipMembers(g, s)
<1>0. s.predicate \in P
  BY ObjectSetsAssumption
<1>1. \A h : \A X : Confined(h, Disconnect(h, s, X), i, P)
  BY DEF Confined, Disconnect
<1>2. \A h, k : \A X : h \subseteq k /\ k \subseteq h \cup Statements(s, X) => Confined(h, k, i, P)
  BY <1>0 DEF Confined, Statements
<1>3. CASE r \in Update(g, s, V)
  <2>1. r \in RelationshipUpdate(g, s, V)
    BY <1>3, RelationshipOperations
  <2> DEFINE new == (V \cap Individual) \ Connected(g, s)
  <2>2. g \subseteq r.graph /\ r.graph \subseteq g \cup Statements(s, new)
    BY <2>1, RelationshipUpdated
  <2> HIDE DEF new
  <2> QED BY <2>2, <1>2
<1>4. ASSUME r.graph = g \/ \E X : r.graph = Disconnect(g, s, X)
      PROVE  Confined(g, r.graph, i, P)
  BY <1>1, <1>4 DEF Confined
<1>5. CASE r \in Intersection(g, s, V)
  <2>1. r \in Raises(g) \/ r \in Returns(Disconnect(g, s, M \ V))
    BY <1>5, RelationshipOperations DEF RelationshipIntersection
  <2> QED BY <2>1, <1>4, RaisesParts, ReturnsParts
<1>6. CASE r \in Difference(g, s, V)
  <2>1. r \in Raises(g) \/ r \in Returns(Disconnect(g, s, M \cap V))
    BY <1>6, RelationshipOperations DEF RelationshipDifference
  <2> QED BY <2>1, <1>4, RaisesParts, ReturnsParts
<1>7. CASE r \in Symmetric(g, s, V)
  <2> DEFINE h == Disconnect(g, s, M \cap V)
             k == h \cup Statements(s, V \ M)
  <2>1. r \in Raises(g) \/ r \in Raises(h) \/ r \in Returns(k)
    BY <1>7, RelationshipOperations DEF RelationshipSymmetric
  <2>2. Confined(g, h, i, P) /\ Confined(h, k, i, P)
    BY <1>1, <1>2
  <2> HIDE DEF h, k, i, P
  <2>3. Confined(g, k, i, P)
    BY <2>2, ConfinedIsTransitive
  <2>4. r.graph = g \/ r.graph = h \/ r.graph = k
    BY <2>1, RaisesParts, ReturnsParts
  <2>5. Confined(g, g, i, P)
    BY DEF Confined
  <2> QED BY <2>2, <2>3, <2>4, <2>5 DEF i, P
<1> QED BY <1>3, <1>5, <1>6, <1>7

(* A set of an annotation changes statements under it only.                *)
LEMMA AnnotationSetsAreConfined ==
    ASSUME NEW g, NEW s, s.predicate \in Annotation, NEW V, NEW r,
           \/ r \in Update(g, s, V) \/ r \in Intersection(g, s, V)
           \/ r \in Difference(g, s, V) \/ r \in Symmetric(g, s, V)
    PROVE  Confined(g, r.graph, s.individual, {s.predicate})
<1> DEFINE i == s.individual  n == s.predicate  M == AnnotationMembers(g, s)
<1>1. \A h, X, q : q \in AnnotationsAdd(h, i, n, X) => Confined(h, q.graph, i, {n})
  <2> SUFFICES ASSUME NEW h, NEW X, NEW q \in AnnotationsAdd(h, i, n, X)
               PROVE  Confined(h, q.graph, i, {n})
    OBVIOUS
  <2>1. q.graph = h \cup {<<i, n, o>> : o \in AsObjects(X)}
    BY ReturnsParts DEF AnnotationsAdd
  <2> QED BY <2>1 DEF Confined
<1>2. \A h, X, q : q \in AnnotationsDelete(h, i, n, X) => Confined(h, q.graph, i, {n})
  <2> SUFFICES ASSUME NEW h, NEW X, NEW q \in AnnotationsDelete(h, i, n, X)
               PROVE  Confined(h, q.graph, i, {n})
    OBVIOUS
  <2>1. q.graph = h \ {<<i, n, o>> : o \in TextLiterals(X)}
    BY ReturnsParts DEF AnnotationsDelete
  <2> QED BY <2>1 DEF Confined
<1>3. \A X, q : q \in AnnotationsSet(g, i, n, X) => Confined(g, q.graph, i, {n})
  <2> SUFFICES ASSUME NEW X, NEW q \in AnnotationsSet(g, i, n, X)
               PROVE  Confined(g, q.graph, i, {n})
    OBVIOUS
  <2> DEFINE h == {t \in g : ~(t[1] = i /\ t[2] = n)}
  <2>1. Confined(g, h, i, {n})
    BY DEF Confined
  <2>2. Confined(h, q.graph, i, {n})
    BY <1>1 DEF AnnotationsSet
  <2> HIDE DEF h, i, n
  <2> QED BY <2>1, <2>2, ConfinedIsTransitive
<1>4. \/ r \in AnnotationsAdd(g, i, n, V) \/ r \in AnnotationsSet(g, i, n, V)
      \/ r \in AnnotationsDelete(g, i, n, M \cap V)
      \/ r \in AnnotationsSet(g, i, n, (M \ V) \cup (V \ M))
  <2>1. CASE r \in Update(g, s, V)
    BY <2>1, AnnotationOperations DEF AnnotationUpdate
  <2>2. CASE r \in Intersection(g, s, V)
    BY <2>2, AnnotationOperations DEF AnnotationIntersection
  <2>3. CASE r \in Difference(g, s, V)
    BY <2>3, AnnotationOperations DEF AnnotationDifference
  <2>4. CASE r \in Symmetric(g, s, V)
    BY <2>4, AnnotationOperations DEF AnnotationSymmetric
  <2> QED BY <2>1, <2>2, <2>3, <2>4
<1> QED BY <1>1, <1>2, <1>3, <1>4

(* Whatever its kind, a set changes statements of its individual under its *)
(* predicate and the subclasses of that only.                              *)
LEMMA SetsAreConfined ==
    ASSUME NEW g, NEW s \in Sets, NEW V, NEW r,
           \/ r \in Update(g, s, V) \/ r \in Intersection(g, s, V)
           \/ r \in Difference(g, s, V) \/ r \in Symmetric(g, s, V)
    PROVE  Confined(g, r.graph, s.individual, Within(s.predicate))
<1>1. s.predicate \in Predicate
  BY SetsArePredicates
<1>2. CASE s.predicate \in Attribute
  BY <1>2, KindsAreDistinct, AttributeSetsAreConfined DEF Within
<1>3. CASE s.predicate \in Relationship
  BY <1>3, KindsAreDistinct, RelationshipSetsAreConfined DEF Within
<1>4. CASE s.predicate \in Annotation
  BY <1>4, AnnotationSetsAreConfined DEF Within
<1> QED BY <1>1, <1>2, <1>3, <1>4 DEF Predicate

(* So do pop and remove, which are built from the others.                  *)
LEMMA SetOperationsAreConfined == OnlyOwnStatements
<1> SUFFICES ASSUME NEW s \in Sets, NEW V \in Arguments(s.predicate),
                    NEW r \in SetOperations(graph, s, V)
             PROVE  Confined(graph, r.graph, s.individual, Within(s.predicate))
  BY DEF OnlyOwnStatements, Confined
<1>1. CASE \/ r \in Update(graph, s, V) \/ r \in Intersection(graph, s, V)
           \/ r \in Difference(graph, s, V) \/ r \in Symmetric(graph, s, V)
  BY <1>1, SetsAreConfined
<1>2. ASSUME r \in Raises(graph) PROVE Confined(graph, r.graph, s.individual, Within(s.predicate))
  BY <1>2, RaisesParts DEF Confined
<1>3. CASE r \in Pop(graph, s)
  <2>1. r \in Raises(graph) \/ \E v : r \in Difference(graph, s, {v})
    BY <1>3 DEF Pop
  <2> QED BY <1>2, <2>1, SetsAreConfined
<1>4. CASE r \in UNION {Remove(graph, s, v) : v \in V}
  <2>1. r \in Raises(graph) \/ \E v : r \in Difference(graph, s, {v})
    BY <1>4 DEF Remove
  <2> QED BY <1>2, <2>1, SetsAreConfined
<1> QED BY <1>1, <1>3, <1>4 DEF SetOperations

(* Whatever a set of an individual is asked to do, in whatever graph and   *)
(* wherever it stops, it changes statements of that individual under the   *)
(* predicate and its subclasses, and no others (DataStructureSet and the   *)
(* three kinds of set).                                                    *)
THEOREM SetsChangeOnlyTheirOwn == Spec => []OnlyOwnStatements
BY SetOperationsAreConfined, PTL

-----------------------------------------------------------------------------
(* What is stored for values is read as something that is stored the same. *)
LEMMA AttributeStatements ==
    ASSUME NEW i \in Individual, NEW a \in Attribute, NEW V \in SUBSET Value
    PROVE  {<<i, a, l>> : l \in StoredAs(a, V)} \subseteq Stored
<1> SUFFICES ASSUME NEW l \in StoredAs(a, V) PROVE <<i, a, l>> \in Stored
  OBVIOUS
<1>1. PICK v \in V : l = Cast[a][v] /\ l # None
  BY DEF StoredAs
<1>2. l \in Literal /\ Cast[a][Python[l]] = l
  BY <1>1, CastAssumption
<1>3. <<i, a, l>> \in Individual \X Attribute \X Literal
  BY <1>2
<1> QED BY <1>2, <1>3 DEF Stored, Statement

(* A statement between individuals may be stored.                          *)
LEMMA RelationshipStatements ==
    ASSUME NEW i \in Individual, NEW r \in Relationship, NEW x \in Individual
    PROVE  <<i, r, x>> \in Stored
<1>1. <<i, r, x>> \in Individual \X Relationship \X (Individual \cup Iri)
  OBVIOUS
<1>2. r \notin Attribute
  BY KindsAreDistinct
<1> QED BY <1>1, <1>2 DEF Stored, Statement

(* An annotation with any object that annotations_add makes may be stored. *)
LEMMA AnnotationStatements ==
    ASSUME NEW i \in Individual, NEW n \in Annotation
    PROVE  /\ \A o \in Entity \cup Iri \cup Literal : <<i, n, o>> \in Stored
           /\ \A X : \A o \in AsObjects(X) : <<i, n, o>> \in Stored
<1>1. ASSUME NEW o \in Entity \cup Iri \cup Literal PROVE <<i, n, o>> \in Stored
  <2>1. <<i, n, o>> \in Individual \X Annotation \X (Entity \cup Iri \cup Literal)
    OBVIOUS
  <2>2. n \notin Attribute
    BY KindsAreDistinct
  <2> QED BY <2>1, <2>2 DEF Stored, Statement
<1>2. ASSUME NEW X, NEW o \in AsObjects(X) PROVE o \in Entity \cup Iri \cup Literal
  <2>1. CASE o \in X \cap Entity
    BY <2>1
  <2>2. CASE o \in {h[2] : h \in X \cap Foreign}
    BY <2>2 DEF Foreign, Entity
  <2>3. CASE o \in TextLiterals(X)
    BY <2>3, TextAssumption DEF TextLiterals, Entity
  <2> QED BY <2>1, <2>2, <2>3 DEF AsObjects
<1> QED BY <1>1, <1>2

(* The type of an individual may be stored.                                *)
LEMMA TypeStatements ==
    ASSUME NEW i \in Individual, NEW c \in Class
    PROVE  <<i, Type, c>> \in Stored
<1>1. <<i, Type, c>> \in Individual \X {Type} \X Class
  OBVIOUS
<1>2. Type \notin Attribute
  BY KindsAreDistinct DEF Predicate
<1> QED BY <1>1, <1>2 DEF Stored, Statement

-----------------------------------------------------------------------------
(* attributes_add keeps literals as their values are converted, raising or *)
(* not.                                                                    *)
LEMMA AttributesAddKeeps ==
    ASSUME NEW g \in SUBSET Stored, NEW i \in Individual, NEW a \in Attribute,
           NEW V \in SUBSET Value, NEW r \in AttributesAdd(g, i, a, V)
    PROVE  r.graph \in SUBSET Stored
BY AttributesAdded, AttributeStatements

(* So do annotations_set and annotations_add.                              *)
LEMMA AnnotationsSetKeeps ==
    ASSUME NEW g \in SUBSET Stored, NEW i \in Individual, NEW n \in Annotation, NEW V,
           NEW r, r \in AnnotationsSet(g, i, n, V) \/ r \in AnnotationsAdd(g, i, n, V)
    PROVE  r.graph \in SUBSET Stored
<1>1. ASSUME NEW h \in SUBSET Stored, r \in AnnotationsAdd(h, i, n, V)
      PROVE  r.graph \in SUBSET Stored
  <2>1. r.graph = h \cup {<<i, n, o>> : o \in AsObjects(V)}
    BY <1>1, ReturnsParts DEF AnnotationsAdd
  <2> QED BY <2>1, AnnotationStatements
<1>2. CASE r \in AnnotationsSet(g, i, n, V)
  BY <1>1, <1>2 DEF AnnotationsSet
<1> QED BY <1>1, <1>2

(* So do all operations of a set of an attribute.                          *)
LEMMA AttributeSetsKeep ==
    ASSUME NEW g \in SUBSET Stored, NEW s \in Sets, s.predicate \in Attribute, NEW V, NEW r,
           \/ V \in SUBSET Value /\ (r \in AttributeUpdate(g, s, V) \/ r \in AttributeSymmetric(g, s, V))
           \/ r \in AttributeIntersection(g, s, V) \/ r \in AttributeDifference(g, s, V)
    PROVE  r.graph \in SUBSET Stored
<1> DEFINE M == AttributeMembers(g, s)
<1>0. s.individual \in Individual
  BY SetsArePredicates
<1>1. ASSUME V \in SUBSET Value PROVE V \ M \in SUBSET Value
  BY <1>1
<1>2. CASE V \in SUBSET Value /\ r \in AttributeUpdate(g, s, V)
  BY <1>0, <1>1, <1>2, AttributesAddKeeps DEF AttributeUpdate
<1>3. CASE r \in AttributeIntersection(g, s, V)
  BY <1>3, AttributesDeleted DEF AttributeIntersection
<1>4. CASE r \in AttributeDifference(g, s, V)
  BY <1>4, AttributesDeleted DEF AttributeDifference
<1>5. CASE V \in SUBSET Value /\ r \in AttributeSymmetric(g, s, V)
  <2> DEFINE H == AttributesAdd(g, s.individual, s.predicate, V \ M)
             Then(q) == IF q.raised THEN {q}
                        ELSE AttributesDelete(q.graph, s.individual, Sub[s.predicate], M \cap V)
  <2>0. r \in UNION {Then(q) : q \in H}
    BY <1>5 DEF AttributeSymmetric
  <2>1. PICK q \in H : r \in Then(q)
    <3> HIDE DEF H, Then
    <3> QED BY <2>0
  <2>2. q.graph \in SUBSET Stored
    BY <1>0, <1>1, <1>5, <2>1, AttributesAddKeeps
  <2>3. CASE q.raised
    BY <2>1, <2>2, <2>3
  <2>4. CASE ~q.raised
    <3>1. r \in AttributesDelete(q.graph, s.individual, Sub[s.predicate], M \cap V)
      BY <2>1, <2>4
    <3>2. r.graph \subseteq q.graph
      BY <3>1, AttributesDeleted
    <3> QED BY <2>2, <3>2
  <2> QED BY <2>3, <2>4
<1> QED BY <1>2, <1>3, <1>4, <1>5

(* So does the update of a set of a relationship.                          *)
LEMMA RelationshipUpdateKeeps ==
    ASSUME NEW g \in SUBSET Stored, NEW s \in Sets, s.predicate \in Relationship, NEW V,
           NEW r \in RelationshipUpdate(g, s, V)
    PROVE  r.graph \in SUBSET Stored
<1> DEFINE new == (V \cap Individual) \ Connected(g, s)
<1>0. s.individual \in Individual
  BY SetsArePredicates
<1>1. r.graph \subseteq g \cup Statements(s, new)
  BY RelationshipUpdated
<1>2. Statements(s, new) \subseteq Stored
  BY <1>0, RelationshipStatements DEF Statements
<1> HIDE DEF new
<1> QED BY <1>1, <1>2

(* The difference and the intersection of a set of a relationship only     *)
(* remove.                                                                 *)
LEMMA RelationshipSetsShrink ==
    ASSUME NEW g, NEW s, NEW V, NEW r,
           r \in RelationshipDifference(g, s, V) \/ r \in RelationshipIntersection(g, s, V)
    PROVE  r.graph \subseteq g
<1>1. r \in Raises(g) \/ \E X : r \in Returns(Disconnect(g, s, X))
  BY DEF RelationshipDifference, RelationshipIntersection
<1>2. \A X : Disconnect(g, s, X) \subseteq g
  BY DEF Disconnect
<1>3. ASSUME NEW X, r \in Returns(Disconnect(g, s, X)) PROVE r.graph \subseteq g
  <2>1. r.graph = Disconnect(g, s, X)
    BY <1>3, ReturnsParts
  <2> QED BY <1>2, <2>1
<1> QED BY <1>1, <1>3, RaisesParts

(* So do all operations of a set of a relationship.                        *)
LEMMA RelationshipSetsKeep ==
    ASSUME NEW g \in SUBSET Stored, NEW s \in Sets, s.predicate \in Relationship, NEW V, NEW r,
           \/ r \in RelationshipUpdate(g, s, V) \/ r \in RelationshipIntersection(g, s, V)
           \/ r \in RelationshipDifference(g, s, V) \/ r \in RelationshipSymmetric(g, s, V)
    PROVE  r.graph \in SUBSET Stored
<1>1. CASE r \in RelationshipSymmetric(g, s, V)
  <2> DEFINE M == RelationshipMembers(g, s)
             h == Disconnect(g, s, M \cap V)
             k == h \cup Statements(s, V \ M)
  <2>1. r \in Raises(g) \/ r \in Raises(h) \/ (r \in Returns(k) /\ V \subseteq Individual)
    BY <1>1 DEF RelationshipSymmetric
  <2>2. h \subseteq g
    BY DEF Disconnect
  <2>3. V \subseteq Individual => Statements(s, V \ M) \subseteq Stored
    BY SetsArePredicates, RelationshipStatements DEF Statements
  <2>4. V \subseteq Individual => k \subseteq g \cup Stored
    <3> HIDE DEF M, h
    <3> QED BY <2>2, <2>3
  <2> HIDE DEF M, h, k
  <2>5. r.graph = g \/ r.graph = h \/ (r.graph = k /\ V \subseteq Individual)
    BY <2>1, RaisesParts, ReturnsParts
  <2> QED BY <2>2, <2>4, <2>5
<1> QED BY <1>1, RelationshipUpdateKeeps, RelationshipSetsShrink

(* So do all operations of a set of an annotation.                         *)
LEMMA AnnotationSetsKeep ==
    ASSUME NEW g \in SUBSET Stored, NEW s \in Sets, s.predicate \in Annotation, NEW V, NEW r,
           \/ r \in AnnotationUpdate(g, s, V) \/ r \in AnnotationIntersection(g, s, V)
           \/ r \in AnnotationDifference(g, s, V) \/ r \in AnnotationSymmetric(g, s, V)
    PROVE  r.graph \in SUBSET Stored
<1>0. s.individual \in Individual
  BY SetsArePredicates
<1>1. CASE r \in AnnotationUpdate(g, s, V)
  BY <1>0, <1>1, AnnotationsSetKeeps DEF AnnotationUpdate
<1>2. CASE r \in AnnotationIntersection(g, s, V)
  BY <1>0, <1>2, AnnotationsSetKeeps DEF AnnotationIntersection
<1>3. CASE r \in AnnotationDifference(g, s, V)
  <2>1. r.graph \subseteq g
    BY <1>3, ReturnsParts DEF AnnotationDifference, AnnotationsDelete
  <2> QED BY <2>1
<1>4. CASE r \in AnnotationSymmetric(g, s, V)
  BY <1>0, <1>4, AnnotationsSetKeeps DEF AnnotationSymmetric
<1> QED BY <1>1, <1>2, <1>3, <1>4

(* So does whatever a set is asked to do, if an attribute is given values. *)
LEMMA SetsKeep ==
    ASSUME NEW g \in SUBSET Stored, NEW s \in Sets, NEW V, s.predicate \in Attribute => V \subseteq Value,
           NEW r \in SetOperations(g, s, V)
    PROVE  r.graph \in SUBSET Stored
<1>0. s.predicate \in Predicate
  BY SetsArePredicates
<1>1. ASSUME NEW W, r \in Difference(g, s, W) PROVE r.graph \in SUBSET Stored
  <2>1. CASE s.predicate \in Attribute
    <3>1. r \in AttributeDifference(g, s, W)
      BY <1>1, <2>1, AttributeOperations
    <3> QED BY <2>1, <3>1, AttributeSetsKeep
  <2>2. CASE s.predicate \in Relationship
    <3>1. r \in RelationshipDifference(g, s, W)
      BY <1>1, <2>2, RelationshipOperations
    <3> QED BY <2>2, <3>1, RelationshipSetsKeep
  <2>3. CASE s.predicate \in Annotation
    <3>1. r \in AnnotationDifference(g, s, W)
      BY <1>1, <2>3, AnnotationOperations
    <3> QED BY <2>3, <3>1, AnnotationSetsKeep
  <2> QED BY <1>0, <2>1, <2>2, <2>3 DEF Predicate
<1>2. ASSUME r \in Raises(g) PROVE r.graph \in SUBSET Stored
  BY <1>2, RaisesParts
<1>3. CASE r \in Update(g, s, V) \/ r \in Intersection(g, s, V) \/ r \in Symmetric(g, s, V)
  <2>1. CASE s.predicate \in Attribute
    <3>1. \/ r \in AttributeUpdate(g, s, V) \/ r \in AttributeSymmetric(g, s, V)
          \/ r \in AttributeIntersection(g, s, V)
      BY <1>3, <2>1, AttributeOperations
    <3> QED BY <2>1, <3>1, AttributeSetsKeep
  <2>2. CASE s.predicate \in Relationship
    <3>1. \/ r \in RelationshipUpdate(g, s, V) \/ r \in RelationshipSymmetric(g, s, V)
          \/ r \in RelationshipIntersection(g, s, V)
      BY <1>3, <2>2, RelationshipOperations
    <3> QED BY <2>2, <3>1, RelationshipSetsKeep
  <2>3. CASE s.predicate \in Annotation
    <3>1. \/ r \in AnnotationUpdate(g, s, V) \/ r \in AnnotationSymmetric(g, s, V)
          \/ r \in AnnotationIntersection(g, s, V)
      BY <1>3, <2>3, AnnotationOperations
    <3> QED BY <2>3, <3>1, AnnotationSetsKeep
  <2> QED BY <1>0, <2>1, <2>2, <2>3 DEF Predicate
<1>4. CASE r \in Difference(g, s, V)
  BY <1>1, <1>4
<1>5. CASE r \in Pop(g, s)
  <2>1. r \in Raises(g) \/ \E v : r \in Difference(g, s, {v})
    BY <1>5 DEF Pop
  <2> QED BY <1>1, <1>2, <2>1
<1>6. CASE r \in UNION {Remove(g, s, v) : v \in V}
  <2>1. r \in Raises(g) \/ \E v : r \in Difference(g, s, {v})
    BY <1>6 DEF Remove
  <2> QED BY <1>1, <1>2, <2>1
<1> QED BY <1>3, <1>4, <1>5, <1>6 DEF SetOperations

-----------------------------------------------------------------------------
(* individual[p] is a set.                                                 *)
LEMMA PlainSets ==
    ASSUME NEW i \in Individual, NEW p \in Predicate
    PROVE  /\ ObjectSet(i, p) \in Sets /\ ObjectSet(i, p).individual = i
           /\ ObjectSet(i, p).predicate = p /\ ObjectSet(i, p).class = None
           /\ ObjectSet(i, p).inverse = FALSE
BY DEF ObjectSet, Sets

(* The assignment to an attribute stores what its values are converted to, *)
(* also when it raises between its update and its difference.              *)
LEMMA AssignAttributeKeeps ==
    ASSUME NEW g \in SUBSET Stored, NEW i \in Individual, NEW a \in Attribute,
           NEW V \in SUBSET Value, NEW texts \in SUBSET Value,
           NEW r \in AssignAttribute(g, ObjectSet(i, a), V, texts)
    PROVE  r.graph \in SUBSET Stored
<1> DEFINE s == ObjectSet(i, a)  M == AttributeMembers(g, s)
           H == AttributesAdd(g, s.individual, s.predicate, (V \ M) \cup texts)
           Then(q) == IF q.raised THEN {q} ELSE AttributeDifference(q.graph, s, M \ V)
<1>1. r \in UNION {Then(q) : q \in H}
  BY DEF AssignAttribute
<1>2. PICK q \in H : r \in Then(q)
  <2> HIDE DEF H, Then
  <2> QED BY <1>1
<1>3. s \in Sets /\ s.predicate = a /\ s.individual = i
  BY PlainSets DEF Predicate
<1> HIDE DEF s
<1>4. q.graph \in SUBSET Stored
  <2>1. (V \ M) \cup texts \in SUBSET Value
    OBVIOUS
  <2>2. q \in AttributesAdd(g, i, a, (V \ M) \cup texts)
    BY <1>2, <1>3
  <2> HIDE DEF M
  <2> QED BY <2>1, <2>2, AttributesAddKeeps
<1>5. CASE q.raised
  BY <1>2, <1>4, <1>5
<1>6. CASE ~q.raised
  <2>1. r \in AttributeDifference(q.graph, s, M \ V)
    BY <1>2, <1>6
  <2> HIDE DEF M
  <2> QED BY <1>3, <1>4, <2>1, AttributeSetsKeep
<1> QED BY <1>5, <1>6

(* The assignment to a relationship stores statements between individuals. *)
LEMMA AssignRelationshipKeeps ==
    ASSUME NEW g \in SUBSET Stored, NEW i \in Individual, NEW p \in Relationship,
           NEW V, NEW r \in AssignRelationship(g, ObjectSet(i, p), V)
    PROVE  r.graph \in SUBSET Stored
<1> DEFINE s == ObjectSet(i, p)  M == RelationshipMembers(g, s)
           H == RelationshipDifference(g, s, M \ V)
           Then(q) == RelationshipUpdate(q.graph, s, V \ M)
<1>1. r \in UNION {Then(q) : q \in H}
  BY DEF AssignRelationship
<1>2. PICK q \in H : r \in Then(q)
  <2> HIDE DEF H, Then
  <2> QED BY <1>1
<1>3. s \in Sets /\ s.predicate = p
  BY PlainSets DEF Predicate
<1> HIDE DEF s, M
<1>4. q.graph \in SUBSET Stored
  BY <1>2, RelationshipSetsShrink
<1> QED BY <1>2, <1>3, <1>4, RelationshipUpdateKeeps

(* individual[p] = V leaves a graph of the same form for every p and V.    *)
LEMMA AssignKeeps ==
    ASSUME NEW g \in SUBSET Stored, NEW i \in Individual, NEW p \in Predicate, NEW V,
           NEW r \in Assign(g, i, p, V)
    PROVE  r.graph \in SUBSET Stored
<1>1. CASE p \in Attribute
  <2>1. r \in Raises(g) \/ r \in AssignAttribute(g, ObjectSet(i, p), V \cap Value, TextsIn(V))
    BY <1>1, KindsAreDistinct DEF Assign
  <2>2. TextsIn(V) \in SUBSET Value
    <3>1. \A y \in Individual \cup Iri : Python[TextOf[y]] \in Value
      BY TextAssumption, IndividualsAssumption
    <3> QED BY <3>1 DEF TextsIn
  <2> QED BY <1>1, <2>1, <2>2, RaisesParts, AssignAttributeKeeps
<1>2. CASE p \in Relationship
  <2>1. r \in Raises(g) \/ r \in AssignRelationship(g, ObjectSet(i, p), V)
    BY <1>2, KindsAreDistinct DEF Assign
  <2> QED BY <1>2, <2>1, RaisesParts, AssignRelationshipKeeps
<1>3. CASE p \in Annotation
  <2>1. r \in AnnotationsSet(g, i, p, V)
    BY <1>3, KindsAreDistinct DEF Assign
  <2> QED BY <1>3, <2>1, AnnotationsSetKeeps
<1> QED BY <1>1, <1>2, <1>3 DEF Predicate

(* Names of attributes lead to attributes.                                 *)
LEMMA NamedAreAttributes ==
    ASSUME NEW g, NEW i, NEW n
    PROVE  NamedAttributes(g, i, n) \subseteq Attribute
<1> SUFFICES ASSUME NEW a \in NamedAttributes(g, i, n) PROVE a \in Attribute
  OBVIOUS
<1> DEFINE Of(c) == AttributesOf[c] \cup UsedAttributes(g, i)
<1>1. a \in UNION {Of(c) : c \in TypesOf(g, i)}
  BY DEF NamedAttributes
<1>2. PICK c \in TypesOf(g, i) : a \in Of(c)
  <2> HIDE DEF Of
  <2> QED BY <1>1
<1>3. c \in Class
  BY DEF TypesOf
<1>4. a \in AttributesOf[c] \/ a \in UsedAttributes(g, i)
  BY <1>2
<1> QED BY <1>3, <1>4, ObjectSetsAssumption DEF UsedAttributes

(* Item access, by predicate or by name, connect and disconnect keep the   *)
(* form of the graph.                                                      *)
LEMMA AccessKeeps ==
    ASSUME NEW g \in SUBSET Stored, NEW i \in Individual, NEW V,
           NEW r \in AccessOperations(g, i, V)
    PROVE  r.graph \in SUBSET Stored
<1>1. CASE \E p \in Predicate : r \in Assign(g, i, p, V) \/ r \in Delitem(g, i, p)
  BY <1>1, AssignKeeps DEF Delitem
<1>2. CASE \E n \in Name : r \in AssignByName(g, i, n, V)
  <2>1. PICK n \in Name : r \in AssignByName(g, i, n, V)
    BY <1>2
  <2>2. r \in Raises(g) \/ \E p \in PredicatesByName(g, i, n) : r \in Assign(g, i, p, V)
    BY <2>1 DEF AssignByName
  <2>3. PredicatesByName(g, i, n) \subseteq Predicate
    BY NamedAreAttributes DEF PredicatesByName, UsedPredicates, Predicate
  <2> QED BY <2>2, <2>3, AssignKeeps, RaisesParts
<1>3. CASE \E p \in Relationship : r \in Connect(g, i, p, V)
  <2>1. PICK p \in Relationship : r \in Connect(g, i, p, V)
    BY <1>3
  <2>2. r \in Raises(g) \/ r \in RelationshipUpdate(g, ObjectSet(i, p), Resolved(V))
    BY <2>1 DEF Connect
  <2>3. ObjectSet(i, p) \in Sets /\ ObjectSet(i, p).predicate = p
    BY PlainSets DEF Predicate
  <2> QED BY <2>2, <2>3, RelationshipUpdateKeeps, RaisesParts
<1>4. CASE \E p \in Relationship, c \in Filter : r \in DisconnectFrom(g, i, p, V, c)
  <2>1. PICK p \in Relationship, c \in Filter : r \in DisconnectFrom(g, i, p, V, c)
    BY <1>4
  <2>2. r \in Raises(g) \/ \E X : r \in RelationshipDifference(g, ObjectSet(i, p), X)
    BY <2>1 DEF DisconnectFrom
  <2>3. r.graph \subseteq g
    BY <2>2, RelationshipSetsShrink, RaisesParts
  <2> QED BY <2>3
<1> DEFINE Edit(p) == Assign(g, i, p, V) \cup Delitem(g, i, p)
           ByName(n) == AssignByName(g, i, n, V)
           Con(p) == Connect(g, i, p, V)
           Dis(p, c) == DisconnectFrom(g, i, p, V, c)
           edits == UNION {Edit(p) : p \in Predicate}
           named == UNION {ByName(n) : n \in Name}
           cons == UNION {Con(p) : p \in Relationship}
           diss == UNION {Dis(p, c) : p \in Relationship, c \in Filter}
<1>5. AccessOperations(g, i, V) = edits \cup named \cup cons \cup diss
  BY DEF AccessOperations
<1>6. /\ r \in edits => \E p \in Predicate : r \in Edit(p)
      /\ r \in named => \E n \in Name : r \in ByName(n)
      /\ r \in cons => \E p \in Relationship : r \in Con(p)
  <2> HIDE DEF Edit, ByName, Con
  <2> QED OBVIOUS
<1>7. r \in diss => \E p \in Relationship, c \in Filter : r \in Dis(p, c)
  <2> HIDE DEF Dis
  <2> QED OBVIOUS
<1>8. \/ \E p \in Predicate : r \in Edit(p)
      \/ \E n \in Name : r \in ByName(n)
      \/ \E p \in Relationship : r \in Con(p)
      \/ \E p \in Relationship, c \in Filter : r \in Dis(p, c)
  <2> HIDE DEF Edit, ByName, Con, Dis, edits, named, cons, diss
  <2> QED BY <1>5, <1>6, <1>7
<1> QED BY <1>1, <1>2, <1>3, <1>4, <1>8

(* individual.name = value keeps it, although it replaces the values       *)
(* before it converts the new ones.                                        *)
LEMMA SetattrKeeps ==
    ASSUME NEW g \in SUBSET Stored, NEW i \in Individual, NEW n, NEW V \in SUBSET Value,
           NEW r \in Setattr(g, i, n, V)
    PROVE  r.graph \in SUBSET Stored
<1>1. r \in Raises(g) \/ \E a \in NamedAttributes(g, i, n) : r \in AttributesSet(g, i, a, V)
  BY DEF Setattr
<1>2. ASSUME NEW a \in Attribute, r \in AttributesSet(g, i, a, V) PROVE r.graph \in SUBSET Stored
  <2> DEFINE h == {t \in g : ~(t[1] = i /\ t[2] = a)}
  <2>1. h \in SUBSET Stored /\ r \in AttributesAdd(h, i, a, V)
    BY <1>2 DEF AttributesSet
  <2> HIDE DEF h
  <2> QED BY <2>1, AttributesAddKeeps
<1> QED BY <1>1, <1>2, NamedAreAttributes, RaisesParts

(* The classes of an individual are replaced by classes.                   *)
LEMMA SetClassesKeeps ==
    ASSUME NEW g \in SUBSET Stored, NEW i \in Individual, NEW C \in SUBSET Class,
           NEW r \in SetClasses(g, i, C)
    PROVE  r.graph \in SUBSET Stored
<1>1. r.graph = {t \in g : ~(t[1] = i /\ t[2] = Type)} \cup {<<i, Type, c>> : c \in C}
  BY ReturnsParts DEF SetClasses
<1> QED BY <1>1, TypeStatements

(* Editing the text, the language or the presence of a label leaves        *)
(* labels.                                                                 *)
LEMMA LabelsKeep ==
    ASSUME NEW g \in SUBSET Stored, NEW i \in Individual,
           NEW text \in LabelText, NEW lang \in Language \cup {None},
           NEW r \in SetLabel(g, i, text) \cup SetLabelLang(g, i, lang) \cup RemoveLabels(g, i)
    PROVE  r.graph \in SUBSET Stored
<1>1. \A n \in LabelPredicates : \A l \in Literal : <<i, n, l>> \in Stored
  BY LabelAssumption, AnnotationStatements
<1>2. \A t \in MainLabels(g, i) : t[2] \in LabelPredicates /\ (~Unsortable(g, i) => t[3] \in Literal)
  BY DEF MainLabels, LabelsOf, Unsortable
<1>3. <<text, None>> \in Literal /\ <<NoneText, lang>> \in Literal
  BY LabelAssumption DEF Label
<1>4. ASSUME NEW l \in Literal PROVE <<text, LanguageOf[l]>> \in Literal
  BY LabelAssumption DEF Label
<1>5. ASSUME NEW l \in Literal, lang # None PROVE Tagged[l][lang] \in Literal
  BY <1>5, LabelAssumption
<1>6. CASE r \in Raises(g)
  BY <1>6, RaisesParts
<1>7. ASSUME NEW l \in Literal, r \in Returns(g \cup {<<i, MainPredicate, l>>})
      PROVE  r.graph \in SUBSET Stored
  <2>1. r.graph = g \cup {<<i, MainPredicate, l>>}
    BY <1>7, ReturnsParts
  <2> QED BY <1>1, <2>1, LabelAssumption
<1>8. ASSUME NEW n \in LabelPredicates, NEW l \in Literal, NEW t,
             r \in Returns((g \ {t}) \cup {<<i, n, l>>})
      PROVE  r.graph \in SUBSET Stored
  <2>1. r.graph = (g \ {t}) \cup {<<i, n, l>>}
    BY <1>8, ReturnsParts
  <2> QED BY <1>1, <2>1
<1>9. ASSUME NEW new, NEW first \in Literal, r \in ReplaceLabel(g, i, new, first),
             \A l \in Literal : new[l] \in Literal
      PROVE  r.graph \in SUBSET Stored
  <2> DEFINE With(t) == Returns((g \ {t}) \cup {<<i, t[2], new[t[3]]>>})
  <2>1. \/ r \in Raises(g)
        \/ r \in Returns(g \cup {<<i, MainPredicate, first>>})
        \/ ~Unsortable(g, i) /\ r \in UNION {With(t) : t \in MainLabels(g, i)}
    BY <1>9 DEF ReplaceLabel
  <2>2. ASSUME NEW t \in MainLabels(g, i), r \in With(t), ~Unsortable(g, i)
        PROVE  r.graph \in SUBSET Stored
    BY <1>2, <1>8, <1>9, <2>2
  <2> HIDE DEF With
  <2> QED BY <1>6, <1>7, <1>9, <2>1, <2>2
<1>10. CASE r \in SetLabel(g, i, text) \cup SetLabelLang(g, i, lang)
  <2> DEFINE rewritten  == [l \in Literal |-> <<text, LanguageOf[l]>>]
             translated == [l \in Literal |-> IF lang = None THEN l ELSE Tagged[l][lang]]
  <2>1. \/ r \in ReplaceLabel(g, i, rewritten, <<text, None>>)
        \/ r \in ReplaceLabel(g, i, translated, <<NoneText, lang>>)
    BY <1>10 DEF SetLabel, SetLabelLang
  <2>2. \A l \in Literal : rewritten[l] \in Literal /\ translated[l] \in Literal
    BY <1>4, <1>5
  <2> HIDE DEF rewritten, translated
  <2> QED BY <1>3, <1>9, <2>1, <2>2
<1>11. CASE r \in RemoveLabels(g, i)
  <2>1. CASE r \in Returns(g \ LabelsOf(g, i))
    BY <2>1, ReturnsParts
  <2> QED BY <1>6, <1>11, <2>1 DEF RemoveLabels
<1> QED BY <1>10, <1>11

(* Creating an individual with statements of this form, in a container or  *)
(* not, keeps it.                                                          *)
LEMMA CreateKeeps ==
    ASSUME NEW g \in SUBSET Stored, NEW i \in Individual, NEW T \in SUBSET Stored,
           NEW c \in Individual \cup {None}, NEW r \in Create(g, i, T, c)
    PROVE  r.graph \in SUBSET Stored
<1> DEFINE reference == IF c = None THEN {} ELSE {<<c, contains, i>>}
<1>1. reference \subseteq Stored
  BY RelationshipStatements, IndividualsAssumption
<1>2. r.graph \subseteq (g \cup reference) \cup T
  <2> DEFINE old == (g \cup reference) \ About(g, {i})
  <2>1. r \in Returns(old \cup T) /\ old \subseteq g \cup reference
    BY DEF Create
  <2> HIDE DEF old, reference
  <2>2. r.graph = old \cup T
    BY <2>1, ReturnsParts
  <2> QED BY <2>1, <2>2
<1> HIDE DEF reference
<1> QED BY <1>1, <1>2

-----------------------------------------------------------------------------
(* The individuals that Session.add is given, the graph that it starts     *)
(* from, and what it takes over of the other graph.                        *)
Given(V)             == Own(V) \cup Imported(V)
Kept(g, V, m)        == IF m THEN g ELSE g \ About(g, Imported(V))
Arriving(from, V, a) == Taken(About(from, Imported(V)), Given(V), a)

(* Session.add leaves the graph alone, or stops with a part of what it     *)
(* takes over, or takes over all of it; then it raises if one of the       *)
(* individuals has no type.                                                *)
LEMMA AddOutcomes ==
    ASSUME NEW g, NEW from, NEW V, NEW m, NEW e, NEW a, NEW r \in Add(g, from, V, m, e, a)
    PROVE  \/ r.raised /\ r.graph = g
           \/ r.raised /\ \E W \in SUBSET Arriving(from, V, a) : r.graph = Kept(g, V, m) \cup W
           \/ /\ r.graph = Kept(g, V, m) \cup Arriving(from, V, a)
              /\ r.raised <=> \E x \in Given(V) : ~Known(r.graph, x)
              /\ ~e => \A x \in Given(V) : ~HasTriples(g, x)
<1> DEFINE X        == Given(V)
           base     == Kept(g, V, m)
           good     == Arriving(from, V, a)
           read     == About(from, Imported(V)) \cup About(base, Own(V))
           refusing == IF a THEN {} ELSE {t[1] : t \in {u \in read : Uninterpretable(u)}}
           Bs       == SUBSET (X \ refusing)
           Ws       == UNION {SUBSET About(good, {x}) : x \in refusing}
           Left(B, W) == Raises(base \cup About(good, B) \cup W)
           some     == UNION {Left(B, W) : B \in Bs, W \in Ws}
           done     == {[graph |-> base \cup good,
                         raised |-> \E x \in X : ~Known(base \cup good, x)]}
           stops    == \/ ~e /\ \E x \in X : HasTriples(g, x)
                       \/ m /\ \E x \in {y \in Imported(V) : IsA(from, y, File)} : HasTriples(g, x)
<1>1. Add(g, from, V, m, e, a) =
          IF stops THEN Raises(g) ELSE IF refusing = {} THEN done ELSE some
  <2>1. CASE stops
    BY <2>1 DEF Add, Given
  <2>2. CASE ~stops /\ refusing = {}
    BY <2>2 DEF Add, Given, Kept, Arriving
  <2>3. CASE ~stops /\ refusing # {}
    BY <2>3 DEF Add, Given, Kept, Arriving
  <2> HIDE DEF stops, refusing, done, some
  <2> QED BY <2>1, <2>2, <2>3
<1>2. CASE stops
  <2> HIDE DEF stops, refusing, done, some
  <2>1. r \in Raises(g)
    BY <1>1, <1>2
  <2> QED BY <2>1, RaisesParts
<1>3. CASE ~stops /\ r \in done
  <2>1. ~e => \A x \in X : ~HasTriples(g, x)
    BY <1>3
  <2>2. r.graph = base \cup good /\ (r.raised <=> \E x \in X : ~Known(base \cup good, x))
    <3> HIDE DEF base, good, X
    <3> QED BY <1>3
  <2> HIDE DEF base, good, X
  <2>3. r.raised <=> \E x \in X : ~Known(r.graph, x)
    BY <2>2
  <2> QED BY <2>1, <2>2, <2>3 DEF base, good, X
<1>4. CASE r \in some
  <2>1. PICK B \in Bs, W \in Ws : r \in Left(B, W)
    <3> HIDE DEF Bs, Ws, Left
    <3> QED BY <1>4
  <2>2. r.graph = base \cup (About(good, B) \cup W) /\ r.raised
    <3>1. r.graph = base \cup About(good, B) \cup W /\ r.raised
      <4> HIDE DEF Bs, Ws, base, good
      <4> QED BY <2>1, RaisesParts DEF Left
    <3> HIDE DEF base, good
    <3> QED BY <3>1
  <2>3. About(good, B) \cup W \in SUBSET good
    BY <2>1 DEF About
  <2> HIDE DEF base
  <2> QED BY <2>2, <2>3 DEF base
<1>5. stops \/ (~stops /\ r \in done) \/ r \in some
  <2> HIDE DEF stops, refusing, done, some
  <2> QED BY <1>1
<1> HIDE DEF stops, done, some, X, base, good
<1> QED BY <1>2, <1>3, <1>4, <1>5

(* Session.add keeps the form of the graph if the other graph has it.      *)
LEMMA AddKeeps ==
    ASSUME NEW g \in SUBSET Stored, NEW from \in SUBSET Stored, NEW V, NEW m, NEW e, NEW a,
           NEW r \in Add(g, from, V, m, e, a)
    PROVE  r.graph \in SUBSET Stored
<1>1. Kept(g, V, m) \subseteq g /\ Arriving(from, V, a) \subseteq from
  BY DEF Kept, Arriving, Taken, About
<1>2. \/ r.graph = g
      \/ \E W \in SUBSET Arriving(from, V, a) : r.graph = Kept(g, V, m) \cup W
  BY AddOutcomes
<1> QED BY <1>1, <1>2

(* Session.delete only removes.                                            *)
LEMMA DeleteShrinks ==
    ASSUME NEW g, NEW V, NEW r \in Delete(g, V) PROVE r.graph \subseteq g
<1> DEFINE rest == {t \in g : t[1] \notin Resolved(V) /\ t[3] \notin Resolved(V)}
<1>1. (r \in Raises(g) \/ r \in Returns(rest)) /\ rest \subseteq g
  BY DEF Delete
<1> HIDE DEF rest
<1>2. r.graph = g \/ r.graph = rest
  BY <1>1, RaisesParts, ReturnsParts
<1> QED BY <1>1, <1>2

(* The outcomes of a deletion after those of A that did not raise.         *)
ThenDelete(A, D) == UNION {IF q.raised THEN {q} ELSE Delete(q.graph, D) : q \in A}

(* The two together, as SessionSet uses them, keep the form of the graph.  *)
LEMMA AddThenDeleteKeeps ==
    ASSUME NEW g \in SUBSET Stored, NEW from \in SUBSET Stored, NEW V, NEW m, NEW e, NEW a, NEW D,
           NEW r \in ThenDelete(Add(g, from, V, m, e, a), D)
    PROVE  r.graph \in SUBSET Stored
<1> DEFINE Then(q) == IF q.raised THEN {q} ELSE Delete(q.graph, D)
<1>1. PICK q \in Add(g, from, V, m, e, a) : r \in Then(q)
  <2>1. r \in UNION {Then(q) : q \in Add(g, from, V, m, e, a)}
    BY DEF ThenDelete
  <2> HIDE DEF Then
  <2> QED BY <2>1
<1>2. q.graph \in SUBSET Stored
  BY AddKeeps
<1>3. r = q \/ r \in Delete(q.graph, D)
  BY <1>1
<1> QED BY <1>2, <1>3, DeleteShrinks

(* So does every operation of a session and of its sets of individuals.    *)
LEMMA SessionKeeps ==
    ASSUME NEW g \in SUBSET Stored, NEW from \in SUBSET Stored, NEW V, NEW c,
           NEW r \in SessionOperations(g, from, V, c)
    PROVE  r.graph \in SUBSET Stored
<1>0. ASSUME r \in Raises(g) PROVE r.graph \in SUBSET Stored
  BY <1>0, RaisesParts
<1>1. CASE \E m, e, a \in BOOLEAN : r \in Add(g, from, V, m, e, a)
  BY <1>1, AddKeeps
<1>2. CASE r \in SessionUpdate(g, from, V, c)
  <2>1. r \in Raises(g) \/ r \in Add(g, from, V, TRUE, TRUE, FALSE)
    BY <1>2 DEF SessionUpdate
  <2> QED BY <1>0, <2>1, AddKeeps
<1>3. CASE r \in SessionIntersection(g, from, V, c)
  <2> DEFINE E == Existing(g, V)
             D == SessionMembers(g, c) \ (Own(E) \cup Imported(E))
  <2>1. \/ r \in Raises(g)
        \/ r \in ThenDelete(Add(g, from, E, TRUE, TRUE, FALSE), D)
    BY <1>3, Zenon DEF SessionIntersection, ThenDelete
  <2> HIDE DEF E, D
  <2> QED BY <1>0, <2>1, AddThenDeleteKeeps
<1>4. CASE r \in SessionDifference(g, V, c)
  <2>1. r \in Raises(g) \/ \E X : r \in Delete(g, X)
    BY <1>4 DEF SessionDifference
  <2>2. r.graph \subseteq g
    BY <2>1, RaisesParts, DeleteShrinks
  <2> QED BY <2>2
<1>5. CASE r \in SessionSymmetric(g, from, V, c)
  <2> DEFINE E == Existing(g, V)
             D == SessionMembers(g, c) \cap (Own(E) \cup Imported(E))
  <2>1. \/ r \in Raises(g)
        \/ r \in ThenDelete(Add(g, from, V \ E, FALSE, FALSE, FALSE), D)
    BY <1>5, Zenon DEF SessionSymmetric, ThenDelete
  <2> HIDE DEF E, D
  <2> QED BY <1>0, <2>1, AddThenDeleteKeeps
<1>6. CASE r \in Delete(g, V)
  <2>1. r.graph \subseteq g
    BY <1>6, DeleteShrinks
  <2> QED BY <2>1
<1> DEFINE A(m, e, a) == Add(g, from, V, m, e, a)
           all == UNION {A(m, e, a) : m \in BOOLEAN, e \in BOOLEAN, a \in BOOLEAN}
<1>7. SessionOperations(g, from, V, c) =
      all \cup SessionUpdate(g, from, V, c) \cup SessionIntersection(g, from, V, c) \cup
           SessionDifference(g, V, c) \cup SessionSymmetric(g, from, V, c) \cup Delete(g, V)
  BY DEF SessionOperations
<1>8. r \in all => \E m, e, a \in BOOLEAN : r \in A(m, e, a)
  <2> HIDE DEF A
  <2> QED OBVIOUS
<1> HIDE DEF all
<1> QED BY <1>1, <1>2, <1>3, <1>4, <1>5, <1>6, <1>7, <1>8

(* So does every operation of a container.                                 *)
LEMMA ContainerKeeps ==
    ASSUME NEW g \in SUBSET Stored, NEW c \in Individual, NEW V,
           NEW r \in ContainerOperations(g, c, V)
    PROVE  r.graph \in SUBSET Stored
<1>0. \A x \in Own(V) \cup References(g, c) : <<c, contains, x>> \in Stored
  <2>1. \A x \in Own(V) : <<c, contains, x>> \in Stored
    BY RelationshipStatements, IndividualsAssumption DEF Own
  <2>2. ASSUME NEW x \in References(g, c) PROVE <<c, contains, x>> \in Stored
    <3>1. PICK t \in g : t[1] = c /\ t[2] = contains /\ t[3] = x
      BY DEF References, ObjectsOf
    <3>2. t = <<t[1], t[2], t[3]>>
      BY DEF Stored, Statement
    <3> QED BY <3>1, <3>2
  <2> QED BY <2>1, <2>2
<1>1. ASSUME NEW R, R \subseteq Own(V) \cup References(g, c), r \in SetReferences(g, c, R)
      PROVE  r.graph \in SUBSET Stored
  <2>1. r.graph \subseteq g \cup {<<c, contains, x>> : x \in R}
    BY <1>1, ReturnsParts DEF SetReferences
  <2> QED BY <1>0, <1>1, <2>1
<1>2. CASE r \in ConnectReferences(g, c, Own(V))
  BY <1>1, <1>2 DEF ConnectReferences
<1>3. CASE r \in DisconnectReferences(g, c, Own(V))
  BY <1>1, <1>3 DEF DisconnectReferences
<1>4. CASE r \in ContainerAdd(g, c, V)
  <2> DEFINE good == {<<c, contains, x>> : x \in Own(V)}
             bad == V \cap Foreign # {}
             all == AddEach(g, good, bad)
             As(q) == [q EXCEPT !.raised = @ \/ \E x \in Own(V) : ~Known(q.graph, x)]
  <2>1. r \in {As(q) : q \in all}
    BY <1>4 DEF ContainerAdd
  <2>2. PICK q \in all : r = As(q)
    <3> HIDE DEF all, As
    <3> QED BY <2>1
  <2>3. q.graph \subseteq g \cup good /\ r.graph = q.graph
    <3>1. q.graph \subseteq g \cup good
      <4>1. bad \in BOOLEAN
        OBVIOUS
      <4> HIDE DEF good, bad
      <4> QED BY <4>1, EachAdded
    <3>2. q = [graph |-> q.graph, raised |-> q.raised]
      BY DEF AddEach, Raises, Returns
    <3> QED BY <3>1, <3>2, <2>2
  <2>4. good \subseteq Stored
    BY <1>0
  <2> HIDE DEF good
  <2> QED BY <2>3, <2>4
<1>5. CASE r \in ContainerRemove(g, c, V)
  <2> DEFINE h == g \ {<<c, contains, x>> : x \in Own(V) \cup Imported(V)}
  <2>1. r \in Raises(g) \/ r \in Returns(h)
    BY <1>5 DEF ContainerRemove
  <2>2. h \subseteq g
    OBVIOUS
  <2> HIDE DEF h
  <2>3. r.graph = g \/ r.graph = h
    BY <2>1, RaisesParts, ReturnsParts
  <2> QED BY <2>2, <2>3
<1> QED BY <1>2, <1>3, <1>4, <1>5 DEF ContainerOperations

-----------------------------------------------------------------------------
(* The empty graph has this form.                                          *)
LEMMA InitTyped == Init => TypeOK
BY DEF Init, TypeOK

(* Every operation keeps it.                                               *)
LEMMA NextTyped == TypeOK /\ [Next]_graph => TypeOK'
<1> SUFFICES ASSUME TypeOK, [Next]_graph PROVE TypeOK'
  OBVIOUS
<1>0. graph \in SUBSET Stored
  BY DEF TypeOK
<1>a. ASSUME NEW outcomes, Becomes(outcomes), \A r \in outcomes : r.graph \in SUBSET Stored
      PROVE  TypeOK'
  <2>1. PICK r \in outcomes : graph' = r.graph
    BY <1>a DEF Becomes
  <2> QED BY <1>a, <2>1 DEF TypeOK
<1>1. ASSUME EditSet PROVE TypeOK'
  <2>0. PICK s \in Sets : \E V \in Arguments(s.predicate) : Becomes(SetOperations(graph, s, V))
    BY <1>1 DEF EditSet
  <2>1. PICK V \in Arguments(s.predicate) : Becomes(SetOperations(graph, s, V))
    BY <2>0
  <2>2. s.predicate \in Attribute => V \subseteq Value
    BY IndividualsAssumption, KindsAreDistinct DEF Arguments
  <2>3. \A r \in SetOperations(graph, s, V) : r.graph \in SUBSET Stored
    BY <1>0, <2>2, SetsKeep
  <2> QED BY <1>a, <2>1, <2>3
<1>2. ASSUME EditIndividual PROVE TypeOK'
  <2>1. PICK i \in Individual : \E V : Becomes(AccessOperations(graph, i, V))
    BY <1>2 DEF EditIndividual
  <2>2. PICK V : Becomes(AccessOperations(graph, i, V))
    BY <2>1
  <2>3. \A r \in AccessOperations(graph, i, V) : r.graph \in SUBSET Stored
    BY <1>0, AccessKeeps
  <2> QED BY <1>a, <2>2, <2>3
<1>3. ASSUME SetByName PROVE TypeOK'
  <2>1. PICK i \in Individual, n \in Name, V \in AttributeArguments : Becomes(Setattr(graph, i, n, V))
    BY <1>3 DEF SetByName
  <2>2. V \in SUBSET Value
    BY IndividualsAssumption
  <2>3. \A r \in Setattr(graph, i, n, V) : r.graph \in SUBSET Stored
    BY <1>0, <2>2, SetattrKeeps
  <2> QED BY <1>a, <2>1, <2>3
<1>4. ASSUME Reclassify PROVE TypeOK'
  <2>1. PICK i \in Individual, C \in SUBSET Class : Becomes(SetClasses(graph, i, C))
    BY <1>4 DEF Reclassify
  <2>2. \A r \in SetClasses(graph, i, C) : r.graph \in SUBSET Stored
    BY <1>0, SetClassesKeeps
  <2> QED BY <1>a, <2>1, <2>2
<1>5. ASSUME Relabel PROVE TypeOK'
  <2>1. PICK i \in Individual, text \in LabelText, lang \in Language \cup {None} :
              Becomes(SetLabel(graph, i, text) \cup SetLabelLang(graph, i, lang)
                      \cup RemoveLabels(graph, i))
    BY <1>5 DEF Relabel
  <2> DEFINE all == SetLabel(graph, i, text) \cup SetLabelLang(graph, i, lang)
                    \cup RemoveLabels(graph, i)
  <2>2. \A r \in all : r.graph \in SUBSET Stored
    BY <1>0, LabelsKeep
  <2> HIDE DEF all
  <2>3. Becomes(all)
    BY <2>1 DEF all
  <2> QED BY <1>a, <2>2, <2>3
<1>6. ASSUME CreateIndividual PROVE TypeOK'
  <2>1. PICK i \in Individual, container \in Containers \cup {None} :
             \E T \in NewStatements[i] : Becomes(Create(graph, i, T, container))
    BY <1>6 DEF CreateIndividual
  <2>2. PICK T \in NewStatements[i] : Becomes(Create(graph, i, T, container))
    BY <2>1
  <2>3. T \in SUBSET Stored /\ container \in Individual \cup {None}
    BY IndividualsAssumption DEF Containers
  <2>4. \A r \in Create(graph, i, T, container) : r.graph \in SUBSET Stored
    BY <1>0, <2>3, CreateKeeps
  <2> QED BY <1>a, <2>2, <2>4
<1>7. ASSUME EditSession PROVE TypeOK'
  <2>1. PICK from \in Sources, V \in ImportArguments, c \in Filter :
             Becomes(SessionOperations(graph, from, V, c))
    BY <1>7 DEF EditSession
  <2>2. from \in SUBSET Stored
    BY IndividualsAssumption
  <2>3. \A r \in SessionOperations(graph, from, V, c) : r.graph \in SUBSET Stored
    BY <1>0, <2>2, SessionKeeps
  <2> QED BY <1>a, <2>1, <2>3
<1>8. ASSUME EraseSession PROVE TypeOK'
  <2>1. \A r \in ClearSession : r.graph \in SUBSET Stored
    BY ReturnsParts DEF ClearSession
  <2> QED BY <1>a, <1>8, <2>1 DEF EraseSession
<1>9. ASSUME EditContainer PROVE TypeOK'
  <2>1. PICK c \in Containers, V \in RelationshipArguments : Becomes(ContainerOperations(graph, c, V))
    BY <1>9 DEF EditContainer
  <2>2. c \in Individual
    BY DEF Containers
  <2>3. \A r \in ContainerOperations(graph, c, V) : r.graph \in SUBSET Stored
    BY <1>0, <2>2, ContainerKeeps
  <2> QED BY <1>a, <2>1, <2>3
<1>10. CASE UNCHANGED graph
  BY <1>10 DEF TypeOK
<1> QED BY <1>1, <1>2, <1>3, <1>4, <1>5, <1>6, <1>7, <1>8, <1>9, <1>10 DEF Next

(* Every literal stored for an attribute is always the one its value is    *)
(* converted to, for every terminology, every stable conversion and every  *)
(* operation, whether it returns or raises.                                *)
THEOREM GraphStaysTyped == Spec => []TypeOK
BY InitTyped, NextTyped, PTL DEF Spec

-----------------------------------------------------------------------------
(* What does not change types changes neither what is known nor of what    *)
(* class it is.                                                            *)
LEMMA TypesSurvive ==
    ASSUME NEW g, NEW h, NEW i, NEW P, Type \notin P, Confined(g, h, i, P), NEW x
    PROVE  TypesOf(h, x) = TypesOf(g, x) /\ (Known(h, x) <=> Known(g, x))
<1>1. TypesOf(h, x) = TypesOf(g, x)
  BY DEF TypesOf, Confined
<1> QED BY <1>1 DEF Known

(* Update and difference of a set do not.                                  *)
LEMMA SetsKeepTypes ==
    ASSUME NEW g, NEW s \in Sets, NEW V, NEW r, r \in Update(g, s, V) \/ r \in Difference(g, s, V), NEW x
    PROVE  TypesOf(r.graph, x) = TypesOf(g, x) /\ (Known(r.graph, x) <=> Known(g, x))
<1>1. Type \notin Within(s.predicate)
  <2>1. s.predicate \in Predicate
    BY SetsArePredicates
  <2>2. CASE s.predicate \in Annotation
    BY <2>1, <2>2, ObjectSetsAssumption DEF Within
  <2>3. CASE s.predicate \notin Annotation
    <3>1. Sub[s.predicate] \subseteq Predicate
      BY <2>1, <2>3, ObjectSetsAssumption DEF Predicate
    <3> QED BY <2>3, <3>1, ObjectSetsAssumption DEF Within
  <2> QED BY <2>2, <2>3
<1>2. Confined(g, r.graph, s.individual, Within(s.predicate))
  BY SetsAreConfined
<1> QED BY <1>1, <1>2, TypesSurvive

(* More statements have more objects.                                      *)
LEMMA ObjectsGrow ==
    ASSUME NEW g, NEW h, g \subseteq h, NEW i, NEW P
    PROVE  ObjectsOf(g, i, P) \subseteq ObjectsOf(h, i, P)
BY DEF ObjectsOf

(* What the objects of an individual under P are.                          *)
LEMMA IsObject ==
    ASSUME NEW g \in SUBSET Stored, NEW i, NEW P, NEW o
    PROVE  o \in ObjectsOf(g, i, P) <=> \E p \in P : <<i, p, o>> \in g
<1>1. \A t \in g : t = <<t[1], t[2], t[3]>>
  BY DEF Stored, Statement
<1> QED BY <1>1 DEF ObjectsOf

(* What is linked to an individual in either direction.                    *)
LEMMA IsLinked ==
    ASSUME NEW g \in SUBSET Stored, NEW i, NEW D, NEW I, NEW x
    PROVE  x \in Linked(g, i, D, I) <=>
              (\E p \in D : <<i, p, x>> \in g) \/ (\E p \in I : <<x, p, i>> \in g)
<1>1. \A t \in g : t = <<t[1], t[2], t[3]>>
  BY DEF Stored, Statement
<1>2. x \in {t[1] : t \in {u \in g : u[3] = i /\ u[2] \in I}} <=> \E p \in I : <<x, p, i>> \in g
  BY <1>1
<1> QED BY <1>2, IsObject DEF Linked

-----------------------------------------------------------------------------
(* An update of an attribute adds what its new values are read as, and     *)
(* nothing else.                                                           *)
LEMMA AttributeUpdateLaw ==
    ASSUME NEW g \in SUBSET Stored, NEW s \in Sets, s.predicate \in Attribute, NEW V \in SUBSET Value,
           NEW r \in AttributeUpdate(g, s, V), ~r.raised
    PROVE  /\ AttributeMembers(g, s) \subseteq AttributeMembers(r.graph, s)
           /\ AttributeMembers(r.graph, s) = AttributeMembers(g, s) \cup
                 {Python[l] : l \in StoredAs(s.predicate, V \ AttributeMembers(g, s))}
<1> DEFINE i == s.individual  a == s.predicate  new == StoredAs(a, V \ AttributeMembers(g, s))
<1>1. r.graph = g \cup {<<i, a, l>> : l \in new}
  BY AttributesAdded DEF AttributeUpdate
<1>2. r.graph \in SUBSET Stored
  BY AttributeSetsKeep
<1>3. new \subseteq Literal
  BY CastAssumption DEF StoredAs
<1>4. a \in Sub[a]
  BY ObjectSetsAssumption
<1>5. ObjectsOf(r.graph, i, Sub[a]) = ObjectsOf(g, i, Sub[a]) \cup new
  <2> HIDE DEF new
  <2>1. \A b, l : <<i, b, l>> \in r.graph <=> <<i, b, l>> \in g \/ (b = a /\ l \in new)
    BY <1>1
  <2>2. \A l : l \in ObjectsOf(r.graph, i, Sub[a]) <=> l \in ObjectsOf(g, i, Sub[a]) \/ l \in new
    <3>1. \A l : l \in ObjectsOf(g, i, Sub[a]) <=> \E b \in Sub[a] : <<i, b, l>> \in g
      BY IsObject
    <3>2. \A l : l \in ObjectsOf(r.graph, i, Sub[a]) <=> \E b \in Sub[a] : <<i, b, l>> \in r.graph
      BY <1>2, IsObject
    <3> QED BY <1>4, <2>1, <3>1, <3>2
  <2> QED BY <2>2
<1>6. AttributeMembers(r.graph, s) = AttributeMembers(g, s) \cup {Python[l] : l \in new}
  <2> HIDE DEF new
  <2> QED BY <1>3, <1>5 DEF AttributeMembers
<1> QED BY <1>6

(* A difference of an attribute leaves none of the values: each is stored  *)
(* as it is converted, in the attribute and in its subclasses.             *)
LEMMA AttributeDifferenceLaw ==
    ASSUME NEW g \in SUBSET Stored, NEW s \in Sets, s.predicate \in Attribute, NEW V,
           NEW r \in AttributeDifference(g, s, V), ~r.raised
    PROVE  /\ AttributeMembers(r.graph, s) \subseteq AttributeMembers(g, s)
           /\ AttributeMembers(r.graph, s) \cap V = {}
<1> DEFINE i == s.individual  P == Sub[s.predicate]  M == AttributeMembers(g, s)
<1>1. r.graph = g \ Gone(i, P, M \cap V)
  BY AttributesDeleted DEF AttributeDifference
<1>2. r.graph \subseteq g
  BY <1>1
<1>3. AttributeMembers(r.graph, s) \subseteq M
  BY <1>2, ObjectsGrow DEF AttributeMembers
<1>4. ASSUME NEW v \in V, v \in AttributeMembers(r.graph, s) PROVE FALSE
  <2>1. PICK l \in ObjectsOf(r.graph, i, P) \cap Literal : v = Python[l]
    BY <1>4 DEF AttributeMembers
  <2>2. PICK b \in P : <<i, b, l>> \in r.graph
    BY <1>2, <2>1, IsObject
  <2>3. b \in Attribute
    BY ObjectSetsAssumption
  <2>4. Cast[b][v] = l
    BY <1>2, <2>1, <2>2, <2>3 DEF Stored
  <2>5. v \in M \cap V
    BY <1>3, <1>4
  <2>6. <<i, b, l>> \in Gone(i, P, M \cap V)
    BY <2>1, <2>4, <2>5 DEF Gone
  <2> QED BY <1>1, <2>2, <2>6
<1> QED BY <1>3, <1>4

(* An update of a relationship that is not inverted adds the individuals   *)
(* that are known.                                                         *)
LEMMA RelationshipUpdateLaw ==
    ASSUME NEW g \in SUBSET Stored, NEW s \in Sets, s.predicate \in Relationship, NEW V,
           NEW r \in RelationshipUpdate(g, s, V), ~r.raised
    PROVE  /\ RelationshipMembers(g, s) \subseteq RelationshipMembers(r.graph, s)
           /\ ~s.inverse => RelationshipMembers(r.graph, s) =
                               RelationshipMembers(g, s) \cup {x \in V : Known(g, x)}
<1> DEFINE i == s.individual  p == s.predicate
           new == (V \cap Individual) \ Connected(g, s)
<1>1. /\ s.class = None /\ r.graph = g \cup Statements(s, new)
      /\ \A x \in V : x \in Individual /\ ~Dangling(g, s, x)
  BY RelationshipUpdated
<1>2. r.graph \in SUBSET Stored
  BY RelationshipUpdateKeeps
<1>3. \A x : Known(r.graph, x) <=> Known(g, x)
  BY RelationshipOperations, SetsKeepTypes
<1>4. p \in Sub[p]
  BY ObjectSetsAssumption
<1> DEFINE D == Sub[p]  I == Inverses(p)
<1>5. /\ \A h : ~s.inverse => Connected(h, s) = Linked(h, i, D, I)
      /\ \A h : s.inverse => Connected(h, s) = Linked(h, i, I, D)
  BY <1>1 DEF Connected
<1>6. \A x : <<i, p, x>> \in r.graph \/ <<i, p, x>> \notin Statements(s, new)
  BY <1>1
<1>7. Connected(g, s) \subseteq Connected(r.graph, s)
  <2>1. g \subseteq r.graph
    BY <1>1
  <2> HIDE DEF D, I
  <2>2. \A A, B : Linked(g, i, A, B) \subseteq Linked(r.graph, i, A, B)
    <3> SUFFICES ASSUME NEW A, NEW B, NEW x \in Linked(g, i, A, B)
                 PROVE  x \in Linked(r.graph, i, A, B)
      OBVIOUS
    <3>1. (\E q \in A : <<i, q, x>> \in g) \/ (\E q \in B : <<x, q, i>> \in g)
      BY IsLinked
    <3>2. (\E q \in A : <<i, q, x>> \in r.graph) \/ (\E q \in B : <<x, q, i>> \in r.graph)
      BY <2>1, <3>1
    <3> QED BY <1>2, <3>2, IsLinked
  <2>3. s.inverse \/ ~s.inverse
    OBVIOUS
  <2> QED BY <1>5, <2>2, <2>3
<1>8. ASSUME ~s.inverse PROVE Connected(r.graph, s) = Connected(g, s) \cup new
  <2>1. ASSUME NEW x \in Connected(r.graph, s), x \notin Connected(g, s) PROVE x \in new
    <3> HIDE DEF D, I, new
    <3>1. \/ \E q \in D : <<i, q, x>> \in r.graph
          \/ \E q \in I : <<x, q, i>> \in r.graph
      <4>1. x \in Linked(r.graph, i, D, I)
        BY <1>5, <1>8, <2>1
      <4> HIDE DEF i
      <4> QED BY <4>1, <1>2, IsLinked
    <3>2. PICK t \in r.graph : \/ t[1] = i /\ t[3] = x /\ t \notin g
                               \/ t[1] = x /\ t[3] = i /\ t \notin g
      <4>1. /\ \A q \in D : <<i, q, x>> \notin g
            /\ \A q \in I : <<x, q, i>> \notin g
        BY <1>5, <1>8, <2>1, IsLinked
      <4> QED BY <3>1, <4>1
    <3>3. t \in Statements(s, new)
      BY <1>1, <3>2
    <3>4. t[1] = i /\ t[3] \in new
      BY <3>3 DEF Statements
    <3> QED BY <3>2, <3>4
  <2>2. ASSUME NEW x \in new PROVE x \in Connected(r.graph, s)
    <3>1. <<i, p, x>> \in r.graph
      BY <1>1 DEF Statements
    <3>2. x \in Linked(r.graph, i, D, I)
      <4> HIDE DEF I, new
      <4> QED BY <1>2, <1>4, <3>1, IsLinked
    <3> QED BY <1>5, <1>8, <3>2
  <2> HIDE DEF new
  <2> QED BY <1>7, <2>1, <2>2
<1>9. RelationshipMembers(g, s) \subseteq RelationshipMembers(r.graph, s)
  BY <1>3, <1>7 DEF RelationshipMembers
<1>10. ASSUME ~s.inverse
       PROVE  RelationshipMembers(r.graph, s) =
                  RelationshipMembers(g, s) \cup {x \in V : Known(g, x)}
  <2>1. \A x : x \in new <=> x \in V /\ x \notin Connected(g, s)
    BY <1>1
  <2> HIDE DEF new, D, I
  <2> QED BY <1>3, <1>8, <1>10, <2>1 DEF RelationshipMembers
<1> QED BY <1>9, <1>10

(* A difference of a relationship removes those that are not connected     *)
(* through the inverse, and no others.                                     *)
LEMMA RelationshipDifferenceLaw ==
    ASSUME NEW g \in SUBSET Stored, NEW s \in Sets, s.predicate \in Relationship, NEW V,
           NEW r \in RelationshipDifference(g, s, V), ~r.raised
    PROVE  LET M == RelationshipMembers(g, s)  N == RelationshipMembers(r.graph, s) IN
           /\ N \subseteq M
           /\ ~s.inverse => /\ M \ V \subseteq N
                            /\ N \cap V \subseteq
                                  Linked(g, s.individual, {}, Inverses(s.predicate))
<1> DEFINE i == s.individual  p == s.predicate  D == Sub[p]  I == Inverses(p)
           M == RelationshipMembers(g, s)  N == RelationshipMembers(r.graph, s)
<1>1. s.class = None /\ r.graph = Disconnect(g, s, M \cap V)
  <2>1. s.class = None
    BY RaisesParts DEF RelationshipDifference
  <2>2. r \in Returns(Disconnect(g, s, M \cap V))
    BY <2>1 DEF RelationshipDifference
  <2> QED BY <2>1, <2>2, ReturnsParts
<1>2. /\ r.graph \subseteq g
      /\ \A t \in g : t \in r.graph <=> ~(t[1] = i /\ t[2] \in D /\ t[3] \in M \cap V)
  BY <1>1 DEF Disconnect
<1>3. r.graph \in SUBSET Stored
  BY <1>2
<1>4. \A x : Known(r.graph, x) <=> Known(g, x)
  <2>1. r \in Difference(g, s, V)
    BY RelationshipOperations
  <2> QED BY <2>1, SetsKeepTypes
<1>5. /\ \A h : ~s.inverse => Connected(h, s) = Linked(h, i, D, I)
      /\ \A h : s.inverse => Connected(h, s) = Linked(h, i, I, D)
  BY <1>1 DEF Connected
<1> HIDE DEF D, I
<1>6. Connected(r.graph, s) \subseteq Connected(g, s)
  <2>1. \A A, B : Linked(r.graph, i, A, B) \subseteq Linked(g, i, A, B)
    <3> SUFFICES ASSUME NEW A, NEW B, NEW x \in Linked(r.graph, i, A, B)
                 PROVE  x \in Linked(g, i, A, B)
      OBVIOUS
    <3>1. (\E q \in A : <<i, q, x>> \in r.graph) \/ (\E q \in B : <<x, q, i>> \in r.graph)
      BY <1>3, IsLinked
    <3>2. (\E q \in A : <<i, q, x>> \in g) \/ (\E q \in B : <<x, q, i>> \in g)
      BY <1>2, <3>1
    <3> QED BY <3>2, IsLinked
  <2>2. s.inverse \/ ~s.inverse
    OBVIOUS
  <2> QED BY <1>5, <2>1, <2>2
<1>7. N \subseteq M
  BY <1>4, <1>6 DEF RelationshipMembers
<1>8. ASSUME ~s.inverse, NEW x \in M \ V PROVE x \in N
  <2>1. x \in Linked(g, i, D, I) /\ Known(g, x)
    BY <1>5, <1>8 DEF RelationshipMembers
  <2>2. PICK t \in g : \/ \E q \in D : t = <<i, q, x>>
                       \/ \E q \in I : t = <<x, q, i>>
    BY <2>1, IsLinked
  <2>3. t \in r.graph
    BY <1>2, <1>8, <2>2
  <2>4. x \in Linked(r.graph, i, D, I)
    BY <1>3, <2>2, <2>3, IsLinked
  <2> QED BY <1>4, <1>5, <1>8, <2>1, <2>4 DEF RelationshipMembers
<1>9. ASSUME ~s.inverse, NEW x \in N \cap V PROVE x \in Linked(g, i, {}, I)
  <2>1. x \in Linked(r.graph, i, D, I)
    BY <1>5, <1>9 DEF RelationshipMembers
  <2>2. (\E q \in D : <<i, q, x>> \in r.graph) \/ (\E q \in I : <<x, q, i>> \in r.graph)
    BY <1>3, <2>1, IsLinked
  <2>3. \A q \in D : <<i, q, x>> \notin r.graph
    <3>1. x \in M \cap V
      BY <1>7, <1>9
    <3> HIDE DEF M
    <3> QED BY <1>2, <3>1
  <2>4. \E q \in I : <<x, q, i>> \in g
    BY <1>2, <2>2, <2>3
  <2> QED BY <2>4, IsLinked
<1> QED BY <1>7, <1>8, <1>9 DEF I

(* An update of an annotation loses nothing.                               *)
LEMMA AnnotationUpdateLaw ==
    ASSUME NEW g, NEW s \in Sets, s.predicate \in Annotation, NEW V,
           NEW r \in AnnotationUpdate(g, s, V)
    PROVE  AnnotationMembers(g, s) \subseteq AnnotationMembers(r.graph, s)
<1>1. g \subseteq r.graph
  <2> DEFINE h == g \cup {<<s.individual, s.predicate, o>> : o \in AsObjects(V)}
  <2>1. r \in Returns(h) /\ g \subseteq h
    BY DEF AnnotationUpdate, AnnotationsAdd
  <2> HIDE DEF h
  <2> QED BY <2>1, ReturnsParts
<1>2. \A x : Known(r.graph, x) <=> Known(g, x)
  BY AnnotationOperations, SetsKeepTypes
<1>3. \A o : Shown(r.graph, o) = Shown(g, o)
  BY <1>2 DEF Shown
<1> QED BY <1>1, <1>3, ObjectsGrow DEF AnnotationMembers

(* A difference of an annotation leaves, of its values, entities and the   *)
(* values of literals that these are not converted to.                     *)
LEMMA AnnotationDifferenceLaw ==
    ASSUME NEW g \in SUBSET Stored, NEW s \in Sets, s.predicate \in Annotation, NEW V,
           NEW r \in AnnotationDifference(g, s, V)
    PROVE  /\ AnnotationMembers(r.graph, s) \subseteq AnnotationMembers(g, s)
           /\ AnnotationMembers(r.graph, s) \cap V \subseteq
                 Entity \cup {Python[l] : l \in
                                 ObjectsOf(g, s.individual, {s.predicate}) \cap OtherLiterals}
<1> DEFINE i == s.individual  n == s.predicate  M == AnnotationMembers(g, s)
           others == ObjectsOf(g, i, {n}) \cap OtherLiterals
<1>1. r.graph = g \ {<<i, n, o>> : o \in TextLiterals(M \cap V)}
  BY ReturnsParts DEF AnnotationDifference, AnnotationsDelete
<1>2. r.graph \subseteq g
  BY <1>1
<1>3. \A x : Known(r.graph, x) <=> Known(g, x)
  BY AnnotationOperations, SetsKeepTypes
<1>4. \A o : Shown(r.graph, o) = Shown(g, o)
  BY <1>3 DEF Shown
<1>5. AnnotationMembers(r.graph, s) \subseteq M
  BY <1>2, <1>4, ObjectsGrow DEF AnnotationMembers
<1>6. ASSUME NEW w \in AnnotationMembers(r.graph, s) \cap V
      PROVE  w \in Entity \cup {Python[l] : l \in others}
  <2>1. PICK o \in ObjectsOf(r.graph, i, {n}) : w = Shown(g, o)
    BY <1>4, <1>6 DEF AnnotationMembers
  <2>2. <<i, n, o>> \in r.graph
    <3>1. PICK t \in r.graph : t[1] = i /\ t[2] = n /\ t[3] = o
      BY <2>1 DEF ObjectsOf
    <3>2. t = <<t[1], t[2], t[3]>>
      BY <1>2, <3>1 DEF Stored, Statement
    <3> QED BY <3>1, <3>2
  <2>3. o \notin TextLiterals(M \cap V)
    <3> HIDE DEF M
    <3> QED BY <1>1, <2>2
  <2>4. w \in M \cap V
    BY <1>5, <1>6
  <2>5. CASE o \in Literal
    <3>1. w = Python[o] /\ w \in Value
      BY <2>1, <2>5, IndividualsAssumption DEF Shown
    <3>2. LiteralOf[w] \in TextLiterals(M \cap V)
      BY <2>4, <3>1 DEF TextLiterals
    <3>3. o \in OtherLiterals
      BY <2>3, <2>5, <3>1, <3>2 DEF OtherLiterals
    <3>4. o \in ObjectsOf(g, i, {n})
      BY <1>2, <2>1, ObjectsGrow
    <3> QED BY <3>1, <3>3, <3>4
  <2>6. CASE o \notin Literal /\ (o \in Class \/ Known(g, o))
    <3>1. w = o
      BY <2>1, <2>6 DEF Shown
    <3>2. Known(g, o) => o \in Individual
      <4>1. \A t \in Stored : t[1] \in Individual
        BY DEF Stored, Statement
      <4> QED BY <4>1 DEF Known, TypesOf
    <3> QED BY <2>6, <3>1, <3>2 DEF Entity
  <2>7. CASE o \notin Literal /\ o \notin Class /\ ~Known(g, o)
    <3>1. w = <<o>>
      BY <2>1, <2>7 DEF Shown
    <3>2. o \in Individual \cup Iri
      <4>1. <<i, n, o>> \in Statement
        BY <1>2, <2>2 DEF Stored
      <4>2. n # Type /\ n \notin Attribute
        BY KindsAreDistinct DEF Predicate
      <4> QED BY <2>7, <4>1, <4>2 DEF Statement, Entity
    <3>3. o \in {y \in Individual \cup Iri : <<y>> \in M \cap V}
      BY <2>4, <3>1, <3>2
    <3>4. o \in TextLiterals(M \cap V)
      <4> HIDE DEF M
      <4> QED BY <3>3 DEF TextLiterals
    <3> QED BY <2>3, <3>4
  <2> QED BY <2>5, <2>6, <2>7
<1> QED BY <1>5, <1>6

-----------------------------------------------------------------------------
(* An assignment to an attribute with a new value that it cannot store     *)
(* raises in the update, before anything is removed.                       *)
LEMMA RefusedAssignmentLosesNothing ==
    ASSUME NEW g, NEW i \in Individual, NEW a \in Attribute, NEW V \in SUBSET Value,
           Refuses(a, V \ Members(g, ObjectSet(i, a))),
           NEW r \in Assign(g, i, a, V), r.raised
    PROVE  g \subseteq r.graph
<1> DEFINE s == ObjectSet(i, a)  M == AttributeMembers(g, s)
           Then(q) == IF q.raised THEN {q} ELSE AttributeDifference(q.graph, s, M \ V)
<1>1. s.predicate = a /\ s.individual = i /\ Members(g, s) = M
  BY AttributeOperations DEF ObjectSet
<1> DEFINE texts == TextsIn(V)
           H == AttributesAdd(g, s.individual, s.predicate, (V \ M) \cup texts)
<1>2. V \cap Value = V
  OBVIOUS
<1>3. r \in Raises(g) \/ r \in AssignAttribute(g, s, V, texts)
  BY <1>2, KindsAreDistinct DEF Assign
<1>4. CASE r \in AssignAttribute(g, s, V, texts)
  <2>1. r \in UNION {Then(q) : q \in H}
    BY <1>4 DEF AssignAttribute
  <2>2. PICK q \in H : r \in Then(q)
    <3> HIDE DEF H, Then
    <3> QED BY <2>1
  <2>3. q \in AttributesAdd(g, i, a, (V \ M) \cup texts)
    BY <1>1, <2>2
  <2>4. Refuses(a, (V \ M) \cup texts)
    BY <1>1 DEF Refuses
  <2> HIDE DEF M, texts
  <2>5. g \subseteq q.graph /\ q.raised
    BY <2>3, <2>4, AttributesAdded
  <2> QED BY <2>2, <2>5
<1> QED BY <1>3, <1>4, RaisesParts

(* The law of sets follows from the form of the graph, kind by kind.       *)
LEMMA SetLawHolds == TypeOK => SetLaw
<1> SUFFICES ASSUME TypeOK PROVE SetLaw
  OBVIOUS
<1>0. graph \in SUBSET Stored /\ AttributeArguments \subseteq SUBSET Value
  BY IndividualsAssumption DEF TypeOK
<1>1. ASSUME NEW i \in Individual, NEW a \in Attribute, NEW V \in AttributeArguments,
             Refuses(a, V \ Members(graph, ObjectSet(i, a))),
             NEW r \in Assign(graph, i, a, V), r.raised
      PROVE  graph \subseteq r.graph
  BY <1>0, <1>1, RefusedAssignmentLosesNothing
<1>2. ASSUME NEW s \in Sets, NEW V \in Arguments(s.predicate), NEW r \in Update(graph, s, V), ~r.raised
      PROVE  LET M == Members(graph, s) IN
             /\ M \subseteq Members(r.graph, s)
             /\ s.predicate \in Relationship /\ ~s.inverse =>
                   Members(r.graph, s) = M \cup {x \in V : Known(graph, x)}
             /\ s.predicate \in Attribute =>
                   Members(r.graph, s) = M \cup {Python[l] : l \in StoredAs(s.predicate, V \ M)}
  <2>1. CASE s.predicate \in Attribute
    <3>1. V \in SUBSET Value
      BY <1>0, <2>1, KindsAreDistinct DEF Arguments
    <3>2. r \in AttributeUpdate(graph, s, V)
      BY <1>2, <2>1, AttributeOperations
    <3>3. /\ AttributeMembers(graph, s) \subseteq AttributeMembers(r.graph, s)
          /\ AttributeMembers(r.graph, s) = AttributeMembers(graph, s) \cup
                {Python[l] : l \in StoredAs(s.predicate, V \ AttributeMembers(graph, s))}
      BY <1>0, <1>2, <2>1, <3>1, <3>2, AttributeUpdateLaw
    <3>4. /\ Members(graph, s) = AttributeMembers(graph, s)
          /\ Members(r.graph, s) = AttributeMembers(r.graph, s)
      BY <2>1, AttributeOperations
    <3> QED BY <2>1, <3>3, <3>4, KindsAreDistinct
  <2>2. CASE s.predicate \in Relationship
    BY <1>0, <1>2, <2>2, RelationshipOperations, RelationshipUpdateLaw, KindsAreDistinct
  <2>3. CASE s.predicate \in Annotation
    BY <1>0, <1>2, <2>3, AnnotationOperations, AnnotationUpdateLaw, KindsAreDistinct
  <2> QED BY <2>1, <2>2, <2>3, SetsArePredicates DEF Predicate
<1>3. ASSUME NEW s \in Sets, NEW V \in Arguments(s.predicate), NEW r \in Difference(graph, s, V), ~r.raised
      PROVE  LET M == Members(graph, s) IN
             /\ Members(r.graph, s) \subseteq M
             /\ s.predicate \in Attribute => Members(r.graph, s) \cap V = {}
             /\ s.predicate \in Annotation => Members(r.graph, s) \cap V \subseteq
                   Entity \cup {Python[l] : l \in
                                   ObjectsOf(graph, s.individual, {s.predicate}) \cap OtherLiterals}
             /\ s.predicate \in Relationship /\ ~s.inverse =>
                   /\ M \ V \subseteq Members(r.graph, s)
                   /\ Members(r.graph, s) \cap V \subseteq
                         Linked(graph, s.individual, {}, Inverses(s.predicate))
  <2>1. CASE s.predicate \in Attribute
    BY <1>0, <1>3, <2>1, AttributeOperations, AttributeDifferenceLaw, KindsAreDistinct
  <2>2. CASE s.predicate \in Relationship
    <3>1. r \in RelationshipDifference(graph, s, V)
      BY <1>3, <2>2, RelationshipOperations
    <3> DEFINE M == RelationshipMembers(graph, s)  N == RelationshipMembers(r.graph, s)
    <3>2. /\ N \subseteq M
          /\ ~s.inverse => /\ M \ V \subseteq N
                           /\ N \cap V \subseteq
                                 Linked(graph, s.individual, {}, Inverses(s.predicate))
      BY <1>0, <1>3, <2>2, <3>1, RelationshipDifferenceLaw
    <3>3. Members(graph, s) = M /\ Members(r.graph, s) = N
      BY <2>2, RelationshipOperations
    <3> HIDE DEF M, N
    <3> QED BY <2>2, <3>2, <3>3, KindsAreDistinct
  <2>3. CASE s.predicate \in Annotation
    <3>1. r \in AnnotationDifference(graph, s, V)
      BY <1>3, <2>3, AnnotationOperations
    <3> DEFINE M == AnnotationMembers(graph, s)  N == AnnotationMembers(r.graph, s)
               kept == Entity \cup {Python[l] : l \in
                          ObjectsOf(graph, s.individual, {s.predicate}) \cap OtherLiterals}
    <3>2. N \subseteq M /\ N \cap V \subseteq kept
      BY <1>0, <1>3, <2>3, <3>1, AnnotationDifferenceLaw
    <3>3. Members(graph, s) = M /\ Members(r.graph, s) = N
      BY <2>3, AnnotationOperations
    <3> HIDE DEF M, N
    <3> QED BY <2>3, <3>2, <3>3, KindsAreDistinct
  <2> QED BY <2>1, <2>2, <2>3, SetsArePredicates DEF Predicate
<1> QED BY <1>1, <1>2, <1>3 DEF SetLaw

-----------------------------------------------------------------------------
(* Individuals are neither handles of another session, nor bare            *)
(* identifiers, nor classes.                                               *)
LEMMA HandlesAreDistinct ==
    /\ Individual \cap Foreign = {} /\ Individual \cap Bare(Individual) = {}
    /\ \A x \in Individual : <<"other", x>> \in Foreign /\ <<"other", x>>[2] = x
    /\ \A c \in Class : c \notin Individual
BY HandleAssumption, ObjectSetsAssumption DEF Foreign

(* What the members of a session are.                                      *)
LEMMA IsMember ==
    ASSUME NEW g, NEW c, NEW x
    PROVE  x \in SessionMembers(g, c) <=>
              x \in Individual /\ Known(g, x) /\ (c # None => IsA(g, x, c))
BY ObjectSetsAssumption DEF SessionMembers, Get

(* What is known and of what class it is depends on the types alone.       *)
LEMMA TypesTell ==
    ASSUME NEW g, NEW h, NEW x
    PROVE  /\ TypesOf(g, x) \subseteq TypesOf(h, x) =>
                 /\ Known(g, x) => Known(h, x)
                 /\ \A c : IsA(g, x, c) => IsA(h, x, c)
           /\ TypesOf(g, x) = TypesOf(h, x) =>
                 /\ Known(g, x) <=> Known(h, x)
                 /\ \A c : IsA(g, x, c) <=> IsA(h, x, c)
BY DEF Known, IsA

(* If Session.add returns, it has taken over all, every individual has a   *)
(* type, and none was there before unless this was allowed.                *)
LEMMA AddReturns ==
    ASSUME NEW g, NEW from, NEW V, NEW m, NEW e, NEW a,
           NEW r \in Add(g, from, V, m, e, a), ~r.raised
    PROVE  /\ r.graph = Kept(g, V, m) \cup Arriving(from, V, a)
           /\ \A x \in Given(V) : Known(r.graph, x)
           /\ ~e => \A x \in Given(V) : ~HasTriples(g, x)
<1>1. /\ r.graph = Kept(g, V, m) \cup Arriving(from, V, a)
      /\ r.raised <=> \E x \in Given(V) : ~Known(r.graph, x)
      /\ ~e => \A x \in Given(V) : ~HasTriples(g, x)
  BY AddOutcomes
<1> QED BY <1>1

(* Whether it returns or raises, Session.add takes only statements about   *)
(* what it imports, and none if it merges, and brings only statements of   *)
(* the other graph about it.                                               *)
LEMMA AddIsConfined ==
    ASSUME NEW g, NEW from, NEW V, NEW m, NEW e, NEW a, NEW r \in Add(g, from, V, m, e, a)
    PROVE  /\ g \ r.graph \subseteq IF m THEN {} ELSE About(g, Imported(V))
           /\ r.graph \ g \subseteq About(from, Imported(V))
<1>1. \/ r.graph = g
      \/ \E W \in SUBSET Arriving(from, V, a) : r.graph = Kept(g, V, m) \cup W
  BY AddOutcomes
<1>2. Arriving(from, V, a) \subseteq About(from, Imported(V))
  BY DEF Arriving, Taken
<1>3. /\ Kept(g, V, m) \subseteq g
      /\ g \ Kept(g, V, m) \subseteq IF m THEN {} ELSE About(g, Imported(V))
  BY DEF Kept
<1> QED BY <1>1, <1>2, <1>3

(* Session.add as update and intersection call it, and as the symmetric    *)
(* difference does.                                                        *)
Merge(g, from, V) == Add(g, from, V, TRUE, TRUE, FALSE)
Fresh(g, from, V) == Add(g, from, V, FALSE, FALSE, FALSE)

(* The types that are taken over are those in the other graph.             *)
LEMMA TypesTaken ==
    ASSUME NEW from, NEW I, NEW X, NEW x
    PROVE  /\ x \in I => TypesOf(Taken(About(from, I), X, FALSE), x) = TypesOf(from, x)
           /\ x \notin I => TypesOf(Taken(About(from, I), X, FALSE), x) = {}
BY DEF TypesOf, Taken, About

(* Types in two graphs together.                                           *)
LEMMA TypesJoin ==
    ASSUME NEW g, NEW h, NEW x
    PROVE  TypesOf(g \cup h, x) = TypesOf(g, x) \cup TypesOf(h, x)
BY DEF TypesOf

(* Session.delete takes the types of what is deleted, and no others.       *)
LEMMA DeleteReturns ==
    ASSUME NEW g, NEW D \in SUBSET Individual, NEW r \in Delete(g, D)
    PROVE  \A x : TypesOf(r.graph, x) = IF x \in D THEN {} ELSE TypesOf(g, x)
<1>1. D \cap Foreign = {} /\ Resolved(D) = D
  BY HandlesAreDistinct DEF Resolved, Handle, Bare
<1>2. r \in Returns({t \in g : t[1] \notin D /\ t[3] \notin D})
  BY <1>1 DEF Delete
<1>3. r.graph = {t \in g : t[1] \notin D /\ t[3] \notin D}
  BY <1>2, ReturnsParts
<1>4. \A c \in Class : c \notin D
  BY HandlesAreDistinct
<1> QED BY <1>3, <1>4 DEF TypesOf

(* After a merge individuals of the other session have the types of both.  *)
LEMMA MergedTypes ==
    ASSUME NEW g, NEW from, NEW V,
           NEW r \in Merge(g, from, V), ~r.raised, NEW x
    PROVE  /\ x \in Own(V) \cup Imported(V) => Known(r.graph, x)
           /\ x \in Imported(V) => TypesOf(r.graph, x) = TypesOf(g, x) \cup TypesOf(from, x)
           /\ x \notin Imported(V) => TypesOf(r.graph, x) = TypesOf(g, x)
<1> DEFINE good == Arriving(from, V, FALSE)
<1>1. r.graph = g \cup good /\ \A y \in Given(V) : Known(r.graph, y)
  <2> DEFINE m == TRUE  a == FALSE
  <2>1. /\ Kept(g, V, m) = g /\ Arriving(from, V, a) = good
        /\ r \in Add(g, from, V, m, m, a)
    BY DEF Kept, Merge
  <2> HIDE DEF m, a, good
  <2> QED BY <2>1, AddReturns
<1>2. TypesOf(r.graph, x) = TypesOf(g, x) \cup TypesOf(good, x)
  <2> HIDE DEF good
  <2> QED BY <1>1, TypesJoin
<1>3. /\ x \in Imported(V) => TypesOf(good, x) = TypesOf(from, x)
      /\ x \notin Imported(V) => TypesOf(good, x) = {}
  BY TypesTaken DEF Arriving
<1> QED BY <1>1, <1>2, <1>3 DEF Given

(* Individuals that were not there before have the types of their own      *)
(* session.                                                                *)
LEMMA NewTypes ==
    ASSUME NEW g, NEW from, NEW V,
           NEW r \in Fresh(g, from, V), ~r.raised, NEW x
    PROVE  /\ x \in Own(V) \cup Imported(V) => Known(r.graph, x) /\ ~Known(g, x)
           /\ x \in Imported(V) => TypesOf(r.graph, x) = TypesOf(from, x)
           /\ x \notin Imported(V) => TypesOf(r.graph, x) = TypesOf(g, x)
<1> DEFINE X == Given(V)
           base == Kept(g, V, FALSE)
           good == Arriving(from, V, FALSE)
<1>1. /\ r.graph = base \cup good /\ \A y \in X : Known(r.graph, y)
      /\ \A y \in X : ~HasTriples(g, y)
  <2> DEFINE m == FALSE
  <2>1. /\ Kept(g, V, m) = base /\ Arriving(from, V, m) = good
        /\ r \in Add(g, from, V, m, m, m) /\ ~m
    BY DEF Fresh
  <2> HIDE DEF m, base, good
  <2> QED BY <2>1, AddReturns
<1>2. TypesOf(r.graph, x) = TypesOf(base, x) \cup TypesOf(good, x)
  <2> HIDE DEF base, good
  <2> QED BY <1>1, TypesJoin
<1>3. /\ x \in Imported(V) => TypesOf(good, x) = TypesOf(from, x)
      /\ x \notin Imported(V) => TypesOf(good, x) = {}
  BY TypesTaken DEF Arriving
<1>4. /\ x \in X => TypesOf(g, x) = {}
      /\ x \in Imported(V) => TypesOf(base, x) = {}
      /\ x \notin Imported(V) => TypesOf(base, x) = TypesOf(g, x)
  <2>1. ASSUME x \in X, NEW c \in TypesOf(g, x) PROVE FALSE
    <3>1. <<x, Type, c>> \in g /\ <<x, Type, c>>[1] = x
      BY <2>1 DEF TypesOf
    <3> QED BY <1>1, <2>1, <3>1 DEF HasTriples
  <2>2. /\ x \in Imported(V) => TypesOf(base, x) = {}
        /\ x \notin Imported(V) => TypesOf(base, x) = TypesOf(g, x)
    BY DEF TypesOf, About, Kept
  <2> QED BY <2>1, <2>2
<1> HIDE DEF X, base, good
<1>5. x \in X => Known(r.graph, x) /\ ~Known(g, x)
  BY <1>1, <1>4 DEF Known
<1>6. Imported(V) \subseteq X
  BY DEF X, Given
<1> QED BY <1>2, <1>3, <1>4, <1>5, <1>6 DEF X, Given

(* The handles of V that exist are those whose identifiers are known here. *)
LEMMA ExistingHere ==
    ASSUME NEW g, NEW V, NEW x \in Individual
    PROVE  /\ x \in Own(Existing(g, V)) <=> x \in Own(V) /\ Known(g, x)
           /\ x \in Imported(Existing(g, V)) <=> x \in Imported(V) /\ Known(g, x)
           /\ x \in Own(V \ Existing(g, V)) <=> x \in Own(V) /\ ~Known(g, x)
           /\ x \in Imported(V \ Existing(g, V)) <=> x \in Imported(V) /\ ~Known(g, x)
<1>1. x \notin Foreign /\ <<"other", x>> \in Foreign /\ <<"other", x>>[2] = x
  BY HandlesAreDistinct
<1>2. x \in Existing(g, V) <=> x \in V /\ Known(g, x)
  BY <1>1 DEF Existing
<1>3. <<"other", x>> \in Existing(g, V) <=> <<"other", x>> \in V /\ Known(g, x)
  BY <1>1 DEF Existing
<1> QED BY <1>2, <1>3 DEF Own, Imported

(* Without a misfit, all that is given is of the class, here or there.     *)
LEMMA FitsHave ==
    ASSUME NEW g, NEW from, NEW V, NEW c, ~Misfit(g, from, V, c), c # None, NEW x \in Individual
    PROVE  /\ x \in Own(V) => IsA(g, x, c)
           /\ x \in Imported(V) => IsA(from, x, c)
<1>1. x \notin Foreign /\ <<"other", x>> \in Foreign /\ <<"other", x>>[2] = x
  BY HandlesAreDistinct
<1>2. x \in Own(V) => HandleIsA(g, from, x, c)
  BY DEF Misfit, Own
<1>3. x \in Imported(V) => HandleIsA(g, from, <<"other", x>>, c)
  BY DEF Misfit, Imported
<1> QED BY <1>1, <1>2, <1>3 DEF HandleIsA

(* An update of a set of individuals of the session is a union.            *)
LEMMA UpdateLaw ==
    ASSUME NEW g, NEW from, NEW V, NEW c,
           NEW r \in SessionUpdate(g, from, V, c), ~r.raised
    PROVE  SessionMembers(r.graph, c) = SessionMembers(g, c) \cup Given(V)
<1>1. ~Misfit(g, from, V, c) /\ r \in Merge(g, from, V)
  BY RaisesParts DEF SessionUpdate, Merge
<1>2. \A x : /\ x \in Given(V) => Known(r.graph, x)
             /\ x \in Imported(V) => TypesOf(r.graph, x) = TypesOf(g, x) \cup TypesOf(from, x)
             /\ x \notin Imported(V) => TypesOf(r.graph, x) = TypesOf(g, x)
  BY <1>1, MergedTypes DEF Given
<1>3. ASSUME NEW x \in SessionMembers(g, c) PROVE x \in SessionMembers(r.graph, c)
  <2>1. TypesOf(g, x) \subseteq TypesOf(r.graph, x)
    BY <1>2
  <2> QED BY <2>1, IsMember, TypesTell
<1>4. ASSUME NEW x \in Given(V) PROVE x \in SessionMembers(r.graph, c)
  <2>1. x \in Individual /\ Known(r.graph, x)
    BY <1>2, <1>4 DEF Given, Own, Imported
  <2>2. ASSUME c # None PROVE IsA(r.graph, x, c)
    <3>1. CASE x \in Own(V)
      <4>1. IsA(g, x, c)
        BY <1>1, <2>1, <2>2, <3>1, FitsHave
      <4>2. TypesOf(g, x) \subseteq TypesOf(r.graph, x)
        BY <1>2
      <4> QED BY <4>1, <4>2, TypesTell
    <3>2. CASE x \in Imported(V)
      <4>1. IsA(from, x, c)
        BY <1>1, <2>1, <2>2, <3>2, FitsHave
      <4>2. TypesOf(from, x) \subseteq TypesOf(r.graph, x)
        BY <1>2, <3>2
      <4> QED BY <4>1, <4>2, TypesTell
    <3> QED BY <1>4, <3>1, <3>2 DEF Given
  <2> QED BY <2>1, <2>2, IsMember
<1>5. ASSUME NEW x \in SessionMembers(r.graph, c), x \notin Given(V) PROVE x \in SessionMembers(g, c)
  <2>1. TypesOf(g, x) = TypesOf(r.graph, x)
    BY <1>2, <1>5 DEF Given
  <2> QED BY <2>1, IsMember, TypesTell
<1> QED BY <1>3, <1>4, <1>5

(* If an addition followed by a deletion returns, neither raised.          *)
LEMMA AddedThenDeleted ==
    ASSUME NEW A, NEW D, NEW r \in ThenDelete(A, D), ~r.raised
    PROVE  \E q \in A : ~q.raised /\ r \in Delete(q.graph, D)
<1> DEFINE Then(q) == IF q.raised THEN {q} ELSE Delete(q.graph, D)
<1>1. PICK q \in A : r \in Then(q)
  <2>1. r \in UNION {Then(q) : q \in A}
    BY DEF ThenDelete
  <2> HIDE DEF Then
  <2> QED BY <2>1
<1> QED BY <1>1

(* An intersection keeps the common individuals and no others; those that  *)
(* exist without the class may get it by the merge.                        *)
LEMMA IntersectionLaw ==
    ASSUME NEW g, NEW from, NEW V, NEW c,
           NEW r \in SessionIntersection(g, from, V, c), ~r.raised
    PROVE  LET M == SessionMembers(g, c) IN
           /\ M \cap Given(V) \subseteq SessionMembers(r.graph, c)
           /\ SessionMembers(r.graph, c) \subseteq Given(V) \cap SessionMembers(g, None)
<1> DEFINE E == Existing(g, V)
           D == SessionMembers(g, c) \ (Own(E) \cup Imported(E))
<1>1. r \in ThenDelete(Merge(g, from, E), D)
  <2>1. r \in Raises(g) \/ r \in ThenDelete(Merge(g, from, E), D)
    BY Zenon DEF SessionIntersection, ThenDelete, Merge
  <2> HIDE DEF E, D
  <2> QED BY <2>1, RaisesParts
<1>2. D \in SUBSET Individual
  BY IsMember
<1>3. \A x \in Individual : /\ x \in Own(E) <=> x \in Own(V) /\ Known(g, x)
                            /\ x \in Imported(E) <=> x \in Imported(V) /\ Known(g, x)
  BY ExistingHere
<1>4. Own(E) \cup Imported(E) \subseteq Individual
  BY DEF Own, Imported
<1> HIDE DEF E
<1>5. \A x : x \in D <=> x \in SessionMembers(g, c) /\ x \notin Own(E) \cup Imported(E)
  OBVIOUS
<1> HIDE DEF D
<1>6. PICK q \in Merge(g, from, E) : ~q.raised /\ r \in Delete(q.graph, D)
  BY <1>1, AddedThenDeleted
<1>7. \A x : TypesOf(r.graph, x) = IF x \in D THEN {} ELSE TypesOf(q.graph, x)
  BY <1>2, <1>6, DeleteReturns
<1>8. \A x : /\ TypesOf(g, x) \subseteq TypesOf(q.graph, x)
             /\ x \notin Imported(E) => TypesOf(q.graph, x) = TypesOf(g, x)
  <2>1. \A x : /\ x \in Imported(E) => TypesOf(q.graph, x) = TypesOf(g, x) \cup TypesOf(from, x)
               /\ x \notin Imported(E) => TypesOf(q.graph, x) = TypesOf(g, x)
    BY <1>6, MergedTypes
  <2> QED BY <2>1
<1>9. ASSUME NEW x \in SessionMembers(g, c), x \in Given(V) PROVE x \in SessionMembers(r.graph, c)
  <2>1. x \in Individual /\ Known(g, x) /\ (c # None => IsA(g, x, c))
    BY IsMember
  <2>2. x \notin D
    BY <1>3, <1>5, <1>9, <2>1 DEF Given
  <2>3. TypesOf(g, x) \subseteq TypesOf(r.graph, x)
    BY <1>7, <1>8, <2>2
  <2> QED BY <2>1, <2>3, IsMember, TypesTell
<1>10. ASSUME NEW x \in SessionMembers(r.graph, c)
       PROVE  x \in Given(V) /\ x \in SessionMembers(g, None)
  <2>1. x \in Individual /\ Known(r.graph, x) /\ (c # None => IsA(r.graph, x, c))
    BY IsMember
  <2>2. x \notin D
    BY <1>7, <2>1 DEF Known
  <2>3. ASSUME x \notin Own(E) \cup Imported(E) PROVE FALSE
    <3>1. TypesOf(r.graph, x) = TypesOf(g, x)
      BY <1>7, <1>8, <2>2, <2>3
    <3>2. x \in SessionMembers(g, c)
      BY <2>1, <3>1, IsMember, TypesTell
    <3> QED BY <1>5, <2>2, <2>3, <3>2
  <2>4. x \in Given(V) /\ Known(g, x)
    BY <1>3, <2>1, <2>3 DEF Given
  <2> QED BY <2>1, <2>4, IsMember
<1> QED BY <1>9, <1>10

(* A difference is a difference.                                           *)
LEMMA DifferenceLaw ==
    ASSUME NEW g, NEW V, NEW c, NEW r \in SessionDifference(g, V, c), ~r.raised
    PROVE  SessionMembers(r.graph, c) = SessionMembers(g, c) \ Given(V)
<1> DEFINE D == {x \in Own(V) \cup Imported(V) : Known(g, x)}
<1>1. r \in Delete(g, D)
  <2>1. r \in Raises(g) \/ r \in Delete(g, D)
    BY DEF SessionDifference
  <2> HIDE DEF D
  <2> QED BY <2>1, RaisesParts
<1>2. D \in SUBSET Individual
  BY DEF Own, Imported
<1>3. \A x : x \in D <=> x \in Given(V) /\ Known(g, x)
  BY DEF Given
<1> HIDE DEF D
<1>4. \A x : TypesOf(r.graph, x) = IF x \in D THEN {} ELSE TypesOf(g, x)
  BY <1>1, <1>2, DeleteReturns
<1>5. ASSUME NEW x \in SessionMembers(r.graph, c)
      PROVE  x \in SessionMembers(g, c) /\ x \notin Given(V)
  <2>1. Known(r.graph, x)
    BY IsMember
  <2>2. x \notin D
    BY <1>4, <2>1 DEF Known
  <2>3. TypesOf(r.graph, x) = TypesOf(g, x)
    BY <1>4, <2>2
  <2>4. x \in SessionMembers(g, c)
    BY <2>3, IsMember, TypesTell
  <2> QED BY <1>3, <2>2, <2>4, IsMember
<1>6. ASSUME NEW x \in SessionMembers(g, c), x \notin Given(V) PROVE x \in SessionMembers(r.graph, c)
  <2>1. TypesOf(r.graph, x) = TypesOf(g, x)
    BY <1>3, <1>4, <1>6
  <2> QED BY <2>1, IsMember, TypesTell
<1> QED BY <1>5, <1>6

(* A symmetric difference deletes common individuals and adds those that   *)
(* did not exist.                                                          *)
LEMMA SymmetricLaw ==
    ASSUME NEW g, NEW from, NEW V, NEW c,
           NEW r \in SessionSymmetric(g, from, V, c), ~r.raised
    PROVE  SessionMembers(r.graph, c) =
               (SessionMembers(g, c) \ Given(V)) \cup (Given(V) \ SessionMembers(g, None))
<1> DEFINE E == Existing(g, V)
           N == V \ E
           D == SessionMembers(g, c) \cap (Own(E) \cup Imported(E))
<1>1. ~Misfit(g, from, N, c) /\ r \in ThenDelete(Fresh(g, from, N), D)
  <2>1. \/ r \in Raises(g)
        \/ ~Misfit(g, from, N, c) /\ r \in ThenDelete(Fresh(g, from, N), D)
    BY Zenon DEF SessionSymmetric, ThenDelete, Fresh
  <2> HIDE DEF E, D, N
  <2> QED BY <2>1, RaisesParts
<1>2. D \in SUBSET Individual
  BY IsMember
<1>3. \A x \in Individual : /\ x \in Own(E) <=> x \in Own(V) /\ Known(g, x)
                            /\ x \in Imported(E) <=> x \in Imported(V) /\ Known(g, x)
                            /\ x \in Own(N) <=> x \in Own(V) /\ ~Known(g, x)
                            /\ x \in Imported(N) <=> x \in Imported(V) /\ ~Known(g, x)
  BY ExistingHere
<1> HIDE DEF E, N
<1>4. \A x : x \in D <=> x \in SessionMembers(g, c) /\ x \in Own(E) \cup Imported(E)
  OBVIOUS
<1>5. Given(V) \subseteq Individual
  BY DEF Given, Own, Imported
<1> HIDE DEF D
<1>6. PICK q \in Fresh(g, from, N) : ~q.raised /\ r \in Delete(q.graph, D)
  BY <1>1, AddedThenDeleted
<1>7. \A x : TypesOf(r.graph, x) = IF x \in D THEN {} ELSE TypesOf(q.graph, x)
  BY <1>2, <1>6, DeleteReturns
<1>8. \A x : /\ x \in Own(N) \cup Imported(N) => Known(q.graph, x) /\ ~Known(g, x)
             /\ x \in Imported(N) => TypesOf(q.graph, x) = TypesOf(from, x)
             /\ x \notin Imported(N) => TypesOf(q.graph, x) = TypesOf(g, x)
  BY <1>6, NewTypes
<1>9. ASSUME NEW x \in SessionMembers(r.graph, c)
      PROVE  \/ x \in SessionMembers(g, c) /\ x \notin Given(V)
             \/ x \in Given(V) /\ x \notin SessionMembers(g, None)
  <2>1. x \in Individual /\ Known(r.graph, x)
    BY IsMember
  <2>2. x \notin D
    BY <1>7, <2>1 DEF Known
  <2>3. CASE x \in Imported(N)
    BY <1>3, <2>1, <2>3, IsMember DEF Given
  <2>4. CASE x \notin Imported(N)
    <3>1. TypesOf(r.graph, x) = TypesOf(g, x)
      BY <1>7, <1>8, <2>2, <2>4
    <3>2. x \in SessionMembers(g, c) /\ Known(g, x)
      BY <3>1, IsMember, TypesTell
    <3> QED BY <1>3, <1>4, <2>1, <2>2, <3>2 DEF Given
  <2> QED BY <2>3, <2>4
<1>10. ASSUME NEW x \in SessionMembers(g, c), x \notin Given(V) PROVE x \in SessionMembers(r.graph, c)
  <2>1. x \in Individual
    BY IsMember
  <2>2. x \notin D /\ x \notin Imported(N)
    BY <1>3, <1>4, <1>10, <2>1 DEF Given
  <2>3. TypesOf(r.graph, x) = TypesOf(g, x)
    BY <1>7, <1>8, <2>2
  <2> QED BY <2>3, IsMember, TypesTell
<1>11. ASSUME NEW x \in Given(V), x \notin SessionMembers(g, None)
       PROVE  x \in SessionMembers(r.graph, c)
  <2>1. x \in Individual /\ ~Known(g, x)
    BY <1>5, <1>11, IsMember
  <2>2. x \in Own(N) \cup Imported(N) /\ x \notin D
    BY <1>3, <1>4, <1>11, <2>1 DEF Given
  <2>3. TypesOf(r.graph, x) = TypesOf(q.graph, x) /\ Known(q.graph, x)
    BY <1>7, <1>8, <2>2
  <2>4. ASSUME c # None PROVE IsA(q.graph, x, c)
    <3>1. x \in Own(N) => IsA(g, x, c)
      BY <1>1, <2>1, <2>4, FitsHave
    <3>2. ~IsA(g, x, c)
      BY <2>1 DEF IsA, Known
    <3>3. IsA(from, x, c) /\ x \in Imported(N)
      BY <1>1, <2>1, <2>2, <2>4, <3>1, <3>2, FitsHave
    <3> QED BY <1>8, <3>3, TypesTell
  <2> QED BY <2>1, <2>3, <2>4, IsMember, TypesTell
<1> QED BY <1>9, <1>10, <1>11

(* The law of sets of individuals holds in every graph.                    *)
LEMMA SessionSetLawHolds == SessionSetLaw
<1> SUFFICES ASSUME NEW from \in Sources, NEW V \in ImportArguments, NEW c \in Filter
             PROVE  LET M == SessionMembers(graph, c)
                        X == Own(V) \cup Imported(V)
                    IN  /\ \A merge, exists_ok, all \in BOOLEAN :
                           \A r \in Add(graph, from, V, merge, exists_ok, all) :
                              /\ graph \ r.graph \subseteq
                                    IF merge THEN {} ELSE About(graph, Imported(V))
                              /\ r.graph \ graph \subseteq About(from, Imported(V))
                        /\ \A r \in SessionUpdate(graph, from, V, c) :
                              ~r.raised => SessionMembers(r.graph, c) = M \cup X
                        /\ \A r \in SessionIntersection(graph, from, V, c) :
                              ~r.raised => /\ M \cap X \subseteq SessionMembers(r.graph, c)
                                           /\ SessionMembers(r.graph, c) \subseteq
                                                 X \cap SessionMembers(graph, None)
                        /\ \A r \in SessionDifference(graph, V, c) :
                              ~r.raised => SessionMembers(r.graph, c) = M \ X
                        /\ \A r \in SessionSymmetric(graph, from, V, c) :
                              ~r.raised => SessionMembers(r.graph, c) =
                                  (M \ X) \cup (X \ SessionMembers(graph, None))
  BY DEF SessionSetLaw
<1>1. Own(V) \cup Imported(V) = Given(V)
  BY DEF Given
<1>2. ASSUME NEW m \in BOOLEAN, NEW e \in BOOLEAN, NEW a \in BOOLEAN,
             NEW r \in Add(graph, from, V, m, e, a)
      PROVE  /\ graph \ r.graph \subseteq IF m THEN {} ELSE About(graph, Imported(V))
             /\ r.graph \ graph \subseteq About(from, Imported(V))
  BY AddIsConfined
<1> QED BY <1>1, <1>2, UpdateLaw, IntersectionLaw, DifferenceLaw, SymmetricLaw

-----------------------------------------------------------------------------
(* A finite set of cardinality one has one element.                        *)
LEMMA OnlyOne ==
    ASSUME NEW S, IsFiniteSet(S), Cardinality(S) = 1
    PROVE  \E x : S = {x}
BY FS_Singleton

(* A name leads to finitely many attributes.                               *)
LEMMA NamedIsFinite ==
    ASSUME NEW i, NEW n PROVE IsFiniteSet(NamedAttributes(graph, i, n))
BY NamedAreAttributes, ObjectSetsAssumption, FS_Subset

(* Finitely many individuals have finitely many types.                     *)
LEMMA IdentifiersAreFinite ==
    ASSUME TypeOK PROVE IsFiniteSet(IterIdentifiers(graph))
<1>1. IterIdentifiers(graph) \subseteq {<<p[1], Type, p[2]>> : p \in Individual \X Class}
  <2>1. ASSUME NEW t \in IterIdentifiers(graph)
        PROVE  t \in {<<p[1], Type, p[2]>> : p \in Individual \X Class}
    <3>1. t = <<t[1], Type, t[3]>> /\ t[1] \in Individual /\ t[3] \in Class
      BY DEF IterIdentifiers, TypeOK, Stored, Statement
    <3>2. <<t[1], t[3]>> \in Individual \X Class
      BY <3>1
    <3> QED BY <3>1, <3>2
  <2> QED BY <2>1
<1>2. IsFiniteSet(Individual \X Class)
  BY ObjectSetsAssumption, FS_Product
<1>3. IsFiniteSet({<<p[1], Type, p[2]>> : p \in Individual \X Class})
  <2> DEFINE S == Individual \X Class
             f == [p \in S |-> <<p[1], Type, p[2]>>]
             all == {<<p[1], Type, p[2]>> : p \in S}
  <2>1. f \in Surjection(S, all)
    BY DEF Surjection
  <2> HIDE DEF S, all, f
  <2>2. IsFiniteSet(all)
    BY <1>2, <2>1, FS_Surjection DEF S
  <2> QED BY <2>2 DEF all, S
<1> QED BY <1>1, <1>3, FS_Subset

(* The ways to read a graph agree if its statements are well formed.       *)
LEMMA ReadsAgreeHolds == TypeOK => ReadsAgree
<1> SUFFICES ASSUME TypeOK PROVE ReadsAgree
  OBVIOUS
<1>0. /\ graph \in SUBSET Stored
      /\ \A t \in graph : t = <<t[1], t[2], t[3]>> /\ t[1] \in Individual
  BY DEF TypeOK, Stored, Statement
<1>1. ASSUME NEW x, Known(graph, x) PROVE x \in Individual
  BY <1>0, <1>1 DEF Known, TypesOf
<1>2. ASSUME NEW i \in Individual, NEW r \in Relationship
      PROVE  LET M == RelationshipMembers(graph, ObjectSet(i, r))
                 P == {pair[1] : pair \in PairsOf(graph, i, r)}
             IN  /\ \A c \in Filter :
                       {x \in Individual : GetOne(graph, i, r, x, c) = x /\ Known(graph, x)}
                       = {x \in M : c # None => IsA(graph, x, c)}
                 /\ {x \in P : Known(graph, x)} \subseteq M
                 /\ M \ P \subseteq Linked(graph, i, {}, Inverses(r))
  <2> DEFINE s == ObjectSet(i, r)
             M == RelationshipMembers(graph, s)
             P == {pair[1] : pair \in PairsOf(graph, i, r)}
             I == Inverses(r)
             all == Linked(graph, i, Sub[r], I)
  <2>1. s.individual = i /\ s.predicate = r /\ s.inverse = FALSE /\ s.class = None
    BY DEF ObjectSet
  <2>2. Connected(graph, s) = all
    BY <2>1 DEF Connected
  <2>3. \A c : Connected(graph, [s EXCEPT !.class = c]) =
               IF c = None THEN all ELSE {x \in all : IsA(graph, x, c)}
    <3> TAKE c
    <3> DEFINE e == [s EXCEPT !.class = c]
    <3>1. e.individual = i /\ e.predicate = r /\ ~e.inverse /\ e.class = c
      BY DEF ObjectSet
    <3> HIDE DEF e, s
    <3>2. Connected(graph, e) = IF c = None THEN all ELSE {x \in all : IsA(graph, x, c)}
      BY <3>1 DEF Connected
    <3> QED BY <3>2 DEF e
  <2>4. \A x : x \in M <=> x \in all /\ Known(graph, x)
    BY <2>2 DEF RelationshipMembers
  <2>5. \A x : x \in P <=> \E p \in Sub[r] : <<i, p, x>> \in graph
    <3>1. PairsOf(graph, i, r) = {<<t[3], t[2]>> : t \in {u \in graph : u[1] = i /\ u[2] \in Sub[r]}}
      BY <2>1 DEF PairsOf, LowLevel
    <3>2. ASSUME NEW x \in P PROVE \E p \in Sub[r] : <<i, p, x>> \in graph
      <4>1. PICK t \in graph : t[1] = i /\ t[2] \in Sub[r] /\ x = <<t[3], t[2]>>[1]
        BY <3>1, <3>2
      <4> QED BY <1>0, <4>1
    <3>3. ASSUME NEW x, NEW p \in Sub[r], <<i, p, x>> \in graph PROVE x \in P
      <4>1. <<x, p>> \in PairsOf(graph, i, r)
        BY <3>1, <3>3
      <4> QED BY <4>1
    <3> QED BY <3>2, <3>3
  <2>6. \A x : x \in all <=> x \in P \/ x \in Linked(graph, i, {}, I)
    <3> HIDE DEF I, P
    <3> DEFINE none == {}
    <3>0. \A x : x \notin none
      OBVIOUS
    <3>1. \A x : x \in Linked(graph, i, none, I) <=> \E p \in I : <<x, p, i>> \in graph
      <4> HIDE DEF none
      <4> QED BY <1>0, <3>0, IsLinked
    <3>2. \A x : x \in all <=> (\E p \in Sub[r] : <<i, p, x>> \in graph) \/ \E p \in I : <<x, p, i>> \in graph
      BY <1>0, IsLinked
    <3> QED BY <2>5, <3>1, <3>2
  <2>7. ASSUME NEW c \in Filter, NEW x
        PROVE  (x \in Individual /\ GetOne(graph, i, r, x, c) = x /\ Known(graph, x))
               <=> x \in M /\ (c # None => IsA(graph, x, c))
    <3>1. x \in Individual => x # None
      BY ObjectSetsAssumption
    <3> HIDE DEF M, s
    <3>2. x \in Individual => (GetOne(graph, i, r, x, c) = x <=> x \in Connected(graph, [s EXCEPT !.class = c]))
      BY <3>1 DEF GetOne, s
    <3> HIDE DEF all
    <3> QED BY <1>1, <2>3, <2>4, <3>2
  <2> HIDE DEF M, P, I, all, s
  <2>8. \A c \in Filter : {x \in Individual : GetOne(graph, i, r, x, c) = x /\ Known(graph, x)}
                          = {x \in M : c # None => IsA(graph, x, c)}
    BY <2>7
  <2>9. {x \in P : Known(graph, x)} \subseteq M /\ M \ P \subseteq Linked(graph, i, {}, I)
    BY <2>4, <2>6
  <2> QED BY <2>8, <2>9 DEF M, P, I, s
<1>3. ASSUME NEW i \in Individual, NEW n \in Name, ~GetattrRaises(graph, i, n),
             NEW a \in NamedAttributes(graph, i, n)
      PROVE  Getattr(graph, i, n) \subseteq AttributeMembers(graph, ObjectSet(i, a))
  <2>1. Cardinality(NamedAttributes(graph, i, n)) = 1
    BY <1>3 DEF GetattrRaises
  <2>2. NamedAttributes(graph, i, n) = {a}
    BY <1>3, <2>1, NamedIsFinite, OnlyOne
  <2>3. a \in Sub[a]
    BY <1>3, NamedAreAttributes, ObjectSetsAssumption
  <2>4. ObjectsOf(graph, i, NamedAttributes(graph, i, n)) \subseteq ObjectsOf(graph, i, Sub[a])
    BY <2>2, <2>3 DEF ObjectsOf
  <2> QED BY <2>4 DEF Getattr, AttributeMembers, ObjectSet
<1>4. ASSUME NEW c \in Individual
      PROVE  ContainerMembers(graph, c) \subseteq RelationshipMembers(graph, ObjectSet(c, contains))
  <2>1. contains \in Sub[contains]
    BY IndividualsAssumption, ObjectSetsAssumption
  <2>2. References(graph, c) \subseteq Connected(graph, ObjectSet(c, contains))
    BY <2>1 DEF References, ObjectsOf, Connected, Linked, ObjectSet
  <2> QED BY <2>2 DEF ContainerMembers, RelationshipMembers
<1>5. {t[1] : t \in IterIdentifiers(graph)} = SessionMembers(graph, None)
  <2>1. \A x : x \in SessionMembers(graph, None) <=> Known(graph, x)
    BY <1>1, IsMember
  <2>2. \A x : Known(graph, x) <=> \E t \in IterIdentifiers(graph) : t[1] = x
    <3>1. \A t \in IterIdentifiers(graph) : t[3] \in TypesOf(graph, t[1])
      BY <1>0 DEF IterIdentifiers, TypesOf
    <3>2. \A x : \A k \in TypesOf(graph, x) : <<x, Type, k>> \in IterIdentifiers(graph)
      BY DEF IterIdentifiers, TypesOf
    <3>3. ASSUME NEW x, Known(graph, x) PROVE \E t \in IterIdentifiers(graph) : t[1] = x
      <4>1. PICK k : k \in TypesOf(graph, x)
        BY <3>3 DEF Known
      <4>2. <<x, Type, k>> \in IterIdentifiers(graph) /\ <<x, Type, k>>[1] = x
        BY <3>2, <4>1
      <4> QED BY <4>2
    <3> QED BY <3>1, <3>3 DEF Known
  <2> QED BY <2>1, <2>2
<1>6. ASSUME ~OneRaises(graph) PROVE Cardinality(SessionMembers(graph, None)) = 1
  <2>1. Cardinality(IterIdentifiers(graph)) = 1
    BY <1>6 DEF OneRaises, Len
  <2>2. PICK t : IterIdentifiers(graph) = {t}
    BY <2>1, IdentifiersAreFinite, OnlyOne
  <2>3. SessionMembers(graph, None) = {t[1]}
    BY <1>5, <2>2
  <2> QED BY <2>3, FS_Singleton
<1> QED BY <1>2, <1>3, <1>4, <1>5, <1>6 DEF ReadsAgree

-----------------------------------------------------------------------------
(* Whatever happened before, an update and a difference of a set of an     *)
(* individual do what they say, but for members connected through the      *)
(* inverse and for literals that are not what their value is converted to. *)
THEOREM SetsObeyTheirLaw == Spec => []SetLaw
BY GraphStaysTyped, SetLawHolds, PTL

(* Sets of individuals of the session follow the algebra of sets in every  *)
(* graph, with individuals of both sessions in one argument.               *)
THEOREM SessionSetsObeyTheirLaw == Spec => []SessionSetLaw
BY SessionSetLawHolds, PTL

(* However a graph came about, get and iter, getattr and item access,      *)
(* containers and the session, len and one tell the same of it.            *)
THEOREM ReadsAlwaysAgree == Spec => []ReadsAgree
BY GraphStaysTyped, ReadsAgreeHolds, PTL
=============================================================================
