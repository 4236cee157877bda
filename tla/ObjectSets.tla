------------------------------ MODULE ObjectSets ------------------------------
(***************************************************************************)
(* The sets through which the triples of an ontology individual are read   *)
(* and edited: individual[attribute], individual[relationship],            *)
(* individual[annotation], and the operations built from them.             *)
(*                                                                         *)
(* An operation takes the graph of the session and gives its outcomes:     *)
(* the graph it leaves behind and whether it raises.  Python sets have no  *)
(* order, and values are converted and individuals checked one at a time,  *)
(* so an operation that raises has done any part of what came before.      *)
(***************************************************************************)
EXTENDS Naturals, FiniteSets

CONSTANTS
  Individual,    \* identifiers of individuals
  Class, Relationship, Attribute, Annotation,
  Iri,           \* other IRIs that statements refer to
  Value,         \* Python values, as == tells them apart
  Literal,       \* RDF literals
  Name,          \* labels and suffixes, as given by the user
  Type, None,
  Sub,           \* entity of the terminology -> its subclasses, itself included
  InverseOf,     \* relationship -> its inverse or None
  Python,        \* literal -> the value it is read as
  Cast,          \* attribute -> value -> the literal it becomes, None: TypeError
  Typed,         \* attributes with a datatype
  LiteralOf,     \* value -> literal of its own type
  Text,          \* value -> what str() gives
  TextOf,        \* IRI -> its text as a literal
  Named,         \* name -> predicates with that label or suffix
  AttributesOf   \* class -> its attributes, obligatory and optional

Predicate == Relationship \cup Attribute \cup Annotation

ASSUME ObjectSetsAssumption ==
    /\ \A p \in Class \cup Relationship \cup Attribute : p \in Sub[p]
    /\ \A r \in Relationship :
          Sub[r] \subseteq Relationship /\ InverseOf[r] \in Relationship \cup {None}
    /\ \A a \in Attribute : Sub[a] \subseteq Attribute
    /\ Relationship \cap Attribute = {} /\ Relationship \cap Annotation = {}
    /\ Attribute \cap Annotation = {} /\ Type \notin Predicate
    /\ Literal \cap (Individual \cup Class \cup Iri) = {}
    /\ None \notin Literal /\ None \notin Relationship /\ None \notin Individual
    /\ IsFiniteSet(Individual) /\ IsFiniteSet(Class) /\ IsFiniteSet(Attribute)
    /\ \A c \in Class : AttributesOf[c] \subseteq Attribute
    /\ Individual \cap Class = {}

(* What is stored for a value is read as a value that is stored the same.  *)
ASSUME CastAssumption ==
    \A a \in Attribute, v \in Value :
        Cast[a][v] # None =>
            /\ Cast[a][v] \in Literal /\ Python[Cast[a][v]] \in Value
            /\ Cast[a][Python[Cast[a][v]]] = Cast[a][v]

ASSUME TextAssumption ==
    /\ \A v \in Value : LiteralOf[v] \in Literal
    /\ \A y \in Individual \cup Iri : TextOf[y] \in Literal

(* An individual of another session, and an identifier that is not known.  *)
Foreign  == {<<"other", x>> : x \in Individual}
Bare(xs) == {<<x>> : x \in xs}
Handle   == Individual \cup Foreign

ASSUME HandleAssumption == Individual \cap (Foreign \cup Bare(Individual)) = {}

Entity   == Individual \cup Class

(* A set as the user gets it: `inverse' by ~set, `class' by get(oclass=).  *)
ObjectSet(i, p) ==
    [individual |-> i, predicate |-> p, inverse |-> FALSE, class |-> None]

Returns(g) == {[graph |-> g, raised |-> FALSE]}
Raises(g)  == {[graph |-> g, raised |-> TRUE]}

(* Element by element: `good' are the triples before something raises.     *)
AddEach(g, good, bad) ==
    IF bad THEN UNION {Raises(g \cup W) : W \in SUBSET good}
    ELSE Returns(g \cup good)

TypesOf(g, x)    == {c \in Class : <<x, Type, c>> \in g}
Known(g, x)      == TypesOf(g, x) # {}
IsA(g, x, class) == \E c \in TypesOf(g, x) : c \in Sub[class]
ObjectsOf(g, i, P) == {t[3] : t \in {u \in g : u[1] = i /\ u[2] \in P}}

-----------------------------------------------------------------------------
(* Attributes.                                                             *)

StoredAs(a, V) == {Cast[a][v] : v \in V} \ {None}
Refuses(a, V)  == \E v \in V : Cast[a][v] = None

FaultyAttributesAdd(g, i, a, V) == Returns(g \cup {<<i, a, LiteralOf[v]>> : v \in V})

AttributesAdd(g, i, a, V) ==
    AddEach(g, {<<i, a, l>> : l \in StoredAs(a, V)}, Refuses(a, V))

(* From every attribute of P the values, each as that attribute stores it. *)
AttributesDelete(g, i, P, V) ==
    LET gone == {t \in {i} \X P \X Literal : \E v \in V : Cast[t[2]][v] = t[3]}
        Of(B) == {t \in gone : t[2] \in B}
        refusing == {b \in P : Refuses(b, V)}
    IN  IF refusing = {} THEN Returns(g \ gone)
        ELSE UNION {Raises(g \ (Of(B) \cup W)) :
                       B \in SUBSET (P \ refusing),
                       W \in UNION {SUBSET Of({c}) : c \in refusing}}

AttributesSet(g, i, a, V) ==
    AttributesAdd({t \in g : ~(t[1] = i /\ t[2] = a)}, i, a, V)

AttributeMembers(g, s) ==
    {Python[l] : l \in ObjectsOf(g, s.individual, Sub[s.predicate]) \cap Literal}

(* `in' compares text where there is no datatype.                          *)
AttributeContains(g, s, v) ==
    \E b \in Sub[s.predicate] :
        IF b \in Typed THEN <<s.individual, b, Cast[b][v]>> \in g
        ELSE \E l \in ObjectsOf(g, s.individual, {b}) \cap Literal :
                Text[Python[l]] = Text[v]

AttributeUpdate(g, s, V) ==
    AttributesAdd(g, s.individual, s.predicate, V \ AttributeMembers(g, s))
AttributeIntersection(g, s, V) ==
    AttributesDelete(g, s.individual, Sub[s.predicate], AttributeMembers(g, s) \ V)
AttributeDifference(g, s, V) ==
    AttributesDelete(g, s.individual, Sub[s.predicate], AttributeMembers(g, s) \cap V)
AttributeSymmetric(g, s, V) ==
    LET M == AttributeMembers(g, s)
    IN  UNION {IF r.raised THEN {r}
               ELSE AttributesDelete(r.graph, s.individual, Sub[s.predicate], M \cap V) :
               r \in AttributesAdd(g, s.individual, s.predicate, V \ M)}

-----------------------------------------------------------------------------
(* Relationships.                                                          *)

Inverses(r) == {InverseOf[p] : p \in Sub[r]} \ {None}

Linked(g, i, direct, inverse) ==
    ObjectsOf(g, i, direct) \cup {t[1] : t \in {u \in g : u[3] = i /\ u[2] \in inverse}}

(* Identifiers that a relationship set finds; some may be unknown.         *)
Connected(g, s) ==
    LET D == Sub[s.predicate]  I == Inverses(s.predicate)
        all == IF s.inverse THEN Linked(g, s.individual, I, D)
               ELSE Linked(g, s.individual, D, I)
    IN  IF s.class = None THEN all ELSE {x \in all : IsA(g, x, s.class)}

RelationshipMembers(g, s) == {x \in Connected(g, s) : Known(g, x)}

(* Whether x is a member is asked with a filter for its identifier: that   *)
(* of an individual that is connected and not known raises.                *)
Dangling(g, s, x) == x \in Connected(g, s) /\ ~Known(g, x)

(* Always a direct statement, whatever the set is an inverse of.           *)
Statements(s, X) == {<<s.individual, s.predicate, x>> : x \in X}

RelationshipUpdate(g, s, V) ==
    LET new == (V \cap Individual) \ Connected(g, s)
    IN  IF s.class # None THEN Raises(g)
        ELSE AddEach(g, Statements(s, new),
                     \E x \in V : x \notin Individual \/ Dangling(g, s, x))

FaultyDisconnect(g, s, X) ==
    {t \in g : ~(t[1] = s.individual /\ t[2] = s.predicate /\ t[3] \in X)}

Disconnect(g, s, X) ==
    {t \in g : ~(t[1] = s.individual /\ t[2] \in Sub[s.predicate] /\ t[3] \in X)}

FaultyRelationshipDifference(g, s, V) ==
    IF s.class # None THEN Raises(g)
    ELSE Returns({t \in g : ~(t[2] \in Sub[s.predicate] /\ t[3] \in V)})

RelationshipDifference(g, s, V) ==
    IF s.class # None THEN Raises(g)
    ELSE Returns(Disconnect(g, s, RelationshipMembers(g, s) \cap V))

RelationshipIntersection(g, s, V) ==
    IF s.class # None THEN Raises(g)
    ELSE Returns(Disconnect(g, s, RelationshipMembers(g, s) \ V))

(* Individuals of other sessions are noticed after the removal.            *)
RelationshipSymmetric(g, s, V) ==
    LET M == RelationshipMembers(g, s)
        h == Disconnect(g, s, M \cap V)
    IN  IF s.class # None THEN Raises(g)
        ELSE IF V \subseteq Individual THEN Returns(h \cup Statements(s, V \ M))
        ELSE Raises(h)

FaultyLowLevel(g, s) == {<<t[3], t[2]>> : t \in {u \in g :
                           u[1] = s.individual /\ u[2] \in Relationship}}

(* get and iter with return_rel: direct statements, and no class filter.   *)
LowLevel(g, s) == {<<t[3], t[2]>> : t \in {u \in g :
                     /\ u[1] = s.individual
                     /\ u[2] \in IF s.inverse THEN Inverses(s.predicate)
                                  ELSE Sub[s.predicate]}}

-----------------------------------------------------------------------------
(* Annotations.  Their values are entities, IRIs and literals.             *)

(* An IRI is a Python string too: it is added as itself and as its text.   *)
TextLiterals(V) ==
    {LiteralOf[v] : v \in V \cap Value} \cup
    UNION {{x, TextOf[x]} : x \in {y \in Individual \cup Iri : <<y>> \in V}}
AsObjects(V) == (V \cap Entity) \cup {h[2] : h \in V \cap Foreign} \cup TextLiterals(V)

Shown(g, o) ==
    IF o \in Literal THEN Python[o]
    ELSE IF o \in Class \/ Known(g, o) THEN o ELSE <<o>>

AnnotationMembers(g, s) == {Shown(g, o) : o \in ObjectsOf(g, s.individual, {s.predicate})}

AnnotationsAdd(g, i, n, V) == Returns(g \cup {<<i, n, o>> : o \in AsObjects(V)})

(* Entities among the values stay.                                         *)
AnnotationsDelete(g, i, n, V) == Returns(g \ {<<i, n, o>> : o \in TextLiterals(V)})

AnnotationsSet(g, i, n, V) ==
    AnnotationsAdd({t \in g : ~(t[1] = i /\ t[2] = n)}, i, n, V)

AnnotationUpdate(g, s, V) == AnnotationsAdd(g, s.individual, s.predicate, V)
(* Replaces the values, common or not.                                     *)
AnnotationIntersection(g, s, V) == AnnotationsSet(g, s.individual, s.predicate, V)
AnnotationDifference(g, s, V) ==
    AnnotationsDelete(g, s.individual, s.predicate, AnnotationMembers(g, s) \cap V)
AnnotationSymmetric(g, s, V) ==
    LET M == AnnotationMembers(g, s)
    IN  AnnotationsSet(g, s.individual, s.predicate, (M \ V) \cup (V \ M))
=============================================================================
