----------------------------- MODULE Individuals -----------------------------
(***************************************************************************)
(* The graph of a session as its users change it: through the sets of an   *)
(* individual, item access, creation, import and deletion of individuals,  *)
(* sets of individuals of the session, and containers.  The program is     *)
(* single threaded; what makes it hard is that any operation may stop half *)
(* way, that a handle outlives the individual it stands for, and that      *)
(* values change their type when they are stored.                          *)
(***************************************************************************)
EXTENDS SessionData

CONSTANTS
  AttributeArguments, RelationshipArguments, AnnotationArguments,  \* for sets
  ImportArguments,   \* for the session
  Sources,           \* graphs of the other session
  Unknown,           \* predicates there that the terminology does not know
  NewStatements,     \* individual -> sets of triples to create it with
  Filter,            \* classes that sets are restricted to, None for all
  MaxTriples,        \* bound on the graph
  MaxStatements      \* bound on the triples that do not give a type

VARIABLE graph

Statement ==
    (Individual \X {Type} \X Class) \cup
    (Individual \X Relationship \X (Individual \cup Iri)) \cup
    (Individual \X Attribute \X Literal) \cup
    (Individual \X Unknown \X (Individual \cup Iri \cup Literal)) \cup
    (Individual \X Annotation \X (Entity \cup Iri \cup Literal))

(* A literal stored for an attribute is what its value is converted to.    *)
Stored == {t \in Statement : t[2] \in Attribute => Cast[t[2]][Python[t[3]]] = t[3]}

(* What comes from other sessions and from the user is stored the same.    *)
ASSUME IndividualsAssumption ==
    /\ AttributeArguments \subseteq SUBSET Value
    /\ \A T \in Sources : T \subseteq Stored
    /\ \A i \in Individual : \A T \in NewStatements[i] : T \subseteq Stored
    /\ contains \in Relationship
    /\ \A l \in Literal : Python[l] \in Value

(* Any set, and those of relationships also inverted and restricted.       *)
Sets ==
    [individual : Individual, predicate : Predicate, inverse : {FALSE}, class : {None}] \cup
    [individual : Individual, predicate : Relationship, inverse : BOOLEAN, class : Filter]

Arguments(p) ==
    CASE p \in Attribute    -> AttributeArguments
      [] p \in Relationship -> RelationshipArguments
      [] p \in Annotation   -> AnnotationArguments

SetOperations(g, s, V) ==
    Update(g, s, V) \cup Intersection(g, s, V) \cup Difference(g, s, V) \cup
    Symmetric(g, s, V) \cup Pop(g, s) \cup UNION {Remove(g, s, v) : v \in V}

AccessOperations(g, i, V) ==
    (UNION {Assign(g, i, p, V) \cup Delitem(g, i, p) : p \in Predicate}) \cup
    (UNION {AssignByName(g, i, n, V) : n \in Name}) \cup
    (UNION {Connect(g, i, r, V) : r \in Relationship}) \cup
    UNION {DisconnectFrom(g, i, r, V, c) : r \in Relationship, c \in Filter}

SessionOperations(g, from, V, c) ==
    (UNION {Add(g, from, V, m, e, a) : m \in BOOLEAN, e \in BOOLEAN, a \in BOOLEAN}) \cup
    SessionUpdate(g, from, V, c) \cup SessionIntersection(g, from, V, c) \cup
    SessionDifference(g, V, c) \cup SessionSymmetric(g, from, V, c) \cup Delete(g, V)

ContainerOperations(g, c, V) ==
    ConnectReferences(g, c, Own(V)) \cup DisconnectReferences(g, c, Own(V)) \cup
    ContainerAdd(g, c, V) \cup ContainerRemove(g, c, V)

Init == graph = {}

Becomes(outcomes) ==
    \E r \in outcomes :
        /\ Cardinality(r.graph) <= MaxTriples
        /\ Cardinality({t \in r.graph : t[2] # Type}) <= MaxStatements
        /\ graph' = r.graph

EditSet == \E s \in Sets : \E V \in Arguments(s.predicate) :
               Becomes(SetOperations(graph, s, V))
EditIndividual == \E i \in Individual :
    \E V \in AttributeArguments \cup RelationshipArguments \cup AnnotationArguments :
        Becomes(AccessOperations(graph, i, V))
SetByName == \E i \in Individual, n \in Name, V \in AttributeArguments :
    Cardinality(V) <= 1 /\ Becomes(Setattr(graph, i, n, V))
Reclassify == \E i \in Individual, C \in SUBSET Class : Becomes(SetClasses(graph, i, C))
Relabel == \E i \in Individual, text \in LabelText, lang \in Language \cup {None} :
    Becomes(SetLabel(graph, i, text) \cup SetLabelLang(graph, i, lang)
            \cup RemoveLabels(graph, i))
Containers == {x \in Individual : IsA(graph, x, Container)}
CreateIndividual == \E i \in Individual, container \in Containers \cup {None} :
    \E T \in NewStatements[i] : Becomes(Create(graph, i, T, container))
EditSession == \E from \in Sources, V \in ImportArguments, c \in Filter :
    Becomes(SessionOperations(graph, from, V, c))
EraseSession == Becomes(ClearSession)
EditContainer == \E c \in Containers, V \in RelationshipArguments :
    Becomes(ContainerOperations(graph, c, V))

Next == EditSet \/ EditIndividual \/ SetByName \/ Reclassify \/ Relabel
        \/ CreateIndividual \/ EditSession \/ EraseSession \/ EditContainer

Spec == Init /\ [][Next]_graph

-----------------------------------------------------------------------------
(* Every literal stored for an attribute is the one its value is converted *)
(* to, whatever was assigned, imported or half done: removal by value      *)
(* depends on it.                                                          *)
TypeOK == graph \subseteq Stored

(* Whatever a set of an individual is asked to do, and wherever it stops,  *)
(* it changes statements of that individual under the predicate and its    *)
(* subclasses, and no others.                                              *)
Within(p) == IF p \in Annotation THEN {p} ELSE Sub[p]
OnlyOwnStatements ==
    \A s \in Sets : \A V \in Arguments(s.predicate) :
        \A r \in SetOperations(graph, s, V) :
            \A t \in (graph \ r.graph) \cup (r.graph \ graph) :
                t[1] = s.individual /\ t[2] \in Within(s.predicate)

OtherLiterals == {l \in Literal : l # LiteralOf[Python[l]]}

(* What is true of the sets when update and difference_update return.  A   *)
(* member of a relationship that is connected through the inverse stays,   *)
(* and so do annotations with entities and with literals that are not what *)
(* their value is converted to, as text in a language.  An assignment to   *)
(* an attribute that raises because of a new value that it cannot store    *)
(* has lost nothing.                                                       *)
SetLaw ==
    /\ \A i \in Individual, a \in Attribute, V \in AttributeArguments :
        Refuses(a, V \ Members(graph, ObjectSet(i, a))) => \A r \in Assign(graph, i, a, V) :
            r.raised => graph \subseteq r.graph
    /\ \A s \in Sets : \A V \in Arguments(s.predicate) :
        LET M == Members(graph, s)
        IN  /\ \A r \in Update(graph, s, V) : ~r.raised =>
                /\ M \subseteq Members(r.graph, s)
                /\ s.predicate \in Relationship /\ ~s.inverse =>
                      Members(r.graph, s) = M \cup {x \in V : Known(graph, x)}
                /\ s.predicate \in Attribute =>
                      Members(r.graph, s) = M \cup {Python[l] : l \in StoredAs(s.predicate, V \ M)}
            /\ \A r \in Difference(graph, s, V) : ~r.raised =>
                /\ Members(r.graph, s) \subseteq M
                /\ s.predicate \in Attribute => Members(r.graph, s) \cap V = {}
                /\ s.predicate \in Annotation => Members(r.graph, s) \cap V \subseteq
                      Entity \cup {Python[l] : l \in
                                      ObjectsOf(graph, s.individual, {s.predicate}) \cap OtherLiterals}
                /\ s.predicate \in Relationship /\ ~s.inverse =>
                      /\ M \ V \subseteq Members(r.graph, s)
                      /\ Members(r.graph, s) \cap V \subseteq
                            Linked(graph, s.individual, {}, Inverses(s.predicate))

(* Sets of individuals of the session follow the algebra of sets, with     *)
(* individuals of another session standing for those with their identifier.*)
(* Of a set restricted to a class: an individual that exists without the   *)
(* class may get it, by the merge of an intersection, and is neither added *)
(* nor deleted by a symmetric difference.  An addition, also one that      *)
(* raises half way, takes only statements about what it imports, none when *)
(* it merges, and brings only statements of the other session about it.    *)
SessionSetLaw ==
    \A from \in Sources, V \in ImportArguments, c \in Filter :
        LET M == SessionMembers(graph, c)
            X == Own(V) \cup Imported(V)
        IN  /\ \A merge, exists_ok, all \in BOOLEAN :
               \A r \in Add(graph, from, V, merge, exists_ok, all) :
                  /\ graph \ r.graph \subseteq IF merge THEN {} ELSE About(graph, Imported(V))
                  /\ r.graph \ graph \subseteq About(from, Imported(V))
            /\ \A r \in SessionUpdate(graph, from, V, c) :
                  ~r.raised => SessionMembers(r.graph, c) = M \cup X
            /\ \A r \in SessionIntersection(graph, from, V, c) :
                  ~r.raised => /\ M \cap X \subseteq SessionMembers(r.graph, c)
                               /\ SessionMembers(r.graph, c) \subseteq
                                     X \cap SessionMembers(graph, None)
            /\ \A r \in SessionDifference(graph, V, c) :
                  ~r.raised => SessionMembers(r.graph, c) = M \ X
            /\ \A r \in SessionSymmetric(graph, from, V, c) :
                  ~r.raised => SessionMembers(r.graph, c) =
                      (M \ X) \cup (X \ SessionMembers(graph, None))

(* The ways to read a graph agree: asking for one individual and iterating,*)
(* with and without the relationships, up to what the inverse connects;    *)
(* attributes by name and as sets; containers and the session, where an    *)
(* individual counts once for each of its types.                           *)
ReadsAgree ==
    /\ \A i \in Individual, r \in Relationship :
          LET M == RelationshipMembers(graph, ObjectSet(i, r))
              P == {pair[1] : pair \in PairsOf(graph, i, r)}
          IN  /\ \A c \in Filter :
                    {x \in Individual : GetOne(graph, i, r, x, c) = x /\ Known(graph, x)}
                    = {x \in M : c # None => IsA(graph, x, c)}
              /\ {x \in P : Known(graph, x)} \subseteq M
              /\ M \ P \subseteq Linked(graph, i, {}, Inverses(r))
    /\ \A i \in Individual, n \in Name : ~GetattrRaises(graph, i, n) =>
          \A a \in NamedAttributes(graph, i, n) :
             Getattr(graph, i, n) \subseteq AttributeMembers(graph, ObjectSet(i, a))
    /\ \A c \in Individual : ContainerMembers(graph, c) \subseteq
          RelationshipMembers(graph, ObjectSet(c, contains))
    /\ {t[1] : t \in IterIdentifiers(graph)} = SessionMembers(graph, None)
    /\ ~OneRaises(graph) => Cardinality(SessionMembers(graph, None)) = 1
=============================================================================
