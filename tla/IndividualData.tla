---------------------------- MODULE IndividualData ----------------------------
(***************************************************************************)
(* What a user does with one ontology individual: item access, attributes  *)
(* by name, connect, disconnect, get, classes and labels.                  *)
(***************************************************************************)
EXTENDS ObjectSets

CONSTANTS
  LabelText, Language,    \* a label is a literal <<text, language>>
  LabelPredicates,
  MainPredicate,          \* the first of them
  NoneText,               \* str(None)
  LanguageOf,             \* literal -> its language or None
  Tagged,                 \* literal -> language -> the same in that language
  Rank                    \* label predicate -> literal -> preference, least is best

Label == (LabelText \cup {NoneText}) \X (Language \cup {None})

ASSUME LabelAssumption ==
    /\ Label \subseteq Literal /\ LabelPredicates \subseteq Annotation
    /\ MainPredicate \in LabelPredicates
    /\ \A p \in LabelPredicates, l \in Literal : Rank[p][l] \in Nat
    /\ \A l \in Literal : LanguageOf[l] \in Language \cup {None}
    /\ \A l \in Literal, lang \in Language :
          Tagged[l][lang] \in Literal /\ LanguageOf[Tagged[l][lang]] = lang
    /\ \A l \in Label : /\ LanguageOf[l] = l[2]
                        /\ \A lang \in Language : Tagged[l][lang] = <<l[1], lang>>

(* The operations of DataStructureSet that each kind of set implements.    *)
Members(g, s) ==
    CASE s.predicate \in Attribute    -> AttributeMembers(g, s)
      [] s.predicate \in Relationship -> RelationshipMembers(g, s)
      [] s.predicate \in Annotation   -> AnnotationMembers(g, s)

Update(g, s, V) ==
    CASE s.predicate \in Attribute    -> AttributeUpdate(g, s, V)
      [] s.predicate \in Relationship -> RelationshipUpdate(g, s, V)
      [] s.predicate \in Annotation   -> AnnotationUpdate(g, s, V)

Intersection(g, s, V) ==
    CASE s.predicate \in Attribute    -> AttributeIntersection(g, s, V)
      [] s.predicate \in Relationship -> RelationshipIntersection(g, s, V)
      [] s.predicate \in Annotation   -> AnnotationIntersection(g, s, V)

Difference(g, s, V) ==
    CASE s.predicate \in Attribute    -> AttributeDifference(g, s, V)
      [] s.predicate \in Relationship -> RelationshipDifference(g, s, V)
      [] s.predicate \in Annotation   -> AnnotationDifference(g, s, V)

Symmetric(g, s, V) ==
    CASE s.predicate \in Attribute    -> AttributeSymmetric(g, s, V)
      [] s.predicate \in Relationship -> RelationshipSymmetric(g, s, V)
      [] s.predicate \in Annotation   -> AnnotationSymmetric(g, s, V)

(* `v in set'; asking for a dangling individual raises.                    *)
Contains(g, s, v) ==
    CASE s.predicate \in Attribute    -> AttributeContains(g, s, v)
      [] s.predicate \in Relationship -> v \in Connected(g, s)
      [] s.predicate \in Annotation   -> v \in AnnotationMembers(g, s)

(* What DataStructureSet derives from them.                                *)
Clear(g, s) == Intersection(g, s, {})
Pop(g, s) ==
    IF Members(g, s) = {} THEN Raises(g)
    ELSE UNION {Difference(g, s, {v}) : v \in Members(g, s)}
Remove(g, s, v) ==
    IF ~Contains(g, s, v) \/ (s.predicate \in Relationship /\ Dangling(g, s, v))
    THEN Raises(g) ELSE Difference(g, s, {v})

-----------------------------------------------------------------------------
(* individual[p] = V.  A set assigned to itself, as `|=' does at the end,  *)
(* changes nothing.                                                        *)
AssignRelationship(g, s, V) ==
    LET M == RelationshipMembers(g, s)
    IN  UNION {RelationshipUpdate(r.graph, s, V \ M) :
                  r \in RelationshipDifference(g, s, M \ V)}

(* An IRI is a Python string too.  It is no member, even if its text is:   *)
(* the text is added first and then, if it was there, removed.             *)
AssignAttribute(g, s, V, texts) ==
    LET M == AttributeMembers(g, s)
    IN  UNION {IF r.raised THEN {r} ELSE AttributeDifference(r.graph, s, M \ V) :
                  r \in AttributesAdd(g, s.individual, s.predicate, (V \ M) \cup texts)}

IriStrings  == Bare(Individual \cup Iri)
TextsIn(V)  == {Python[TextOf[y]] : y \in {z \in Individual \cup Iri : <<z>> \in V}}
KindsOf(V)  == {kind \in {Class, Handle, Value \cup IriStrings, IriStrings} : V \cap kind # {}}

(* Attributes ignore one other kind of values beside the right one.        *)
Assign(g, i, p, V) ==
    CASE p \in Relationship ->
            IF V \subseteq Handle THEN AssignRelationship(g, ObjectSet(i, p), V) ELSE Raises(g)
      [] p \in Attribute ->
            IF \/ V # {} /\ V \cap (Value \cup IriStrings) = {}
               \/ Cardinality(KindsOf(V)) > 2
            THEN Raises(g)
            ELSE AssignAttribute(g, ObjectSet(i, p), V \cap Value, TextsIn(V))
      [] p \in Annotation -> AnnotationsSet(g, i, p, V)

Delitem(g, i, p) == Assign(g, i, p, {})

(* connect and disconnect take handles, and identifiers given as <<x>>,    *)
(* which must be known.                                                    *)
Resolved(V)      == (V \cap Handle) \cup {x \in Individual : <<x>> \in V}
Unresolved(g, V) == \E x \in Individual : <<x>> \in V /\ ~Known(g, x)

Connect(g, i, r, V) ==
    IF Unresolved(g, V) THEN Raises(g)
    ELSE RelationshipUpdate(g, ObjectSet(i, r), Resolved(V))

(* Without individuals: everything connected.  oclass filters before.      *)
DisconnectFrom(g, i, r, V, class) ==
    LET s == ObjectSet(i, r)
        X == IF V = {} THEN RelationshipMembers(g, s) ELSE Resolved(V)
    IN  IF Unresolved(g, V) THEN Raises(g)
        ELSE RelationshipDifference(g, s,
                IF class = None THEN X ELSE {x \in X \cap Individual : IsA(g, x, class)})

(* get(x, rel=r, oclass=class): the individual or None.  A connected       *)
(* identifier that is not known raises.                                    *)
GetOne(g, i, r, x, class) ==
    IF x \in Connected(g, [ObjectSet(i, r) EXCEPT !.class = class]) THEN x ELSE None

(* iter and get with return_rel: direct statements only.                   *)
PairsOf(g, i, r) == LowLevel(g, ObjectSet(i, r))

-----------------------------------------------------------------------------
(* Names.                                                                  *)

UsedAttributes(g, i) == {a \in Attribute : \E t \in g : t[1] = i /\ t[2] = a}

NamedAttributes(g, i, n) ==
    {a \in UNION {AttributesOf[c] \cup UsedAttributes(g, i) : c \in TypesOf(g, i)} :
        a \in Named[n]}

(* Connected entities with their predicates, for relationships and for     *)
(* annotations: a single statement about something unknown raises.         *)
UsedPredicates(g, i, P) == {p \in P : \E t \in g : t[1] = i /\ t[2] = p}
LookupRaises(g, i) ==
    \E t \in g : /\ t[1] = i /\ t[2] # Type /\ t[3] \notin Literal
                 /\ \/ t[2] \notin Predicate
                    \/ t[3] \notin Individual \/ ~Known(g, t[3])

PredicatesByName(g, i, n) ==
    NamedAttributes(g, i, n) \cup
    (UsedPredicates(g, i, Relationship \cup Annotation) \cap Named[n] \cap
     {t[2] : t \in {u \in g : u[1] = i /\ u[3] \notin Literal}})

AssignByName(g, i, n, V) ==
    LET P == PredicatesByName(g, i, n)
    IN  IF LookupRaises(g, i) \/ Cardinality(P) # 1 THEN Raises(g)
        ELSE UNION {Assign(g, i, p, V) : p \in P}

(* individual.name and individual.name = v: the attribute's own values.    *)
Getattr(g, i, n) ==
    {Python[l] : l \in ObjectsOf(g, i, NamedAttributes(g, i, n)) \cap Literal}
GetattrRaises(g, i, n) ==
    \/ Cardinality(NamedAttributes(g, i, n)) # 1
    \/ Cardinality(ObjectsOf(g, i, NamedAttributes(g, i, n)) \cap Literal) > 1

Setattr(g, i, n, V) ==
    IF Cardinality(NamedAttributes(g, i, n)) # 1 THEN Raises(g)
    ELSE UNION {AttributesSet(g, i, a, V) : a \in NamedAttributes(g, i, n)}

-----------------------------------------------------------------------------
(* Classes and labels.                                                     *)

SetClasses(g, i, C) ==
    Returns({t \in g : ~(t[1] = i /\ t[2] = Type)} \cup {<<i, Type, c>> : c \in C})

(* Any literal may be a label; with anything else, sorting them raises.    *)
LabelsOf(g, i)   == {t \in g : t[1] = i /\ t[2] \in LabelPredicates}
Unsortable(g, i) == \E t \in LabelsOf(g, i) : t[3] \notin Literal

(* The statement that gives the label, or one of several equally good.     *)
MainLabels(g, i) ==
    LET T == LabelsOf(g, i)
    IN  {t \in T : \A u \in T : Rank[t[2]][t[3]] <= Rank[u[2]][u[3]]}

(* The main label is replaced by what `new' makes of it, or `first' added; *)
(* another label may then be the best.                                     *)
ReplaceLabel(g, i, new, first) ==
    IF Unsortable(g, i) THEN Raises(g)
    ELSE IF LabelsOf(g, i) = {} THEN Returns(g \cup {<<i, MainPredicate, first>>})
    ELSE UNION {Returns((g \ {t}) \cup {<<i, t[2], new[t[3]]>>}) : t \in MainLabels(g, i)}

(* Text in the language of the main label.                                 *)
SetLabel(g, i, text) ==
    ReplaceLabel(g, i, [l \in Literal |-> <<text, LanguageOf[l]>>], <<text, None>>)

(* Without a language the label keeps its own; without a label, str(None)  *)
(* becomes one.                                                            *)
SetLabelLang(g, i, lang) ==
    ReplaceLabel(g, i, [l \in Literal |-> IF lang = None THEN l ELSE Tagged[l][lang]],
                 <<NoneText, lang>>)

RemoveLabels(g, i) ==
    IF Unsortable(g, i) THEN Raises(g) ELSE Returns(g \ LabelsOf(g, i))
=============================================================================
