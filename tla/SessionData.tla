----------------------------- MODULE SessionData -----------------------------
(***************************************************************************)
(* Sessions as sets of individuals: add, delete, iter, get, SessionSet,    *)
(* the creation of individuals, and the references of containers.          *)
(*                                                                         *)
(* Individuals of another session are given as <<"other", x>>, with the    *)
(* graph `from' of that session.                                           *)
(***************************************************************************)
EXTENDS IndividualData

CONSTANTS
  File,          \* class of the individuals that stand for files
  Container,     \* class of the containers
  contains       \* relationship of a container to its references

Own(V)      == V \cap Individual
Imported(V) == {x \in Individual : <<"other", x>> \in V}
HasTriples(g, x) == \E t \in g : t[1] = x
About(g, X) == {t \in g : t[1] \in X}

(* What add takes over of the individuals X.  Relationships only between   *)
(* individuals that are added together; a statement that cannot be         *)
(* interpreted raises unless all_triples is set.                           *)
IsValid(t, X) ==
    \/ t[2] \in Attribute /\ t[3] \in Literal
    \/ t[2] \in Relationship /\ t[3] \in X
    \/ t[2] \in Annotation
Uninterpretable(t) ==
    t[2] # Type /\ (t[2] \notin Predicate \/ (t[2] \in Attribute /\ t[3] \notin Literal))
Taken(T, X, all) == {t \in T : t[2] = Type \/ IsValid(t, X) \/ all}

(* First individuals are removed, then the statements arrive, individual   *)
(* by individual.                                                          *)
Add(g, from, V, merge, exists_ok, all) ==
    LET X        == Own(V) \cup Imported(V)
        files    == {x \in Imported(V) : IsA(from, x, File)}
        base     == IF merge THEN g ELSE g \ About(g, Imported(V))
        good     == Taken(About(from, Imported(V)), X, all)
        read     == About(from, Imported(V)) \cup About(base, Own(V))
        refusing == IF all THEN {} ELSE {t[1] : t \in {u \in read : Uninterpretable(u)}}
    IN  IF \/ ~exists_ok /\ \E x \in X : HasTriples(g, x)
           \/ merge /\ \E x \in files : HasTriples(g, x)
        THEN Raises(g)
        ELSE IF refusing = {}
        THEN {[graph |-> base \cup good,
               raised |-> \E x \in X : ~Known(base \cup good, x)]}
        ELSE UNION {Raises(base \cup About(good, B) \cup W) :
                       B \in SUBSET (X \ refusing),
                       W \in UNION {SUBSET About(good, {x}) : x \in refusing}}

(* Individuals of other sessions make it raise before any change.          *)
Delete(g, V) ==
    IF V \cap Foreign # {} THEN Raises(g)
    ELSE LET X == Resolved(V)
         IN  Returns({t \in g : t[1] \notin X /\ t[3] \notin X})

ClearSession == Returns({})

(* An individual is yielded once for each of its types.                    *)
IterIdentifiers(g) == {t \in g : t[2] = Type /\ t[3] \in Class}
Len(g) == Cardinality(IterIdentifiers(g))
OneRaises(g) == Len(g) # 1

(* get(x, oclass=class) *)
Get(g, x, class) ==
    IF x \in Individual /\ Known(g, x) /\ (class # None => IsA(g, x, class)) THEN x ELSE None

(* Creation with explicit triples replaces what had the identifier.  In a  *)
(* container the reference comes first.                                    *)
Create(g, i, T, container) ==
    LET reference == IF container = None THEN {} ELSE {<<container, contains, i>>}
    IN  Returns(((g \cup reference) \ About(g, {i})) \cup T)

-----------------------------------------------------------------------------
(* SessionSet, with an optional class.  V may mix both sessions.           *)

SessionMembers(g, class) == {x \in Individual : Get(g, x, class) # None}

HandleIsA(g, from, h, class) ==
    IF h \in Foreign THEN IsA(from, h[2], class) ELSE IsA(g, h, class)
Misfit(g, from, V, class) ==
    class # None /\ \E h \in V : ~HandleIsA(g, from, h, class)
Existing(g, V) == {h \in V : Known(g, IF h \in Foreign THEN h[2] ELSE h)}

SessionUpdate(g, from, V, class) ==
    IF Misfit(g, from, V, class) THEN Raises(g)
    ELSE Add(g, from, V, TRUE, TRUE, FALSE)

(* Compares handles instead of identifiers.                                *)
FaultySessionIntersection(g, from, V, class) ==
    LET E == Existing(g, V)
    IN  IF Misfit(g, from, E, class) THEN Raises(g)
        ELSE UNION {IF r.raised THEN {r}
                    ELSE Delete(r.graph, SessionMembers(g, class) \ E) :
                       r \in Add(g, from, E, TRUE, TRUE, FALSE)}

SessionIntersection(g, from, V, class) ==
    LET E == Existing(g, V)
        remove == SessionMembers(g, class) \ (Own(E) \cup Imported(E))
    IN  IF Misfit(g, from, E, class) THEN Raises(g)
        ELSE UNION {IF r.raised THEN {r} ELSE Delete(r.graph, remove) :
                       r \in Add(g, from, E, TRUE, TRUE, FALSE)}

SessionDifference(g, V, class) ==
    LET X == {x \in Own(V) \cup Imported(V) : Known(g, x)}
    IN  IF class # None /\ \E x \in X : ~IsA(g, x, class) THEN Raises(g)
        ELSE Delete(g, X)

SessionSymmetric(g, from, V, class) ==
    LET E == Existing(g, V)
        delete == SessionMembers(g, class) \cap (Own(E) \cup Imported(E))
    IN  IF Misfit(g, from, V \ E, class) THEN Raises(g)
        ELSE UNION {IF r.raised THEN {r} ELSE Delete(r.graph, delete) :
                       r \in Add(g, from, V \ E, FALSE, FALSE, FALSE)}

-----------------------------------------------------------------------------
(* Containers: references are identifiers, members those that are known in *)
(* the session in which the container is opened.                           *)

References(g, c) == ObjectsOf(g, c, {contains})
ContainerMembers(g, c) == {x \in References(g, c) \cap Individual : Known(g, x)}

SetReferences(g, c, R) ==
    Returns((g \ {t \in g : t[1] = c /\ t[2] = contains /\ t[3] \notin R})
            \cup {<<c, contains, x>> : x \in R})
ConnectReferences(g, c, R)    == SetReferences(g, c, References(g, c) \cup R)
DisconnectReferences(g, c, R) == SetReferences(g, c, References(g, c) \ R)

(* Taking over an individual of another session raises.                    *)
ContainerAdd(g, c, V) ==
    {[r EXCEPT !.raised = @ \/ \E x \in Own(V) : ~Known(r.graph, x)] :
        r \in AddEach(g, {<<c, contains, x>> : x \in Own(V)}, V \cap Foreign # {})}

ContainerRemove(g, c, V) ==
    IF \E h \in V : (IF h \in Foreign THEN h[2] ELSE h) \notin ContainerMembers(g, c)
    THEN Raises(g)
    ELSE Returns(g \ {<<c, contains, x>> : x \in Own(V) \cup Imported(V)})
=============================================================================
