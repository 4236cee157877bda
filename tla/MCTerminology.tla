---------------------------- MODULE MCTerminology ----------------------------
(***************************************************************************)
(* The instance of Terminology for TLC.  f1 declares A; f2 declares B, a   *)
(* subclass of A with another default, and C, a subclass of B with one     *)
(* that is false; f3 has a name of f1 for another IRI.  Subclasses of A    *)
(* also inherit b from it, once f2 has declared b.  The attribute b is     *)
(* below the annotation N, as hybrid ontologies have it, and so is the     *)
(* relationship R if f3 is loaded.  A restricts a twice, once with a       *)
(* default and once without.                                               *)
(***************************************************************************)
EXTENDS Terminology

CONSTANTS Thing, topData, topObject, R, N, A, B, C, a, b, base, f1, f2, f3,
          iri, iri1, iri2, simphony, n1, w1, w2, i1, zero, one, two

MCBase == {base}
MCFile == {base, f1, f2, f3}
MCKinds == [class |-> {Thing, A, B, C}, attribute |-> {topData, a, b},
            relationship |-> {topObject, R}, annotation |-> {N}]
MCEntity == UNION {MCKinds[k] : k \in DOMAIN MCKinds}
MCKind == [e \in MCEntity |-> CHOOSE k \in DOMAIN MCKinds : e \in MCKinds[k]]
MCTop == [class |-> Thing, attribute |-> topData, relationship |-> topObject,
          annotation |-> None]
MCIri == {iri, iri1, iri2}
MCName == {simphony, n1}
MCWord == {w1, w2}
MCIndividual == {i1}
MCRdfs == {B}
MCFalsy == {zero, None}
Of(x1, x2, x3) == [f \in MCFile |->
    CASE f = f1 -> x1 [] f = f2 -> x2 [] f = f3 -> x3 [] OTHER -> {}]
MCDeclares == [Of({A, a, R}, {B, C, b, N}, {})
                  EXCEPT ![base] = {Thing, topData, topObject}]
MCSubOf == Of({<<b, a>>}, {<<B, A>>, <<C, B>>, <<b, N>>}, {<<C, A>>, <<R, N>>})
MCRestricts == Of({<<A, a, one>>, <<A, b, zero>>, <<A, a, None>>}, {<<B, a, two>>, <<C, a, zero>>, <<C, b, None>>}, {<<B, b, zero>>})
MCDomains == Of({<<b, A>>}, {}, {})
MCNames == [f \in MCFile |-> CASE f = base -> << <<simphony, iri>> >>
    [] f = f1 -> << <<n1, iri1>> >> [] f = f2 -> <<>>
    [] f = f3 -> << <<simphony, iri>>, <<n1, iri2>> >>]
MCWithin == [i \in MCIri |-> CASE i = iri -> {Thing} [] i = iri1 -> {A, B} [] i = iri2 -> {B}]
MCLabelled == [w \in MCWord |-> IF w = w1 THEN {A, C} ELSE {B}]
MCSuffix == [i \in MCIri |-> [w \in MCWord |->
    IF i = iri1 /\ w = w1 THEN B ELSE None]]
MCKeywords == [x \in {a, b, topData} |-> IF x = a THEN {w1} ELSE {w1, w2}]
Program(asks, binds, edits) == [asks |-> asks, binds |-> binds, edits |-> edits]
OfClasses(methods, S) == {About(m, c) : m \in methods, c \in S}
MCPrograms == {
    Program(OfClasses({"own", "direct", "attributes", "optional"}, {A, B}), {}, {}),
    Program(OfClasses({"own", "direct", "attributes"}, {A, B, C}), {}, {}),
    Program({About("individual", i1)} \cup OfClasses({"superclasses"}, {A, B}), {}, {i1}),
    Program({About("namespace", B)}, MCIri, {}),
    Program({About("superclasses", b), About("direct", R)}, {}, {}),
    Program({Question("labelled", None, w1), About("subclasses", A)} \cup
            {Question("get", iri1, w) : w \in MCWord}, {}, {})}

(* Attributes are asked with the two files that have some, those of three  *)
(* classes when the one of the subclasses was loaded first.                *)
Relevant ==
    /\ About("attributes", A) \in program.asks => f3 \notin graph
    /\ About("attributes", C) \in program.asks /\ f1 \in graph => f2 \in graph
    /\ \A i \in Individual : Cardinality(types[i]) <= 1
=============================================================================
