---------------------------- MODULE MCIndividuals ----------------------------
(***************************************************************************)
(* The instance of Individuals for TLC.  Attribute a takes any value, its  *)
(* subclass b integers: it stores "1" as 1 and refuses "x".  Relationship  *)
(* contains has the subclass includes, whose inverse is q.  The annotation *)
(* n is also the predicate of labels.  Class File is a subclass of K, the  *)
(* class of the containers.                                                *)
(***************************************************************************)
EXTENDS Individuals

CONSTANTS i1, i2, K, includes, q, a, b, n, iri, one, str1, x, int1, int1en, en,
          nameA, other

MCIndividual   == {i1, i2}
MCClass        == {K, File}
MCRelationship == {contains, includes, q}
MCAttribute    == {a, b}
MCAnnotation   == {n}
MCUnknown      == {other}
MCIri          == {iri}
MCValue        == {one, str1, x}
MCLabelText    == {str1, x}
MCLanguage     == {en}
MCLiteral      == {int1, int1en} \cup Label
MCName         == {nameA}

Itself == [p \in MCClass \cup MCRelationship \cup MCAttribute |-> {p}]
MCSub  == [Itself EXCEPT ![K] = MCClass, ![contains] = {contains, includes}, ![a] = {a, b}]
MCInverseOf == [r \in MCRelationship |-> IF r = includes THEN q ELSE None]
MCTyped == {b}
Plain(v) == IF v = one THEN int1 ELSE <<v, None>>
MCLiteralOf == [v \in MCValue |-> Plain(v)]
MCPython == [l \in MCLiteral |-> IF l \in {int1, int1en} THEN one ELSE l[1]]
MCCast == [p \in MCAttribute |-> [v \in MCValue |->
              IF p = a THEN Plain(v) ELSE IF v = x THEN None ELSE int1]]
MCText == [v \in MCValue |-> IF v = x THEN x ELSE str1]
MCTextOf == [y \in MCIndividual \cup {iri} |-> <<x, None>>]
MCNamed == [m \in MCName |-> {b, n, includes}]
MCAttributesOf == [c \in MCClass |-> IF c = K THEN {a} ELSE {b}]
MCLabelPredicates == {n}
MCLanguageOf == [l \in MCLiteral |->
    CASE l = int1 -> None [] l = int1en -> en [] OTHER -> l[2]]
MCTagged == [l \in MCLiteral |-> [lang \in MCLanguage |->
    IF l \in {int1, int1en} THEN int1en ELSE <<l[1], lang>>]]
MCRank == [p \in {n} |-> [l \in MCLiteral |-> IF MCLanguageOf[l] = en THEN 0 ELSE 1]]

MCAttributeArguments == {{}, {str1}, {x}, {one, x}, {one, str1}}
MCRelationshipArguments == {{}, {i2}, {i1, <<"other", i2>>}, {i1, <<i2>>}}
MCAnnotationArguments == {{}, {one}, {i2, x}, {<<iri>>}, {<<iri>>, K}}
MCImportArguments == {{i1}, {<<"other", i1>>}, {i1, <<"other", i2>>},
                      {<<"other", i1>>, <<"other", i2>>}, {<<i2>>}}
MCFilter  == {None, File}
MCSources == {{<<i1, Type, K>>, <<i1, includes, i2>>, <<i2, Type, K>>},
              {<<i1, Type, File>>, <<i1, a, int1>>, <<i2, Type, K>>, <<i2, other, i1>>}}
MCNewStatements == [i \in MCIndividual |->
    {{<<i, Type, K>>}, {<<i, Type, File>>, <<i, b, int1>>}}]
=============================================================================
