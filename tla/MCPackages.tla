------------------------------ MODULE MCPackages ------------------------------
(***************************************************************************)
(* The instance of Packages for TLC: p, px that begins with p, and u.  The *)
(* packages that come with the library are f1 for p and f2 for u, which    *)
(* requires p.  A package px requires u; another one, f4, for u requires   *)
(* px, which closes a cycle, and has a name that f1 binds.                 *)
(***************************************************************************)
EXTENDS Packages

CONSTANTS Thing, A, B, base, f1, f2, f3, f4, iri1, iri2, n1, w1, p, px, u

MCBase == {base}
MCFile == {base, f1, f2, f3, f4}
MCEntity == {Thing, A, B}
MCKind == [e \in MCEntity |-> "class"]
MCTop == [class |-> Thing]
MCIri == {iri1, iri2}
MCName == {n1}
MCWord == {w1}
MCDeclares == [f \in MCFile |->
    CASE f = base -> {Thing} [] f = f1 -> {A} [] f = f2 -> {B} [] OTHER -> {}]
MCSubOf == [f \in MCFile |-> IF f = f2 THEN {<<B, A>>} ELSE {}]
MCNone == [f \in MCFile |-> {}]
MCNames == [f \in MCFile |-> CASE f = f1 -> << <<n1, iri1>> >>
    [] f = f4 -> << <<n1, iri2>> >> [] OTHER -> <<>>]
MCWithin == [i \in MCIri |-> {}]
MCLabelled == [w \in MCWord |-> {A, B}]
MCSuffix == [i \in MCIri |-> [w \in MCWord |-> None]]
MCPrograms == {[asks |-> {About("subclasses", A)},
                binds |-> {}, edits |-> {}]}
MCIdentifier == {p, px, u}
MCId == [f \in MCFile \ MCBase |-> CASE f = f1 -> p [] f = f3 -> px [] OTHER -> u]
MCRequires == [f \in MCFile \ MCBase |->
    CASE f = f1 -> {} [] f = f2 -> {p} [] f = f3 -> {u} [] f = f4 -> {px}]
MCBundled == [i \in MCIdentifier |-> CASE i = p -> f1 [] i = u -> f2 [] i = px -> None]
MCLonger == [i \in MCIdentifier |-> IF i = p THEN {p, px} ELSE {i}]

(* Nothing more is done when the parts of two packages do not fit.         *)
FewDamaged == Cardinality({i \in Identifier : disk[i].xml # disk[i].yml}) <= 1
=============================================================================
