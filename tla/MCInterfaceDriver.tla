--------------------------- MODULE MCInterfaceDriver ---------------------------
(***************************************************************************)
(* Instances of InterfaceDriver for TLC: two entities with a type and one  *)
(* attribute each.  The wrapper catches the attributes and leaves the      *)
(* types to the base graph, so that every entity is spread over both.      *)
(***************************************************************************)
EXTENDS InterfaceDriver

CONSTANTS s1, s2, attr, o1, o2

MCSubject   == {s1, s2}
MCPredicate == {Type, attr}
MCObject    == {o1}
MCCaught    == {s1, s2} \X {attr} \X {o1}
MCCaughtOne == {<<s2, attr, o1>>}
=============================================================================
