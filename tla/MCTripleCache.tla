----------------------------- MODULE MCTripleCache -----------------------------
(***************************************************************************)
(* The instance of TripleCache for TLC: entities a and b with up to three  *)
(* properties that refer to b, and so to an entity that can be fetched     *)
(* ahead.  Patterns of one entity and of one property overlap.  Together   *)
(* the triples exceed the cache by one or two.                             *)
(***************************************************************************)
EXTENDS TripleCache

CONSTANTS a, b, p1, p2, p3

MCSubject   == {a, b}
MCPredicate == {p1, p2, p3}
MCObject    == {b}

(* The largest entity does not fit beside two other patterns. *)
MCBackends  == {{<<a, p1, b>>} \cup ({b} \X MCPredicate \X {b}),
                {<<a, p1, b>>, <<a, p2, b>>, <<b, p1, b>>},
                {<<b, p2, b>>}}
MCQueries   == {<<a, None, None>>, <<b, None, None>>, <<None, p2, None>>}
MCAdditions == {<<a, p2, b>>, <<b, p1, b>>}
MCRemovals  == {<<a, None, None>>, <<None, p2, None>>}
=============================================================================
