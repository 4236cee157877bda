------------------------------- MODULE Triples -------------------------------
(***************************************************************************)
(* RDF triples and triple patterns as the stores of SimPhoNy see them.  A  *)
(* pattern is a triple in which None is a wildcard (rdflib.Graph.triples). *)
(***************************************************************************)
EXTENDS Naturals

CONSTANTS Subject, Predicate, Object, None

ASSUME WildcardAssumption == None \notin Subject \cup Predicate \cup Object

Triple  == Subject \X Predicate \X Object
Pattern == (Subject \cup {None}) \X (Predicate \cup {None})
                                 \X (Object \cup {None})

(* `sub' is `pattern' with some wildcards filled in. *)
IsSubPattern(sub, pattern) ==
    \A i \in 1..3 : pattern[i] = None \/ sub[i] = pattern[i]

Matching(T, pattern) == {t \in T : IsSubPattern(t, pattern)}

SubjectsOf(T) == {t[1] : t \in T}
=============================================================================
