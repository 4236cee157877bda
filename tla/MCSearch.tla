------------------------------- MODULE MCSearch -------------------------------
(***************************************************************************)
(* The instance of Search for TLC: all graphs on three individuals, and    *)
(* some on four: with a way around, and with a cycle that joins it.  The   *)
(* connections of one individual cannot be read, or the program sees to it *)
(* that those of any cannot.                                               *)
(***************************************************************************)
EXTENDS Search

CONSTANTS i1, i2, i3, i4

MCIndividual == {i1, i2, i3, i4}
Pairs(S) == {e \in S \X S : e[1] # e[2]}
MCEdges == SUBSET Pairs({i1, i2, i3}) \cup
    {{<<i1, i2>>, <<i2, i3>>, <<i1, i3>>, <<i3, i4>>} \cup E :
        E \in SUBSET {<<i4, i1>>, <<i4, i2>>, <<i2, i4>>}}
MCDefects == {{}, {i3}}
MCCriteria == {MCIndividual, {i1, i3}}
MCRoots == {i1}
=============================================================================
