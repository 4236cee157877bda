-------------------------- MODULE TransactionalStore --------------------------
(***************************************************************************)
(* What a transaction-aware triple store promises: reads see the caller's  *)
(* own writes at once, nothing is stored before a commit, a commit does    *)
(* not change what is read, and a rollback returns to what is stored.      *)
(***************************************************************************)
EXTENDS Triples

VARIABLES committed,   \* what the store holds
          working      \* what its user reads

vars == <<committed, working>>

Init == committed \in SUBSET Triple /\ working = committed

Add(t)    == working' = working \cup {t} /\ UNCHANGED committed
Remove(p) == working' = working \ Matching(working, p) /\ UNCHANGED committed
Commit    == committed' = working /\ UNCHANGED working
Rollback  == working' = committed /\ UNCHANGED committed

Next == \/ \E t \in Triple : Add(t)
        \/ \E p \in Pattern : Remove(p)
        \/ Commit
        \/ Rollback

Spec == Init /\ [][Next]_vars

(***************************************************************************)
(* A store in front of a backend that SimPhoNy cannot make atomic: a       *)
(* commit may be cut short with only part of the changes stored, and a     *)
(* simulation may change the backend and the graph when nothing is pending.*)
(***************************************************************************)
Persist ==
    /\ committed' \in SUBSET (committed \cup working)
    /\ committed \cap working \subseteq committed'
    /\ UNCHANGED working

Simulate ==
    /\ working = committed
    /\ committed' \in SUBSET Triple
    /\ working' \in SUBSET Triple

BackendSpec == Init /\ [][Next \/ Persist \/ Simulate]_vars
=============================================================================
