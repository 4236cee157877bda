-------------------------------- MODULE Search --------------------------------
(***************************************************************************)
(* The search for individuals: a generator that expands one individual at  *)
(* a time, remembers the expanded ones in a set that all levels of its     *)
(* recursion share, and is suspended whenever it has found one.  What an   *)
(* individual is connected with is read when it is expanded; the program   *)
(* may connect and disconnect individuals while the generator waits.       *)
(***************************************************************************)
EXTENDS Integers, FiniteSets, Sequences, Functions

CONSTANTS
  Individual, \* and what else annotations lead to
  Roots,      \* individuals that a search begins with
  Edges,      \* sets of pairs of connected individuals to begin with
  Defects,    \* sets of individuals, see `broken', to begin with
  Depths, Unlimited, \* maximal depths
  Criteria,   \* sets of individuals that are looked for
  MaxEdits    \* bound on the changes made during a search

ASSUME SearchAssumption ==
    /\ Roots \subseteq Individual
    /\ Edges \subseteq SUBSET (Individual \X Individual)
    /\ Defects \subseteq SUBSET Individual
    /\ Criteria \subseteq SUBSET Individual
    /\ Depths \subseteq Nat \cup {Unlimited} /\ Unlimited \notin Nat
    /\ IsFiniteSet(Individual)

VARIABLES
  edges,      \* pairs of individuals, by the relationships and annotations
              \* that are followed
  broken,     \* those whose connections cannot be read: one is to something
              \* that the session does not know, or they are no individuals
  search,     \* its root, criterion and maximal depth; never changes
  stack,      \* the calls of the recursion, the innermost first
  visited,
  found,      \* the individuals that were yielded, in order
  suspended,  \* the generator waits for the program
  raised,     \* history: the generator has ended with an error
  edits,      \* history: how often the program changed the connections
  ever        \* history: all connections there have been

vars == <<edges, broken, search, stack, visited, found, suspended, raised, edits, ever>>

Children(i) == {e[2] : e \in {x \in edges : x[1] = i}}

(* Connections are read up to the maximal depth only.                      *)
Deeper(depth) == search.max # Unlimited => depth < search.max
Raises(i, depth) == i \in broken /\ Deeper(depth)

(* A call: its children are decided at its start.  Those that satisfy the  *)
(* criterion are yielded, then each is searched, visited by now or not.    *)
FaultyCallMatching(i, depth) ==
    LET children == IF Deeper(depth) THEN Children(i) \ (visited \cup {i}) ELSE {}
        matching == children \cap search.criterion
    IN  [show |-> matching, next |-> matching, depth |-> depth]
FaultyCallDeeper(i, depth) ==
    LET deeper == search.max = Unlimited \/ depth <= search.max
        children == IF deeper THEN Children(i) \ (visited \cup {i}) ELSE {}
    IN  [show |-> children \cap search.criterion, next |-> children, depth |-> depth]
Call(i, depth) ==
    LET children == IF Deeper(depth) THEN Children(i) \ (visited \cup {i}) ELSE {}
    IN  [show |-> children \cap search.criterion, next |-> children, depth |-> depth]

(* `find' yields the root itself, before it calls.                         *)
Init ==
    /\ edges \in Edges /\ ever = edges /\ broken \in Defects
    /\ search \in [root : Roots, criterion : Criteria, max : Depths]
    /\ stack = <<>> /\ visited = {} /\ found = <<>> /\ edits = 0
    /\ suspended = FALSE /\ raised = FALSE

Started == stack # <<>> \/ visited # {}
Top == Head(stack)
Within(frame) == <<frame>> \o Tail(stack)

FindRoot ==
    /\ ~Started /\ ~suspended /\ found = <<>> /\ search.root \in search.criterion
    /\ found' = <<search.root>> /\ suspended' = TRUE
    /\ UNCHANGED <<edges, broken, search, stack, visited, raised, edits, ever>>

Ready == ~Started /\ (search.root \in search.criterion => found # <<>>)

Start ==
    /\ Ready /\ ~Raises(search.root, 0)
    /\ stack' = <<Call(search.root, 0)>>
    /\ visited' = {search.root} /\ suspended' = FALSE
    /\ UNCHANGED <<edges, broken, search, found, raised, edits, ever>>

Yield ==
    /\ stack # <<>>
    /\ \E i \in Top.show :
          /\ found' = Append(found, i)
          /\ stack' = Within([Top EXCEPT !.show = @ \ {i}])
    /\ suspended' = TRUE
    /\ UNCHANGED <<edges, broken, search, visited, raised, edits, ever>>

FaultyDescend ==
    /\ stack # <<>> /\ Top.show = {}
    /\ \E i \in Top.next \ visited :
          /\ ~Raises(i, Top.depth + 1)
          /\ stack' = <<Call(i, Top.depth + 1)>> \o Within([Top EXCEPT !.next = @ \ {i}])
          /\ visited' = visited \cup {i}
    /\ suspended' = FALSE
    /\ UNCHANGED <<edges, broken, search, found, raised, edits, ever>>
Descend ==
    /\ stack # <<>> /\ Top.show = {}
    /\ \E i \in Top.next :
          /\ ~Raises(i, Top.depth + 1)
          /\ stack' = <<Call(i, Top.depth + 1)>> \o Within([Top EXCEPT !.next = @ \ {i}])
          /\ visited' = visited \cup {i}
    /\ suspended' = FALSE
    /\ UNCHANGED <<edges, broken, search, found, raised, edits, ever>>

Return ==
    /\ stack # <<>> /\ Top.show = {} /\ Top.next = {}
    /\ stack' = Tail(stack) /\ suspended' = FALSE
    /\ UNCHANGED <<edges, broken, search, visited, found, raised, edits, ever>>

(* A call that cannot read the connections ends the generator, and the     *)
(* calls around it, with an error.                                         *)
Fail ==
    /\ \/ Ready /\ Raises(search.root, 0) /\ visited' = {search.root}
       \/ /\ stack # <<>> /\ Top.show = {}
          /\ \E i \in Top.next : Raises(i, Top.depth + 1) /\ visited' = visited \cup {i}
    /\ stack' = <<>> /\ suspended' = FALSE /\ raised' = TRUE
    /\ UNCHANGED <<edges, broken, search, found, edits, ever>>

(* The program connects or disconnects two individuals, or one with        *)
(* something unknown.                                                      *)
Toggle(S, x) == IF x \in S THEN S \ {x} ELSE S \cup {x}
Edit ==
    /\ suspended /\ edits < MaxEdits
    /\ \/ (\E e \in Individual \X Individual : edges' = Toggle(edges, e)) /\ UNCHANGED broken
       \/ (\E i \in Individual : broken' = Toggle(broken, i)) /\ UNCHANGED edges
    /\ ever' = ever \cup edges' /\ edits' = edits + 1
    /\ UNCHANGED <<search, stack, visited, found, suspended, raised>>

Step == FindRoot \/ Start \/ Yield \/ Descend \/ Return \/ Fail
Next == Step \/ Edit

(* The program asks for the next individual again and again.               *)
Spec == Init /\ [][Next]_vars /\ WF_vars(Step)

-----------------------------------------------------------------------------
Ended == Started /\ stack = <<>>
Closed(S, E) == search.root \in S /\ \A e \in E : e[1] \in S => e[2] \in S

(* What is found satisfies the criterion and is in every set that contains *)
(* the root and all that its members were ever connected with.             *)
FindsConnected ==
    /\ Range(found) \subseteq search.criterion
    /\ \A S \in SUBSET Individual : Closed(S, ever) => Range(found) \subseteq S

(* And, if nothing was changed meanwhile and nothing raised, everything is *)
(* found that satisfies the criterion and that no such set can do without, *)
(* although individuals are passed over that another branch has visited.   *)
FindsAll ==
    Ended /\ ~raised /\ edits = 0 /\ search.max = Unlimited =>
        \A i \in search.criterion :
            (\A S \in SUBSET Individual : Closed(S, edges) => i \in S) => i \in Range(found)

SearchExact == FindsConnected /\ FindsAll

(* An individual is found again for another connection only; and, with a   *)
(* maximal depth, only over as many connections.                           *)
OncePerConnection ==
    LET ball[n \in 0..Cardinality(Individual)] ==
            IF n = 0 THEN {search.root}
            ELSE ball[n - 1] \cup {e[2] : e \in {x \in ever : x[1] \in ball[n - 1]}}
    IN  \A i \in Range(found) :
          /\ Cardinality({k \in DOMAIN found : found[k] = i}) <=
                IF i = search.root THEN 1 ELSE Cardinality({e \in ever : e[2] = i})
          /\ search.max \in DOMAIN ball => i \in ball[search.max]

(* A generator that is read on comes to its end, in a graph with cycles,   *)
(* and with connections made as fast as it follows them.                   *)
Ends == <>Ended
=============================================================================
