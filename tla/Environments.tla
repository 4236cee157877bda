----------------------------- MODULE Environments -----------------------------
(***************************************************************************)
(* Sessions and containers as environments: the stack of context managers, *)
(* the places where containers are opened, the subscriptions that tie an   *)
(* environment to those opened in it, and the locks that keep it open.     *)
(*                                                                         *)
(* The program is single threaded, an operation that raises leaves behind  *)
(* what it did before.  Raising without a change is no step at all.        *)
(* A container is one Python object, and the environments an `_opens_in`   *)
(* refers to are alive.                                                    *)
(***************************************************************************)
EXTENDS Naturals, FiniteSets, Sequences

CONSTANTS Session, Container,
          default,          \* the session at the bottom of the stack
          None,             \* Python's None
          Places,           \* values that the program assigns to `opens_in`
          Lockable,         \* environments that the program locks
          MaxLocks,         \* bound on a lock count
          MaxDepth          \* bound on the stack

Env == Session \cup Container

ASSUME EnvironmentAssumption ==
    /\ Session \cap Container = {} /\ None \notin Env
    /\ IsFiniteSet(Container)
    /\ default \in Session
    /\ Places \subseteq Env \cup {None} /\ Lockable \subseteq Env
    /\ MaxLocks \in Nat /\ MaxDepth \in Nat \ {0}

VARIABLES stack,            \* _stack_default_environment
          registered,       \* _environment_references
          subscribers,      \* _subscribers of each environment
          linked,           \* _session_linked of each container
          parent,           \* _container_environment of each container
          opensIn,          \* _opens_in of each container
          locks, userLock,  \* _lock and _user_lock
          graphOpen,        \* sessions whose graph has not been closed
          reopened          \* containers opened in two places (history)

places   == <<linked, parent, subscribers, registered, reopened>>
settings == <<opensIn, locks, userLock>>
vars     == <<stack, places, settings, graphOpen>>

Top       == stack[Len(stack)]
OnStack   == {stack[i] : i \in 1..Len(stack)}
Locked(e) == locks[e] > 0 \/ userLock[e]
IsOpen(c) == linked[c] # None

(* The environment whose subscriber container c is supposed to be. *)
EnvironmentOf(c) == IF parent[c] # None THEN parent[c] ELSE linked[c]

(* Where container c is opened unless told otherwise. *)
Default(c) ==
    IF c \in Session THEN c ELSE IF opensIn[c] # None THEN opensIn[c] ELSE Top

(* The session that entities are fetched from in environment e, if any. *)
SessionOf(e) == IF e \in Session THEN e ELSE linked[e]

(* e, and what its close goes through.  The close of an environment on the *)
(* stack raises before anything else.                                      *)
ClosedWith(e) ==
    {x \in Env : \A S \in SUBSET Env :
        e \in S /\ (\A y \in S : subscribers[y] \ OnStack \subseteq S) => x \in S}

-----------------------------------------------------------------------------
(* Faulty variants of the definitions below: the properties must notice    *)
(* each of them.                                                           *)

FaultyAgrees(c, session) == TRUE

(* Does not unsubscribe. *)
FaultyCloseLeaf(e, via) ==
    /\ registered' = registered \ {e}
    /\ linked' = [c \in Container |-> IF c = e THEN None ELSE linked[c]]
    /\ parent' = [c \in Container |-> IF c = e THEN None ELSE parent[c]]
    /\ graphOpen' = graphOpen \ {e}
    /\ UNCHANGED <<subscribers, reopened>>

(* Takes what it leaves open out of the register. *)
FaultyExit(e) ==
    /\ Len(stack) > 1 /\ e = Top
    /\ stack' = SubSeq(stack, 1, Len(stack) - 1)
    /\ registered' = registered \ {e}
    /\ UNCHANGED <<linked, parent, subscribers, reopened, settings, graphOpen>>

(* Closes a session in spite of its subscribers. *)
FaultyClose(e) ==
    /\ e \notin OnStack /\ e \in registered
    /\ registered' = registered \ {e}
    /\ graphOpen' = graphOpen \ {e}
    /\ UNCHANGED <<stack, linked, parent, subscribers, reopened, settings>>

-----------------------------------------------------------------------------
Init ==
    /\ stack = <<default>>
    /\ registered = Session
    /\ subscribers = [e \in Env |-> {}]
    /\ linked = [c \in Container |-> None]
    /\ parent = [c \in Container |-> None]
    /\ opensIn = [c \in Container |-> None]
    /\ locks = [e \in Env |-> 0] /\ userLock = [e \in Env |-> FALSE]
    /\ graphOpen = Session
    /\ reopened = {}

SetOpensIn(c, e) ==
    /\ opensIn' = [opensIn EXCEPT ![c] = e]
    /\ UNCHANGED <<stack, places, locks, userLock, graphOpen>>

Lock(e) ==
    /\ locks[e] < MaxLocks
    /\ locks' = [locks EXCEPT ![e] = @ + 1]
    /\ UNCHANGED <<stack, places, opensIn, userLock, graphOpen>>

Unlock(e) ==
    /\ locks' = [locks EXCEPT ![e] = IF @ > 0 THEN @ - 1 ELSE 0]
    /\ UNCHANGED <<stack, places, opensIn, userLock, graphOpen>>

SetLocked(e, value) ==
    /\ userLock' = [userLock EXCEPT ![e] = value]
    /\ UNCHANGED <<stack, places, opensIn, locks, graphOpen>>

(* A container that is open already stays in its session. *)
Agrees(c, session) == IsOpen(c) => linked[c] = session

(* The calls of `open' for container c in environment e.  A container that *)
(* is closed is opened first, where it opens by default, and so on: at[n]  *)
(* is opened in at[n+1].  The calls end at an environment that is open or  *)
(* at a container that opens in itself, and the outermost returns last.    *)
Chain(c, e) ==
    LET at[n \in Nat] == IF n = 0 THEN c ELSE IF n = 1 THEN e ELSE Default(at[n-1])
    IN  at

Ends(at, n) == at[n] = at[n-1] \/ at[n] \in Session \/ IsOpen(at[n])

LastOf(at, last) == Ends(at, last) /\ \A n \in 1..last-1 : ~Ends(at, n)

(* The calls that open x, and the environments that they open it in. *)
Calls(at, last, x)    == {n \in 0..last-1 : at[n] = x /\ at[n+1] # x}
OpenedIn(at, last, x) == {at[n+1] : n \in Calls(at, last, x)}
Opened(at, last)      == {x \in Container : Calls(at, last, x) # {}}

(* Where the outermost of them, which has the last word, opens x. *)
Outer(at, last, x) ==
    LET calls == Calls(at, last, x)
    IN  at[1 + CHOOSE n \in calls : \A m \in calls : n <= m]

OpenIn(c, e, entered) ==
    LET at == Chain(c, e) IN
    \* RecursionError if there is no last call
    \E last \in {n \in 1..Cardinality(Container) + 2 : LastOf(at, n)} :
        LET opened   == Opened(at, last)
            outer(x) == Outer(at, last, x)
            session  == SessionOf(at[last])
        IN  /\ Agrees(c, IF last = 1 THEN session ELSE None)
            /\ linked' = [x \in Container |-> IF x \in opened THEN session ELSE linked[x]]
            /\ parent' = [x \in Container |->
                             IF x \in opened /\ outer(x) \in Container
                             THEN outer(x) ELSE parent[x]]
            /\ subscribers' = [y \in Env |->
                   subscribers[y] \cup {x \in opened : y \in OpenedIn(at, last, x)}]
            /\ registered' = registered \cup opened \cup entered
            /\ reopened' = reopened \cup {x \in opened :
                   \E y, z \in OpenedIn(at, last, x) \cup ({EnvironmentOf(x)} \ {None}) : y # z}

Open(c, e) ==
    /\ OpenIn(c, e, {})
    /\ UNCHANGED <<stack, settings, graphOpen>>

Enter(e) ==
    /\ Len(stack) < MaxDepth
    /\ stack' = Append(stack, e)
    /\ IF e \in Container
       THEN OpenIn(e, Default(e), {e})
       ELSE /\ registered' = registered \cup {e}
            /\ UNCHANGED <<linked, parent, subscribers, reopened>>
    /\ UNCHANGED <<settings, graphOpen>>

(* The close of e, that nothing is subscribed to, from the loop of `via`.  *)
CloseLeaf(e, via) ==
    /\ registered' = registered \ {e}
    /\ linked' = [c \in Container |-> IF c = e THEN None ELSE linked[c]]
    /\ parent' = [c \in Container |-> IF c = e THEN None ELSE parent[c]]
    /\ subscribers' = [x \in Env |->
           IF x = via \/ (e \in Container /\ x = EnvironmentOf(e))
           THEN subscribers[x] \ {e} ELSE subscribers[x]]
    /\ graphOpen' = graphOpen \ {e}
    /\ reopened' = IF {x \in Env : e \in subscribers'[x]} = {} THEN reopened \ {e} ELSE reopened

(* The loop over the subscribers of an environment ends with its first     *)
(* iteration, which raises even where it closes a subscriber: that one has *)
(* then left the set that is being iterated.  The close of e closes e or,  *)
(* where anything is subscribed to it, one environment below it.           *)
Close(e) ==
    /\ e \notin OnStack
    /\ \E x \in ClosedWith(e), via \in ClosedWith(e) :
          /\ x \in subscribers[via] \/ (x = e /\ via = e)
          /\ subscribers[x] = {} /\ x \in registered
          /\ CloseLeaf(x, via)
    /\ UNCHANGED <<stack, settings>>

Exit(e) ==
    /\ Len(stack) > 1 /\ e = Top
    /\ stack' = SubSeq(stack, 1, Len(stack) - 1)
    /\ IF \/ \E i \in 1..Len(stack) - 1 : stack[i] = e
          \/ subscribers[e] # {}
          \/ Locked(e)
       THEN UNCHANGED <<places, graphOpen>>
       ELSE CloseLeaf(e, e)
    /\ UNCHANGED settings

(* What is under a single environment of the stack is never left.          *)
SetDefaultSession(s) ==
    /\ Len(stack) = 1
    /\ stack' = <<s>>
    /\ UNCHANGED <<places, settings, graphOpen>>

Next ==
    \/ \E c \in Container, e \in Places : SetOpensIn(c, e)
    \/ \E e \in Lockable : \/ Lock(e) \/ Unlock(e)
                           \/ \E value \in BOOLEAN : SetLocked(e, value)
    \/ \E c \in Container, e \in Env : Open(c, e)
    \/ \E e \in Env : Enter(e) \/ Exit(e) \/ Close(e)
    \/ \E s \in Session : SetDefaultSession(s)

Spec == Init /\ [][Next]_vars

(* A bound on the states checked: no lock within two nested contexts, nor  *)
(* while a container opens in a place of its own.                          *)
LocksNearTheTop ==
    (\E e \in Env : Locked(e))
        => Len(stack) <= 2 /\ \A c \in Container : opensIn[c] = None

-----------------------------------------------------------------------------
(* Type invariant.                                                         *)
TypeOK ==
    /\ stack \in Seq(Env) /\ Len(stack) \in 1..MaxDepth
    /\ registered \subseteq Env /\ reopened \subseteq Container
    /\ subscribers \in [Env -> SUBSET Container]
    /\ linked \in [Container -> Session \cup {None}]
    /\ parent \in [Container -> Container \cup {None}]
    /\ opensIn \in [Container -> Env \cup {None}]
    /\ locks \in [Env -> 0..MaxLocks] /\ userLock \in [Env -> BOOLEAN]
    /\ graphOpen \subseteq Session

(* A container that is open inside another container, and was opened in    *)
(* no other place, fetches entities from the session of that other one     *)
(* (ContainerEnvironment.open, close).                                     *)
LinkFollowsParent ==
    \A c \in Container \ reopened :
        IsOpen(c) /\ parent[c] # None => linked[c] = linked[parent[c]]

(* An environment knows what has been opened in it: an open container can  *)
(* still be found, and closed, through the environment it is open in       *)
(* (ContainerEnvironment.open, close and Environment.close).               *)
OpenMeansSubscribed ==
    \A c \in Container : IsOpen(c) => c \in subscribers[EnvironmentOf(c)] /\ c \in registered

(* Only a container that was opened a second time, in another environment, *)
(* without being closed in between leaves a subscription behind            *)
(* (ContainerEnvironment.open does not unsubscribe it).                    *)
StaleOnlyIfReopened ==
    \A e \in Env : \A c \in subscribers[e] \ reopened :
        c \in registered /\ EnvironmentOf(c) = e

(* Both directions of "opened in" agree, whatever is opened, entered,      *)
(* replaced and closed in between, in states of the right types.           *)
SubscribersConsistent == TypeOK /\ OpenMeansSubscribed /\ StaleOnlyIfReopened

(* Whatever the order of opening and closing, the graph of a session is    *)
(* not closed while a container fetches entities from it (Session.close).  *)
NoneLinkedToClosed ==
    [][\A s \in graphOpen \ graphOpen' : \A c \in Container : linked'[c] # s]_vars

(* The close of an environment that raises makes progress all the same, so *)
(* that repeating it closes the environment in the end, where no dependent *)
(* was opened in two places, is in use as a context manager or was opened  *)
(* in a container that opens in itself                                     *)
(* (Environment.close, ContainerEnvironment.close).                        *)
CloseProgresses ==
    \A e \in registered \ OnStack :
        /\ \A c \in ClosedWith(e) \ Session : IsOpen(c) /\ c \notin reopened
        /\ \A x \in ClosedWith(e) : subscribers[x] \cap OnStack = {}
        => \E x \in ClosedWith(e) : subscribers[x] = {} /\ x \in registered
=============================================================================
