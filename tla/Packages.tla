------------------------------- MODULE Packages -------------------------------
(***************************************************************************)
(* Pico, the manager of ontology packages, over the terminology that it    *)
(* fills.  A package is two files in a directory, its graph and its        *)
(* configuration; what is installed is what has a configuration.  Nothing  *)
(* else is kept, so that an installation that raises or dies leaves the    *)
(* files it has written, and the terminology as it was before.             *)
(***************************************************************************)
EXTENDS Terminology

CONSTANTS
  Identifier,
  Id,         \* file -> the identifier of its package
  Requires,   \* file -> identifiers
  Bundled,    \* identifier -> the file that comes with the library, or None
  Longer,     \* identifier -> identifiers that begin with it, itself included
  Broken      \* a file cut short

ASSUME PackagesAssumption ==
    /\ IsFiniteSet(Identifier)
    /\ None \notin File /\ Broken \notin File
    /\ Id \in [File \ Base -> Identifier]
    /\ Requires \in [File \ Base -> SUBSET Identifier]
    /\ Bundled \in [Identifier -> (File \ Base) \cup {None}]
    /\ \A i \in Identifier : Bundled[i] # None => Id[Bundled[i]] = i
    /\ Longer \in [Identifier -> SUBSET Identifier] /\ \A i \in Identifier : i \in Longer[i]

VARIABLES
  disk,       \* identifier -> its graph and its configuration
  stage,      \* "idle", "install", "load", or "down": no process runs
  todo,       \* what is still to be installed, in two parts, and loaded, in order
  behind,     \* history: an operation did not come to its end since the last
              \* complete loading
  lost        \* history: identifiers that a failure or the name of another
              \* package left uninstalled

pico == <<disk, stage, todo, behind, lost>>
session == <<graph, namespaces, stamp, cached, since>>
others == <<clock, dataStamp, types, held, program>>

Package == File \ Base
InstalledIn(d) == {i \in Identifier : d[i].yml \in Package}
Installed == InstalledIn(disk)
RequiresOf(i) == Requires[disk[i].yml]
(* A configuration that cannot be read stops every operation.              *)
Readable == \A i \in Identifier : disk[i].yml # Broken

Nothing == [first |-> {}, then |-> {}, load |-> <<>>]
Absent == [xml |-> None, yml |-> None]
Identifiers(files) == {Id[f] : f \in files}

-----------------------------------------------------------------------------
(* What has to be installed with some files: the least set that has what   *)
(* the library brings for each requirement of its members, where packages  *)
(* that stay are not followed.  None stands for a requirement not found.   *)
Explored(files, kept) ==
    LET candidates == {files \cup B : B \in SUBSET Range(Bundled)}
        Closed(S) == \A f \in S \ {None} :
            \A i \in Requires[f] \ (kept \cup Identifiers(files)) : Bundled[i] \in S
    IN  {f \in files \cup Range(Bundled) : \A S \in candidates : Closed(S) => f \in S}

(* Kahn's algorithm on pairs of a requirement and a package: the orders    *)
(* that it may give, none if it finds a cycle.                             *)
Free(edges, nodes) == nodes \ {e[2] : e \in edges}
Pop(t, n) ==
    LET left == {e \in t.edges : e[1] # n}
    IN  [result |-> Append(t.result, n), edges |-> left,
         free |-> (t.free \ {n}) \cup Free(left, {e[2] : e \in t.edges \ left})]
PopAny(T) == UNION {{Pop(t, n) : n \in t.free} : t \in T}

FaultySortings(nodes, edges) == {s \in [1..Cardinality(nodes) -> nodes] : Range(s) = nodes}
Sortings(nodes, edges) ==
    LET start == [result |-> <<>>, edges |-> edges, free |-> Free(edges, nodes)]
        step[k \in 0..Cardinality(nodes)] == IF k = 0 THEN {start} ELSE PopAny(step[k - 1])
    IN  {t.result : t \in {u \in step[Cardinality(nodes)] : u.edges = {}}}

(* The packages by their places in such an order.                          *)
Precedes(s, i, j) == \E a, b \in DOMAIN s : a < b /\ s[a] = i /\ s[b] = j
LoadOrders(d) ==
    LET installed == InstalledIn(d)
        edges == {e \in Identifier \X installed : e[1] \in Requires[d[e[2]].yml]}
    IN  {o \in [1..Cardinality(installed) -> installed] :
            /\ Range(o) = installed
            /\ \E s \in Sortings(installed \cup {e[1] : e \in edges}, edges) :
                  \A a, b \in DOMAIN o : a < b => Precedes(s, o[a], o[b])}

-----------------------------------------------------------------------------
Stop(incomplete) == stage' = "idle" /\ todo' = Nothing /\ behind' = incomplete

(* The end of an operation: the terminology is emptied, and the installed  *)
(* packages are loaded one after the other, unless they have no order.     *)
FaultyReload(d) == Stop(FALSE) /\ UNCHANGED session
Reload(d) ==
    /\ Clear
    /\ \/ LoadOrders(d) = {} /\ Stop(TRUE)
       \/ LoadOrders(d) = {<<>>} /\ Stop(FALSE)
       \/ /\ \E order \in LoadOrders(d) \ {<<>>} : todo' = [Nothing EXCEPT !.load = order]
          /\ stage' = "load" /\ UNCHANGED behind

LoadNext ==
    LET this == disk[Head(todo.load)]
        rest == Tail(todo.load)
        readable == this.xml \in Package
        raised == ~readable \/ BindAll(namespaces, Names[this.yml]).raised
    IN  /\ stage = "load"
        /\ IF readable THEN LoadParser(this.xml, this.yml) ELSE UNCHANGED session
        /\ IF raised \/ rest = <<>> THEN Stop(raised)
           ELSE todo' = [todo EXCEPT !.load = rest] /\ UNCHANGED <<stage, behind>>
        /\ UNCHANGED <<disk, lost, others>>

(* Requirements are written after the packages that need them.             *)
Install(files, overwrite) ==
    LET new == {f \in files : overwrite \/ Id[f] \notin Installed}
        kept == IF overwrite THEN Installed \ Identifiers(files) ELSE Installed
        all == Explored(new, kept)
    IN  /\ stage = "idle" /\ Readable
        /\ new # {} /\ None \notin all
        /\ stage' = "install"
        /\ todo' = [Nothing EXCEPT !.first = new, !.then = all \ new]
        /\ UNCHANGED <<disk, behind, lost, session, others>>

Due == IF todo.first # {} THEN todo.first ELSE todo.then

InstallOne ==
    /\ stage = "install"
    /\ \E f \in Due :
         /\ disk' = [disk EXCEPT ![Id[f]] = [xml |-> f, yml |-> f]]
         /\ lost' = lost \ {Id[f]}
         /\ IF todo.first \cup todo.then = {f} THEN Reload(disk')
            ELSE /\ todo' = [todo EXCEPT !.first = @ \ {f}, !.then = @ \ {f}]
                 /\ UNCHANGED <<stage, behind, session>>
    /\ UNCHANGED others

(* What is on disk when a file cannot be written to its end: a graph that  *)
(* is incomplete stays, one whose configuration failed is removed, if      *)
(* there is still a process to do it, and the configuration is not.        *)
CutShort(f, alive) ==
    LET old == disk[Id[f]]
        graphs == IF alive THEN None ELSE f
    IN  {old, [old EXCEPT !.xml = Broken]} \cup
        {[xml |-> graphs, yml |-> y] : y \in {old.yml, Broken}}

InstallCut(alive) ==
    /\ stage = "install"
    /\ \E f \in Due : \E parts \in CutShort(f, alive) : disk' = [disk EXCEPT ![Id[f]] = parts]
    /\ lost' = lost \cup Identifiers(todo.first \cup todo.then)

InstallFails == InstallCut(TRUE) /\ Stop(TRUE) /\ UNCHANGED <<session, others>>

(* The search for what depends on some packages stays within them if it    *)
(* finds nothing else in one step.                                         *)
FaultyDependents(S) == {}
Dependents(S) == {k \in Installed : RequiresOf(k) \cap S # {}}

(* Files are removed by the beginning of their names.                      *)
Removed(S) == UNION {Longer[i] : i \in S}
MayUninstall(S) ==
    /\ stage = "idle" /\ Readable
    /\ S # {} /\ S \subseteq Installed
    /\ Dependents(S) \subseteq S

Uninstall(S) ==
    /\ MayUninstall(S)
    /\ disk' = [i \in Identifier |-> IF i \in Removed(S) THEN Absent ELSE disk[i]]
    /\ lost' = lost \cup (Removed(S) \ S)
    /\ Reload(disk')
    /\ UNCHANGED others

(* A file that cannot be removed, or the end of the process, leaves some.  *)
UninstallCut(S) ==
    /\ MayUninstall(S)
    /\ \E xs, ys \in SUBSET Removed(S) :
          disk' = [i \in Identifier |->
                     [xml |-> IF i \in xs THEN None ELSE disk[i].xml,
                      yml |-> IF i \in ys THEN None ELSE disk[i].yml]]
    /\ lost' = lost \cup Removed(S)

UninstallFails(S) == UninstallCut(S) /\ Stop(TRUE) /\ UNCHANGED <<session, others>>

(* With the process goes the terminology.  The next one has an empty one   *)
(* and loads what is installed, or does not come up.                       *)
Crash ==
    /\ \/ InstallCut(FALSE)
       \/ \E S \in SUBSET Identifier : UninstallCut(S)
       \/ stage \in {"idle", "load"} /\ UNCHANGED <<disk, lost>>
    /\ stage' = "down" /\ todo' = Nothing /\ behind' = TRUE
    /\ graph' = Base /\ namespaces' = BaseNames
    /\ held' = <<>> /\ cached' = <<>> /\ since' = {}
    /\ UNCHANGED <<clock, stamp, dataStamp, types, program>>

Restart ==
    /\ stage = "down"
    /\ IF Readable THEN Reload(disk) ELSE UNCHANGED <<stage, todo, behind, session>>
    /\ UNCHANGED <<disk, lost, others>>

PicoInit ==
    /\ Init
    /\ disk = [i \in Identifier |-> Absent]
    /\ stage = "idle" /\ todo = Nothing /\ behind = FALSE /\ lost = {}

Distinct(files) == \A f, g \in files : Id[f] = Id[g] => f = g
PicoNext ==
    \/ \E files \in {F \in SUBSET Package : Distinct(F)}, o \in BOOLEAN : Install(files, o)
    \/ InstallOne \/ InstallFails
    \/ \E S \in SUBSET Identifier : Uninstall(S) \/ UninstallFails(S)
    \/ LoadNext \/ Crash \/ Restart
    \/ stage = "idle" /\ (Query \/ Tick) /\ UNCHANGED pico

PicoSpec == PicoInit /\ [][PicoNext]_<<vars, pico>>

-----------------------------------------------------------------------------
PicoTypeOK ==
    /\ TypeOK
    /\ disk \in [Identifier -> [xml : Package \cup {None, Broken}, yml : Package \cup {None, Broken}]]
    /\ stage \in {"idle", "install", "load", "down"}
    /\ todo.first \cup todo.then \subseteq Package /\ Range(todo.load) \subseteq Installed
    /\ behind \in BOOLEAN /\ lost \subseteq Identifier

(* After an operation that came to its end, whatever failed before it, the *)
(* terminology is what is installed and nothing else, and all of its       *)
(* namespaces have a name.  An operation that raises or is refused at the  *)
(* start does not touch it.                                                *)
LoadedIsInstalled ==
    stage = "idle" /\ ~behind =>
        /\ graph = Base \cup {disk[i].xml : i \in Installed}
        /\ \A i \in Installed : \A b \in Range(Names[disk[i].yml]) : b[2] \in DOMAIN namespaces

(* What an installed package requires is installed as well, as far as no   *)
(* failure and no removal of a package with a shorter name took it away;   *)
(* what they took is missing until it is installed again, which installing *)
(* the package that requires it does not do.                               *)
RequirementsInstalled ==
    stage # "install" =>
        \A i \in Installed : RequiresOf(i) \subseteq Installed \cup lost

(* A package is loaded after all of its requirements that are installed.   *)
RequirementsFirst ==
    stage = "load" => \A i \in Installed \ Range(todo.load) :
        RequiresOf(i) \cap Range(todo.load) = {}
=============================================================================
