----------------------------- MODULE Terminology -----------------------------
(***************************************************************************)
(* The terminology (T-box) of a session: the ontologies loaded into it,    *)
(* the names of its namespaces, and the answers about its entities, which  *)
(* the program caches.  A cache has the time of its first answer and is    *)
(* emptied at the next question when the session was changed at that time  *)
(* or later; the clock may stand still while a lot happens.                *)
(*                                                                         *)
(* A question that needs the answer to another one (the attributes of a    *)
(* class, those of its superclasses) can be asked here when that one is    *)
(* cached: the nested call is a step of its own that comes first.          *)
(***************************************************************************)
EXTENDS Integers, FiniteSets, Sequences, Functions

CONSTANTS
  File,       \* ontologies, as parsers give them
  Base,       \* those that are part of every terminology
  Entity,     \* classes, relationships, attributes, annotations
  Kind,       \* entity -> which of them it is
  Top,        \* kind -> its most general entity, None for annotations
  Iri, Name, Word, Individual, None,
  Declares,   \* file -> its entities
  SubOf,      \* file -> pairs of an entity and a more general one
  Restricts,  \* file -> triples of a class, an attribute and a default
  Domains,    \* file -> pairs of an attribute and a class
  Names,      \* file -> sequence of pairs of a name and an IRI
  Within,     \* IRI -> entities whose identifiers begin with it
  Rdfs,       \* classes that are declared in RDFS only
  Labelled,   \* word -> entities with that label
  Suffix,     \* IRI -> word -> the entity with that IRI and suffix, or None
  Keywords,   \* attribute -> words that stand for it in a call
  Falsy,      \* defaults that are false in Python, None included
  Programs,   \* what a program asks, which names it binds, whom it edits
  MaxClock    \* bound on the clock

ASSUME TerminologyAssumption ==
    /\ Base \subseteq File /\ MaxClock \in Nat
    /\ Names \in [File -> Seq(Name \X Iri)]
    /\ None \notin Iri \cup Word \cup Entity /\ None \notin Nat

(* Ontologies are finite, and put nothing above the most general entity.   *)
ASSUME OntologyAssumption ==
    /\ IsFiniteSet(Entity) /\ SubOf \in [File -> SUBSET (Entity \X Entity)]
    /\ \A f \in File : \A s \in SubOf[f] : s[1] # s[2] => s[1] # Top[Kind[s[1]]]

Methods == {"own", "direct", "attributes", "optional", "superclasses",
            "subclasses", "namespace", "labelled", "get", "individual"}

(* Only classes have attributes, and only individuals have a class.        *)
ASSUME ProgramAssumption ==
    \A p \in Programs :
        /\ p.binds \subseteq Iri
        /\ \A q \in p.asks :
              /\ q.method \in Methods
              /\ q.method \in {"own", "attributes", "optional"} =>
                    q.self \in Entity /\ Kind[q.self] = "class"
              /\ q.method = "individual" => q.self \in Individual

VARIABLES
  graph,      \* files that are loaded
  namespaces, \* IRI -> name
  clock, stamp,
  dataStamp,  \* of the session with the individuals, None until it is cleared
  types,      \* individual -> its classes
  held,       \* cache -> its time
  cached,     \* question -> answer
  since,      \* history: what happened that caches do not notice
  program     \* the one that is running

terminology == <<graph, namespaces, clock, stamp, since>>
vars == <<terminology, dataStamp, types, held, cached, program>>

-----------------------------------------------------------------------------
(* What the graph says.                                                    *)

Class     == {e \in Entity : Kind[e] = "class"}
Attribute == {e \in Entity : Kind[e] = "attribute"}

All(statements) == UNION {statements[f] : f \in graph}
Declared == All(Declares)

Reach(R, c) ==
    LET step[n \in 0..Cardinality(R)] ==
            IF n = 0 THEN {c}
            ELSE LET S == step[n - 1] IN S \cup {r[2] : r \in {s \in R : s[1] \in S}}
    IN  step[Cardinality(R)]

(* What one step or more lead to: `transitiveClosure' starts with the next *)
(* nodes, and yields the first one only if a cycle leads back to it.       *)
Beyond(R, c) == UNION {Reach(R, r[2]) : r \in {s \in R : s[1] = c}}

(* Entities found for one of a kind.  One that is not in the terminology   *)
(* raises.  Another kind raises for relationships, is left out for classes *)
(* and attributes, and is taken for annotations.                           *)
Found(kind, S) ==
    LET same == {e \in S : Kind[e] = kind}
    IN  IF ~(S \subseteq Declared) \/ (kind = "relationship" /\ same # S) THEN {}
        ELSE IF kind = "annotation" THEN {S} ELSE {same}

(* The entity itself comes first and is not looked up: a handle may have   *)
(* outlived its declaration.                                               *)
Closure(c, S) == {{c} \cup F : F \in Found(Kind[c], S)}

TopOf(c) == {Top[Kind[c]]} \ {None}
DirectSuperclasses(c) == {s[2] : s \in {r \in All(SubOf) : r[1] = c}}
Superclasses(c) == Beyond(All(SubOf), c) \cup TopOf(c)
FaultySubclasses(c) == {s[1] : s \in {r \in All(SubOf) : r[2] = c}}
Subclasses(c) ==
    IF c \in TopOf(c)
    THEN {e \in Declared \ Rdfs : Kind[e] = Kind[c]}
    ELSE Beyond({<<s[2], s[1]>> : s \in All(SubOf)}, c)

(* An attribute on which a class has any restriction is obligatory.        *)
Defaults(c, a) == {r[3] : r \in {s \in All(Restricts) : s[1] = c /\ s[2] = a}}
OwnAttributes(c) == {a \in Attribute \cap Declared : Defaults(c, a) # {}}
OwnOptional(c) == {a \in Attribute \cap Declared : <<a, c>> \in All(Domains)}

Choices(C) == {f \in [DOMAIN C -> UNION Range(C)] : \A a \in DOMAIN C : f[a] \in C[a]}

(* `x or y' for one value after the other: the first that is not false.    *)
Truthy(V) == IF V \subseteq Falsy THEN V ELSE V \ Falsy

(* What is inherited fills in what is missing or false.                    *)
FaultyInherit(own, inherited) == {own}
Inherit(own, inherited) ==
    LET D == DOMAIN own \cup UNION {DOMAIN f : f \in inherited}
        From(a) == Truthy({f[a] : f \in {g \in inherited : a \in DOMAIN g}})
        Value(a) == IF a \in DOMAIN own /\ (own[a] \notin Falsy \/ From(a) = {})
                    THEN {own[a]} ELSE From(a)
    IN  Choices([a \in D |-> Value(a)])

OwnDefaults(c) == Choices([a \in OwnAttributes(c) |-> Defaults(c, a)])

NamespacesOf(c) ==
    LET found == {i \in DOMAIN namespaces : c \in Within[i]}
    IN  IF found = {} THEN {None} ELSE found

Lookup(i, w, found) ==
    LET bySuffix == {Suffix[i][w]} \cap Declared \cap Within[i]
        entities == (found \cap Within[i]) \cup bySuffix
    IN  IF Cardinality(entities) = 1 THEN entities ELSE {}

-----------------------------------------------------------------------------
(* Questions, each about an entity, and the cache that its answer is in.   *)

Question(method, x, w) == [method |-> method, self |-> x, word |-> w]
About(method, x) == Question(method, x, None)
Cache(q) == <<q.method, q.self>>

StampOf(q) ==
    CASE q.method = "labelled"   -> None
      [] q.method = "individual" -> dataStamp
      [] OTHER -> stamp
FaultyExpired(q) == StampOf(q) # None /\ held[Cache(q)] < StampOf(q)
Expired(q) == StampOf(q) # None /\ held[Cache(q)] <= StampOf(q)
Valid(q) == q \in DOMAIN cached /\ ~Expired(q)

(* The calls inside the computation of an answer that are cached too.      *)
Needs(q) ==
    LET c == q.self  direct == About("direct", c)
    IN  CASE q.method = "attributes" ->
                 {About("own", c), direct} \cup
                 IF direct \in DOMAIN cached
                 THEN {About("attributes", d) : d \in cached[direct]} ELSE {}
          [] q.method = "optional" ->
                 {direct} \cup IF direct \in DOMAIN cached
                              THEN {About("optional", d) : d \in cached[direct]} ELSE {}
          [] q.method = "individual" -> {About("superclasses", d) : d \in types[c]}
          [] q.method = "get" -> IF Labelled[q.word] \cap Declared = {} THEN {}
                                 ELSE {Question("labelled", None, q.word)}
          [] OTHER -> {}

(* The answers that may be computed; none if the computation raises, as    *)
(* it does when a superclass, or a class of an individual, is not in the   *)
(* terminology.                                                            *)
Answers(q) ==
    LET c == q.self
        word == Question("labelled", None, q.word)
    IN  CASE q.method = "own" -> OwnDefaults(c)
          [] q.method = "direct" -> Found(Kind[c], DirectSuperclasses(c))
          [] q.method = "attributes" ->
                 Inherit(cached[About("own", c)],
                         {cached[About("attributes", d)] : d \in cached[About("direct", c)]})
          [] q.method = "optional" ->
                 {OwnOptional(c) \cup
                  UNION {cached[About("optional", d)] : d \in cached[About("direct", c)]}}
          [] q.method = "superclasses" -> Closure(c, Superclasses(c))
          [] q.method = "subclasses" -> Closure(c, Subclasses(c))
          [] q.method = "namespace" -> NamespacesOf(c)
          [] q.method = "labelled" -> {Labelled[q.word] \cap Declared} \ {{}}
          [] q.method = "get" ->
                 Lookup(c, q.word, IF word \in DOMAIN cached THEN cached[word] ELSE {})
          [] q.method = "individual" ->
                 IF types[c] \subseteq Declared
                 THEN {UNION {cached[About("superclasses", d)] : d \in types[c]}} ELSE {}

(* What the answers should be, from the graph alone.  Attributes come from *)
(* classes above with nothing but classes in between.  A class is open for *)
(* a default from above if it has none, or may have one that is false; one *)
(* that is false is the answer only if no class on the way has a better    *)
(* one.                                                                    *)
Lineage == {s \in All(SubOf) : Kind[s[1]] = "class" /\ Kind[s[2]] = "class"}
Ancestors(c) == Reach(Lineage, c)
Open(d, a) == Defaults(d, a) = {} \/ Defaults(d, a) \cap Falsy # {}
Sources(c, a) == Reach({s \in Lineage : Open(s[1], a)}, c)
Inherited(c, a) ==
    LET D == UNION {Defaults(d, a) : d \in Sources(c, a)}
    IN  IF \A d \in Sources(c, a) : Open(d, a) THEN D ELSE D \ Falsy

AllAttributes(c) == UNION {OwnAttributes(d) : d \in Ancestors(c)}
AllDefaults(c)   == Choices([a \in AllAttributes(c) |-> Inherited(c, a)])

Fresh(q) ==
    LET c == q.self
    IN  CASE q.method = "attributes" -> AllDefaults(c)
          [] q.method = "optional" -> {UNION {OwnOptional(d) : d \in Ancestors(c)}}
          [] q.method = "get" -> Lookup(c, q.word, Labelled[q.word] \cap Declared)
          [] q.method = "individual" -> {UNION {UNION Closure(d, Superclasses(d)) : d \in types[c]}}
          [] OTHER -> Answers(q)

-----------------------------------------------------------------------------
(* The ontologies and the names.                                           *)

Rebinds(ns, n, i) == [x \in DOMAIN ns \cup {i} |-> IF x = i THEN n ELSE ns[x]]
Conflict(ns, n, i) == \E x \in DOMAIN ns \ {i} : ns[x] = n

(* The names of a file one by one, as far as there is no conflict.         *)
BindAll(ns, names) ==
    LET after[k \in 0..Len(names)] ==
            IF k = 0 THEN [namespaces |-> ns, raised |-> FALSE]
            ELSE LET so == after[k - 1] n == names[k][1] i == names[k][2]
                 IN  IF so.raised \/ Conflict(so.namespaces, n, i)
                     THEN [so EXCEPT !.raised = TRUE]
                     ELSE [so EXCEPT !.namespaces = Rebinds(@, n, i)]
    IN  after[Len(names)]

Unnoticed == {"interrupted", "rebound"}
Noticed == since \ Unnoticed

(* The cache of labels has no time: loading and clearing empty it.         *)
WithoutLabels == [q \in {p \in DOMAIN cached : p.method # "labelled"} |-> cached[q]]

(* The graph grows before the names are bound, and the caches are told     *)
(* after: a name that is taken stops it in between.                        *)
LoadParser(content, config) ==
    LET bound == BindAll(namespaces, Names[config])
    IN  /\ graph' = graph \cup {content}
        /\ namespaces' = bound.namespaces
        /\ IF bound.raised
           THEN since' = since \cup {"interrupted", "reloaded"} /\ UNCHANGED <<stamp, cached>>
           ELSE /\ since' = Noticed \cup {"reloaded"}
                /\ stamp' = clock
                /\ cached' = WithoutLabels

(* The base ontologies have names that nobody else has bound by then.      *)
BaseNames ==
    LET all == UNION {Range(Names[f]) : f \in Base}
    IN  [i \in {b[2] : b \in all} |-> CHOOSE n \in Name : <<n, i>> \in all]
Clear ==
    /\ graph' = Base
    /\ namespaces' = BaseNames
    /\ stamp' = clock
    /\ cached' = WithoutLabels
    /\ since' = Noticed \cup {"reloaded"}

Bind(n, i) ==
    /\ ~Conflict(namespaces, n, i)
    /\ namespaces' = Rebinds(namespaces, n, i)
    /\ since' = since \cup {"rebound"}
    /\ UNCHANGED <<graph, clock, stamp, dataStamp, types, held, cached, program>>

Unbind(x) ==
    /\ namespaces' = [i \in {j \in DOMAIN namespaces : namespaces[j] # x /\ j # x}
                        |-> namespaces[i]]
    /\ since' = since \cup {"rebound"}
    /\ UNCHANGED <<graph, clock, stamp, dataStamp, types, held, cached, program>>

Tick == clock < MaxClock /\ clock' = clock + 1
        /\ UNCHANGED <<graph, namespaces, stamp, since, dataStamp, types, held, cached, program>>

-----------------------------------------------------------------------------
(* A question whose answer is not in a valid cache.  The attributes of a   *)
(* class are collected in the dictionary of its own ones, which is cached. *)
Ask(q) ==
    LET h == Cache(q)
        renewed == h \notin DOMAIN held \/ Expired(q)
        kept == {p \in DOMAIN cached : ~renewed \/ Cache(p) # h}
        own == About("own", q.self)
    IN  /\ ~Valid(q)
        /\ \A p \in Needs(q) : Valid(p)
        /\ held' = IF renewed
                   THEN [x \in DOMAIN held \cup {h} |-> IF x = h THEN clock ELSE held[x]]
                   ELSE held
        /\ \E v \in Answers(q) :
              cached' = [p \in kept \cup {q} |->
                            IF p = q \/ (q.method = "attributes" /\ p = own)
                            THEN v ELSE cached[p]]
        /\ UNCHANGED <<terminology, dataStamp, types, program>>

(* The other session: its individuals get other classes, are deleted and   *)
(* created again; its caches know only of its clearing.                    *)
Classify(i, C) ==
    /\ C \subseteq Declared \cap Class
    /\ types' = [types EXCEPT ![i] = C]
    /\ since' = since \cup {"reclassified"}
    /\ UNCHANGED <<graph, namespaces, clock, stamp, dataStamp, held, cached, program>>
ClearData ==
    /\ dataStamp' = clock
    /\ types' = [i \in Individual |-> {}]
    /\ since' = since \ {"reclassified", "reloaded"}
    /\ UNCHANGED <<graph, namespaces, clock, stamp, held, cached, program>>

Init ==
    /\ graph = Base /\ namespaces = BaseNames
    /\ clock = 0 /\ stamp = 0 /\ dataStamp = None
    /\ types = [i \in Individual |-> {}]
    /\ held = <<>> /\ cached = <<>> /\ since = {}
    /\ program \in Programs

Load == \E f \in File \ Base :
    LoadParser(f, f) /\ UNCHANGED <<clock, dataStamp, types, held, program>>
Reset == Clear /\ UNCHANGED <<clock, dataStamp, types, held, program>>
Rename == \E n \in Name \cup {None}, i \in program.binds : Bind(n, i)
Forget == \E x \in Name \cup {None} \cup program.binds :
              program.binds # {} /\ Unbind(x)
Query == \E q \in program.asks : Ask(q)
EditData == \E i \in program.edits : ClearData \/ \E C \in SUBSET Class : Classify(i, C)

Next == Load \/ Reset \/ Rename \/ Forget \/ Query \/ EditData \/ Tick

Spec == Init /\ [][Next]_vars

-----------------------------------------------------------------------------
(* The words of a call become values of attributes, the optional ones      *)
(* first; a word stands for one attribute, whatever else has that label.   *)
(* A call fails if an obligatory attribute or a word is left over; only    *)
(* `_force' lets it pass, and then defaults are used.                      *)
Call(c, words, force) ==
    LET defaults   == cached[About("attributes", c)]
        obligatory == DOMAIN defaults
        optional   == cached[About("optional", c)]
        Given(D) == Choices([a \in D |-> Keywords[a] \cap words])
        Complete(m) ==
            LET D == DOMAIN m
                Taken(S) == {m[a] : a \in S \cap D}
            IN  /\ \A a, b \in D : m[a] = m[b] => a = b
                /\ \A a \in (obligatory \cup optional) \ D :
                      Keywords[a] \cap words \subseteq
                          Taken(IF a \in optional THEN optional ELSE Attribute)
                /\ force \/ (obligatory \subseteq D /\ words \subseteq Taken(D))
        matches == {m \in UNION {Given(D) : D \in SUBSET (obligatory \cup optional)} :
                       Complete(m)}
        missing(m) == {a \in obligatory \ DOMAIN m : defaults[a] # None}
    IN  {[a \in DOMAIN m \cup missing(m) |-> IF a \in DOMAIN m THEN m[a] ELSE defaults[a]] :
            m \in matches}

TypeOK ==
    /\ Base \subseteq graph /\ graph \subseteq File
    /\ namespaces \in [DOMAIN namespaces -> Name \cup {None}]
    /\ DOMAIN namespaces \subseteq Iri
    /\ clock \in 0..MaxClock /\ stamp \in 0..clock /\ dataStamp \in {None} \cup 0..clock
    /\ types \in [Individual -> SUBSET Class]
    /\ DOMAIN cached \subseteq program.asks /\ {Cache(q) : q \in DOMAIN cached} \subseteq DOMAIN held
    /\ since \subseteq Unnoticed \cup {"reclassified", "reloaded"}

(* The answer to a question is what the graph says now, whenever it was    *)
(* cached and however the clock has moved, and whatever was inherited on   *)
(* the way.  Four things pass the caches by: a name that a load could not  *)
(* bind leaves them as they were; binding and unbinding leaves the         *)
(* namespaces of entities, which still contain them; and what the superclasses of *)
(* an individual are, and with it its operations, stays what it was at the *)
(* first question when it gets other classes or is deleted, and when an    *)
(* ontology is loaded.                                                     *)
CachedFresh ==
    \A q \in DOMAIN cached :
        Valid(q) /\ q.method # "own" /\ "interrupted" \notin since =>
            \/ cached[q] \in Fresh(q)
            \/ q.method = "namespace" /\ "rebound" \in since
                 /\ (cached[q] = None \/ q.self \in Within[cached[q]])
            \/ q.method = "individual" /\ {"reclassified", "reloaded"} \cap since # {}

(* The caches hold answers to questions that were asked, no newer than the *)
(* clock, and those that count as valid are right.                         *)
CachesConsistent == TypeOK /\ CachedFresh

(* The part of it that no other cache and no other session has a say in:   *)
(* what is below and above an entity, and what a label stands for.         *)
Lookups == {"direct", "superclasses", "subclasses", "labelled"}
LookupsFresh ==
    \A q \in DOMAIN cached :
        q.method \in Lookups /\ Valid(q) /\ "interrupted" \notin since
        => cached[q] \in Answers(q)

(* Asking upwards and asking downwards is the same, also with entities of  *)
(* another kind or missing in between; and a superclass brings all of its  *)
(* own.                                                                    *)
ClosuresAgree ==
    LET Up(c) == Answers(About("superclasses", c))
        Down(d) == Answers(About("subclasses", d))
        up == UNION {{c} \X (UNION Up(c)) : c \in Declared}
        down == UNION {(UNION Down(d)) \X {d} : d \in Declared}
        comparable == {p \in {u[1] : u \in up} \X {v[2] : v \in down} :
            Kind[p[1]] = Kind[p[2]] /\ ~(p[1] \in Rdfs /\ p[2] \in TopOf(p[2]))}
    IN  /\ up \cap comparable = down \cap comparable
        /\ \A p, r \in up :
              p[2] = r[1] /\ Kind[p[1]] = Kind[r[1]] => <<p[1], r[2]>> \in up

(* An individual that could be created, without force, has a value for     *)
(* everything that its class or a class above it restricts, one for each   *)
(* word; with force it has every default that is not hidden by another.    *)
CreationComplete ==
    \A c \in Class : LET q == About("attributes", c) IN
        /\ "interrupted" \notin since
        /\ \A p \in {q, About("optional", c)} : p \in program.asks /\ Valid(p)
        => \A W \in SUBSET Word :
              /\ \A m \in Call(c, W, FALSE) :
                    /\ AllAttributes(c) \subseteq DOMAIN m
                    /\ Cardinality(DOMAIN m) = Cardinality(W)
              /\ \A m \in Call(c, W, TRUE) : \E f \in Fresh(q) :
                    \A a \in DOMAIN f \ {b \in DOMAIN f : f[b] = None} : a \in DOMAIN m
=============================================================================
