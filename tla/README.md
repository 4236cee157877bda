# A verification project for SimPhoNy OSP

SimPhoNy OSP is a Python library in which ontology individuals live in sessions. A session is a
transactional view of an RDF graph: changes are buffered, read back through the buffers, and reach
a backend (a data space, a database, a simulation engine, a remote server) at the next commit. This
directory holds TLA+ modules translated from `src/simphony_osp`, the configurations with which TLC
checks them, and proofs that TLAPS checks.

## 1. Inventory

| part | state | operations | correct when |
|---|---|---|---|
| base graph store (`BufferedSimpleMemoryStore`) | memory, two buffers | add, remove, triples, commit, rollback, open, close | a query reads what a commit would store; the buffers are disjoint |
| interface driver (`InterfaceDriver`) | two pairs of buffers (caught and uncaught), the state of a commit, the entities reported | add, remove, triples, commit, rollback, compute, open, close | reads do not change during a commit, a commit stores what was read, a rollback forgets it |
| entity tracking | the lists added, updated, deleted | one pass per commit | the lists describe the transaction |
| triple cache | cached triples, cached patterns, access order | a query fills, a prefetch fills, a commit refills, eviction | cached answers equal the backend's, size is bounded, queries do not fail because of the cache |
| file queue and data space | queue of byte streams, copies of queued files, files on disk | queue, load, save, delete | what was uploaded last is stored, nothing else is touched |
| interface contract (`Interface`) | the wrapper's own | add, remove, triples, commit, compute, files | what the driver and a wrapper owe each other |
| environments (`Environment`) | default stack, registered environments, subscribers, locks | enter, exit, lock, close | closing reaches every dependent environment exactly once; nothing in use is closed |
| containers | environment it is opened in, references | open, close, add, remove, iterate | open only while its session is; members are references that exist |
| session data | triples of the graph | add, delete, get, iter, clear, sets of individuals | sets of individuals obey set algebra, for individuals of this and of other sessions |
| individuals | triples of one subject | attributes, relationships, annotations, connect, disconnect, labels, classes | edits touch the statements of their predicate only; set algebra; all ways to read agree |
| terminology (classes, relationships, attributes) | none but caches | closures of super- and subclasses, attributes of a class, creation of individuals | both directions agree; an individual is created with what its class asks for |
| timestamped caches | one cache and timestamp per object | call, change of the session | an answer that counts as valid is what the graph says |
| namespaces | name of each IRI | bind, unbind, look up | one IRI for a name, lookups of what is loaded |
| remote interface: client, server, engine | buffers at both ends, one interface per connection, message blocks | requests and replies over a websocket | a remote session behaves as a local one, connection losses included |
| pico | two files for each installed package | install, uninstall, reload | requirements of installed packages are installed, and loaded first; the terminology is what is installed |
| search | visited individuals, suspended calls | find, next | all that is connected and matches is found, and nothing else; it ends |
| parsers, import and export, display, operations catalog | none | pure functions and I/O | - |

The parts interact by calls. The session calls the driver as an rdflib store; the driver calls the
`Interface` of a wrapper, the base graph and the files in turn; in a remote session the base graph
is a client that sends what it is asked to a server, which calls another interface. There is one
thread per process. What makes the code hard is not parallelism but *sequences with failures*: a
commit makes six kinds of calls into code that may raise (interface, base graph, its commit, saving,
deleting, refilling the cache), buffers are emptied only at the very end, and the user may then
retry, roll back, go on writing, close or reopen. Prefetching runs between the queries of a session
under a time limit, and caches overlap. On the side of the data and of the ontologies the same pattern
returns: values are converted one after the other while they are stored, a merge reads a generator while
it writes, a search is suspended between two results, packages are written file by file. The hazards in PROJECT.json are these, each at its line.
Where the code does what a hazard warns of, no property can forbid it: the properties excuse it by a history
variable, or state what remains true all the same, and the note of the hazard says which.

## 2. What is modelled

**Triples** fixes what the other modules share: triples as triples of *Subject*, *Predicate* and
*Object*, patterns with the wildcard *None*, matching and the order of patterns. The only assumption
is that None is none of the three.

**TransactionalStore** is the abstract specification: what is stored and what a session sees, an
addition and removal of what is seen, a commit that stores it, a rollback that forgets it. `Spec` is
the store of a program without a backend behaviour of its own; `BackendSpec` adds two steps: a
commit that stores what is seen but then raises (*Persist*, the changes stay pending), and a
simulation (*Simulate*).

**BufferedStore** models `BufferedSimpleMemoryStore`. `mem`, `bAdded` and `bDeleted` are the memory
and the two buffers of the code; `Working` is the result of `triples`. `BaseSpec` is the store by itself, which
the run *buffered_store* checks; its names leave room for the modules that build on it.

**InterfaceDriver** models `InterfaceDriver` over a base graph that is itself a BufferedStore
(which it extends: its steps on the base graph are AddAll, RemoveAll, Commit and Discard). A wrapper catches a fixed set of triples and keeps them in data structures
of its own (constant *Caught*, variable `ext`). `stage` walks through a commit: the entity lists
are computed, the interface is called, removals and additions are put in the base graph, the base
graph commits, files are handled, buffers are emptied. Every one of these calls is an action, and
every call that may raise is a second one, after which the user is free to do anything. *Typed*
triples stand for `rdf:type` statements, which decide whether `from_identifier` finds an
individual: a lookup that fails is `LookupRaises`. The constant *Faults* names the calls that may
raise, of interface, base graph, files and simulation; each does so at any point.

**TripleCache** models the cache inside the driver, with the backend as a set of triples. What a miss
fills, which patterns `_fill` evicts (`patterns` is the set of cached patterns, `older` the order of
their dates: the code only ever compares dates), the sizes of `_fill` and `_compute_space`, the three queries of a prefetch and its subject-by-subject fills, and
the refills of a commit are modelled as in the code; the time limit of a prefetch is `PrefetchEnd`,
possible after any query. The history variable `blame` records which of four events that spoil
the cache have happened. An event is recorded where the code's step happens, and the
properties say what holds until then.

**FileQueue** models the file side of the driver on a data space. A byte stream is fresh, spent or
closed; a copy of a queued file is made when it is read. Every save or deletion is a step that may
raise. `latest` and `cut` are history variables: what was last queued for a file, and the files
whose stream a save that raised has cut short. FileQueue does not refine the files stage of
InterfaceDriver formally: there the stage is one call that returns or raises.

**Environments** models sessions and containers as environments. `stack` is the stack of context
managers, `registered` the list of environments that exist, `subscribers` and `parent` the two directions of
"opened in", `linked` the session a container fetches from, `opensIn` the property `opens_in`, `locks`
and `userLock` the two kinds of lock. `OpenIn` is the recursive call that opens a closed
container, the one that it opens in, and so on: `Chain` is the sequence of environments of the nested calls,
`Calls` those that change something. Entering, leaving, locking, opening, closing and replacing
the default session are one action each. The loop of `close` over its subscribers raises in its
first iteration, because a container that closes removes itself from the set that is iterated;
`Close` is therefore one environment closed per call. An operation that raises before it has changed
anything is not a step. The branches of `open` and `opens_in` for an IRI are dead code, as no
environment has the attribute they ask for. The history variable `reopened` holds the containers that were
opened in a second place without being closed in the first.

**RemoteStore** models `RemoteStoreClient`, the connection, and the part of `InterfaceServer` that works on
the base graph of the server's interface, which is a BufferedStore again (`Base`). A commit sends three
requests (`stage` is the one it waits for); each is handled by the server, or raises there with a
part of its triples in the buffers (*HandleRaises*). The connection may break at any moment with
a request or a reply on it; a request that the server has received is handled all the same. The
server then closes the interface, which discards its buffers (*Disconnect*). A `RemoteInterface`
that was closed cannot be opened again (the next request connects without authenticating and is refused), so
*Open* is a new one. `Falsy` holds the objects that are false in Python. `intended` is a history
variable, what was read when commit was called, and so is `tried`: a commit over this connection raised and
none has returned since.

**ObjectSets, IndividualData, SessionData, Individuals** model what users do to a session's graph, which is
the only variable. An operation is a function from a graph to the set of its *outcomes*, each a graph and
whether the operation raised. Python sets have no order and values are handled one at a time, so an
operation that raises has as many outcomes as there are parts of it that may have been done. `ObjectSets`
has the three kinds of sets (`AttributeSet`, `RelationshipSet` with its filter, inverse and subclasses,
`AnnotationSet`) with their four in-place operations; `IndividualData` the set protocol that they share,
`individual[...]`, `individual.name`, connect, disconnect, get, iter, classes and labels; `SessionData` add
with its three flags, delete, the creation of individuals, `SessionSet`, and the members and references of
containers. `Individuals` is the machine: any operation, then any other. `Python`, `Cast` and `LiteralOf` are
what conversions do: an attribute with a datatype turns one value into another literal, or refuses it.
The assumptions are what the code relies on: predicates of different kinds are different, and so are individuals,
classes, literals and handles of other sessions; a conversion is stable (a stored literal is read as a value that is
stored as the same literal), every literal has a Python value, and what another session or a user hands over
has been stored in the same way (*Stored*). What comes from parsed files may not be, and is not modelled here.

**Terminology** models an ontology session: the loaded files, the names of namespaces, and the answers of
all functions that are decorated with `lru_cache_timestamp` or `lru_cache_weak`. A *question* is a method, its
object and perhaps a word; `held` is the time of the cache that its answer is in, `cached` the answers. A
cached function that calls another one can be asked when that one has a valid answer: the nested call is a
step before it. The clock advances independently of everything else (*Tick*), so that any number of changes
and questions may have the same time. `attributes` writes into the cached dictionary of a class's own
attributes, as the code does. `Call` is the match of the keyword arguments of `Class(...)`. The history
variable `since` names what happened that the caches are not told.

**Packages** composes Terminology with Pico. The directory is `disk`, a graph and a configuration for each
identifier; an operation is one step to decide, then one for each file, each of which may be cut short by an
exception (*InstallFails*, *UninstallFails*) or by the end of the process (*Crash*), then one for each
package that is loaded again. `Explored` is the depth-first search for requirements, as the least set
that it is closed under, and `Sortings` Kahn's algorithm with all orders it may choose; `LoadOrders` sorts the
packages by their places in such an order. The steps on the
terminology are those of Terminology (`Clear`, `LoadParser`, `Query`, `Tick`). The history variables are
`behind` (an operation did not reach its end since the last complete loading) and `lost` (identifiers
that a failure, or the removal of a package with a shorter name, left uninstalled).

**Search** models the generator `_iter`: the stack of its suspended calls, the set of visited individuals
that they share, and what has been yielded. The program may change a connection whenever the generator waits. `ever`
and `edits` are history variables: all connections there have been, and how many were changed. `broken` are those whose
connections cannot be read: an individual with a statement about something that the session or the terminology does not
know, for which `annotations_iter` raises, or another entity that an annotation led to, which has no method to read
them. The program may change that, too. Reaching one of them less deep than the maximum ends the generator (*Fail*, `raised`).

### Abstractions and bounds

* Triples, files and individuals are model values: two subjects, a typing and an untyped predicate and
  one or two objects are enough to tell apart *the* triple, one of the same individual, one of another
  individual, and to make patterns overlap.
* rdflib's graphs are sets. Iteration order over Python dictionaries and sets is any order.
* Which triples a wrapper catches does not change over time.
* The memory of the base graph survives close and open, as a database file does. With a store that
  starts empty, reopening is a new Init.
* Interrupting a loop inside a commit is possible between its calls, not inside the base graph.
* A container is one Python object; two objects for one individual have separate states in the code too.
  Weak references to environments are alive. All sessions exist from the start.
* In Environments the bounds are two sessions, two containers, one of which may open in itself or in
  which the other one opens by default (*Places*), one environment that is locked, at most once
  (*MaxLocks*), a stack of three (*MaxDepth*: the bottom, and one context inside another), and no lock while two
  contexts are nested or a container has an `opens_in` of its own (*LocksNearTheTop*, a constraint of the run:
  the code looks at locks only when the last context of an environment is left).
* In Individuals there are two individuals, three values (one that is refused, one that is converted), a typed
  literal in a language, a relationship with a subclass and its inverse, at most three triples (*MaxTriples*), two of which are not types (*MaxStatements*), and every
  state is checked for every operation on every argument, so that an operation that leaves the bound is still judged by
  its outcome. The terminology is fixed there: known entities, their subclasses and inverses are constants.
* In Terminology the clock has two values (*MaxClock*): only whether two times are the same or in order matters,
  and any question and change may come on either side. A program asks a fixed set of questions (*Programs*), six in
  the instance, each about an object that has the method (*ProgramAssumption*); *Relevant* cuts combinations of files that add nothing to a program's questions.
* In Packages no operation follows once the files of two packages do not fit together (*FewDamaged*).
* In Search the graphs are all on three individuals, and those on four with a detour and a cycle; two changes while it
  runs (*MaxEdits*); the connections of one individual, or of none, cannot be read at the beginning, those of any after a change.
* In RemoteStore there is one connection at a time. Databases outlive connections: `mem` is kept by *Disconnect*.
  The bytes of a message are not modelled.

### Fairness

FileQueue's `CommittingSpec` and Search assume some. FileQueue: weak fairness of Commit, of the file steps and of the
end of a commit, strong fairness of each Save. The program has one thread, so a commit that was called
runs until it returns or raises; that the user calls commit again, and that a disk does not refuse the
same file for ever, are hypotheses of the property, not promises of the code. Search: weak fairness of
the generator's steps, which says that the program keeps asking for the next result, as a `for` loop does; it
may go on changing the graph. All other properties are safety properties.

## 3. What the runs show

| run | question | instance |
|---|---|---|
| buffered_store | does the base graph implement the abstract store, and do queries read pending changes? | all contents of four triples |
| driver_backend | does the driver implement the abstract store when interface and files raise anywhere, and are the reported entities right? | two individuals, each spread over base graph and wrapper |
| driver_faults | do reads stay the same through commits that raise anywhere, base graph and simulation included, and is a commit complete? | the same with one caught triple |
| cache | what does the cache answer, how large does it get, what can be evicted? | two individuals, three properties, three overlapping queries, one or two triples more than fit |
| files | is what was uploaded last delivered, through reads, failures and retries, and are uploads sent? | two files, two contents |
| environments | do containers and the environments they are open in agree, and does closing get anywhere? | two sessions, two containers |
| remote | is a remote commit atomic and invisible when requests raise or the connection breaks, and what stays at the server? | three triples |
| remote_falsy | does a removal in a remote session remove what matches its pattern? (no; see below) | two objects, one false |
| individuals | do edits touch only what they are asked to, do the sets of an individual and of a session follow set algebra, and do all ways to read agree? | two individuals, two attributes, three relationships, one annotation |
| terminology | are cached answers right through loads, failed loads, resets and a coarse clock; do both directions of the closures agree; is what is created complete? | four files; classes, attributes, a relationship and an annotation; six programs |
| packages | is the terminology what is installed, are requirements installed and loaded first, are lookups fresh, through failures and crashes between any two files? | three identifiers, one a prefix of another; four packages, with a cycle and a name conflict |
| search | is everything found, nothing else, not too often, and does it end? | 72 graphs of three and four individuals, three depths |

Each instance is explored to its end; nothing but its sets (and the bounds above)
limits it. `CacheConsistent`, `SubscribersConsistent`, `QueueConsistent` and `CachesConsistent` join the type
invariant of their module to the consistency of its state. The driver and the files start in *every* state the constants allow, so no behaviour is cut by a short history. The bounds are the smallest
at which the interesting cases occur: a file saved before another one fails (two files), an individual
of which a part is in the interface (two triples of one individual) next to an unrelated one, two
patterns with a triple in common and a third one, an entity that is fetched ahead into a cache that
is almost full (so that `PrefetchRaise` occurs), a container open in another that is open in a session, entered
inside the context of a third environment (stack of three), an addition, a deletion and an unrelated
triple under way to a server at the same time.

The conditions in the properties are exact: without them the property is false of the code, and
the counterexamples are worth knowing.

* *DeletionsPending*. When a commit raised in the file stage, the base graph is committed and the
  buffers are kept. Entity tracking of the retry then looks up a deleted individual as an added one
  (`added_subjects` at interface.py:966 is the tracker's own set) and refuses the commit with a KeyError.
* *blame*. "shared": evicting a pattern takes the triples it shares with one that stays cached
  (interface.py:1155), and counts them twice (1146), so that answers become incomplete and the cache
  may outgrow its size. "partial": `_fill(replace=False)` removes what was cached (1162). "emptied":
  `open` and `close` empty `_cache` but not `_cached_patterns` (326). "outdated": a simulation (855)
  or a commit that raised after the base graph took over (720-756) never reaches the cache, and
  after a rollback deleted triples are read again.
* *Wedged* and *cut*. Deleting a File individual without a file makes `Dataspace.delete` raise in every
  commit, as do streams that an unfinished commit has closed: later uploads wait for ever. A save
  that stopped half-way leaves its stream where it stopped, and the retry saves the rest only.
* *reopened*. Opening a container that is open (which `with` does) adds a subscription and leaves
  the former one. After such a container is closed, the environment that still lists it cannot be closed: the
  loop tries to close it again and fails with a KeyError every time. A container that opens in
  itself is put on the stack without a session; whatever is opened in it is then closed for it, and its own
  close fails in the same way.
* *tried*. The rollback of a client sends nothing (client.py:424). After a commit that raised at
  the server, what was handled of it stays in the server's buffers, is read by the client after its
  rollback, and is stored by the next commit, which then stores what is read, as StoresWhatWasRead
  demands. Without `~tried` NothingLeftAtServer is false. A broken connection does not have this effect, since the
  server discards its buffers.

Other behaviours of the models that no property forbids: `PrefetchRaise`, a query that raises because
`_fill` finds less room than `_compute_space` promised (interface.py:566); a stream queued for an
individual that is deleted before the commit, which is stored nevertheless (730); a rollback
that leaves what the base graph has buffered when its commit raised (812), which is why the
refinement assumes that base graph and simulation do not raise; and a removal that takes from the base graph
whatever matches there, whatever `Interface.remove` returns (418), against its docstring at 1451.

* Entity tracking (978) reports an individual as deleted when only its class was replaced, because it compares
  the number of deleted triples with the number of old ones.
* A commit of an addition to a cached individual makes its other triples disappear from what is read (1162).
* A retried commit truncates a file that an earlier attempt has saved: `Dataspace.save` opens the target before it
  reads the stream, which is closed (dataspace/interface.py:82).
* The close of a session in which a container is open raises, and the session stays open (session.py:113).

Of the data of a session:

* *Dangling members and inverses*. Removing a member of a relationship removes direct statements, those of
  subclasses included, and none of the inverse: an individual that is connected through the inverse stays a member. A set
  `~rel` adds and removes direct statements, too. SetLaw and ReadsAgree say "up to what the inverse connects".
* *Annotations*. `&=` replaces all values by the argument; `-=` keeps entities and every literal that is not what its
  value is converted to, as text with a language (*OtherLiterals* in SetLaw).
* *Assignment*. An assignment to an attribute adds before it removes, so that a value that is refused loses
  nothing. What is added are the values that the set does not have, hence the condition of SetLaw: that one of these
  is refused. A value that the set has, read from an attribute below, is not added, even where the attribute itself
  would refuse it. But a value that is converted to one that is there already is added and then removed
  (`individual[b] = "1"` where b holds 1 leaves nothing, individual.py:1249), and so is the text of an IRI: an IRI is a
  Python string, which the code accepts for an attribute, but it equals no string. Beside the values for an attribute one other
  kind of values is ignored; more than two kinds raise, and an IRI alone counts as two (1233). An assignment to a relationship
  removes first: if the new individual is of another session, the old connections are lost.
* *Session sets*. An individual with two types counts twice in `len`, `iter` and `one`. An intersection restricted to
  a class may give the class to an individual that did not have it, by merging; a symmetric difference
  ignores existing individuals without the class.
* *Labels*. Setting the language of an entity without label makes a label "None", and setting no language keeps the one
  the label has. A literal of any datatype is a label; an entity or an IRI under a label predicate makes
  every change of the labels raise, their removal included.
* *Add*. The statements are a generator that is read after the previous individuals are removed: one that cannot
  be interpreted raises with the old individuals gone and any part of the new ones there; SessionSetLaw says that
  nothing else is lost, and nothing at all when it merges. Lookups by name
  raise a KeyError if any predicate or object of the individual is unknown.

Of the terminology, by the conditions of CachesConsistent (`since`) and of CreationComplete:

* *interrupted*: loading a package whose name is taken raises with its graph loaded and the caches not told.
* *rebound*: the namespace of an entity is not asked again after bind and unbind.
* *reclassified*, *reloaded*: the superclasses of an individual, and with them its operations, stay what they were at the
  first question, when it gets other classes, is deleted and created again, or when an ontology is loaded.
* Any restriction on an attribute makes it obligatory (oclass.py:287 compares the node, not its value, with 0), so
  defaults are used with `_force` only. When a class has several restrictions on one attribute, or several superclasses with different
  defaults, which one is used depends on the order in which they are met (oclass.py:299, 89); so `Fresh` is a set of answers, and
  one that is false is among them only if every class on the way may have a false one or none. Attributes
  are inherited from class to class: those of a class that is above another only through an entity of another
  kind are not, although it counts as a superclass. A superclass that is not loaded makes the question raise; an entity
  that is no longer declared itself, but of which the program still has an object, is yielded without being looked up. Superproperties of another
  kind raise for relationships, are passed over for classes and attributes, and taken for annotations. Classes that
  are declared in RDFS only are not among the subclasses of Thing.

Of packages:

* `lost`: an installation that stops leaves the packages written so far without their requirements, which come
  last. Installing the same packages again skips those that are installed, and their requirements with them;
  only `overwrite` repairs them. uninstall removes the files of every package whose name begins with the
  given one.
* `behind`: packages that require each other have no order; loading raises after the session was emptied. A
  conflict of names stops loading with the rest not loaded. A configuration that cannot be read stops every later
  operation and the import of the library.

Of the search: an individual is yielded once for each connection rather than once; with a maximal depth, an
individual within it may be missed, if a branch came to its predecessor at the maximal depth first (FindsAll
is for a search without maximal depth, OncePerConnection bounds the other); a single individual whose connections cannot be
read ends the search, and what follows in other branches is not found (`raised`; SearchExact's other part, OncePerConnection and Ends cover
such searches as well); changes while it waits are seen in what it has not yet listed.

One run ends in a counterexample. *remote_falsy* checks what a comment of the code says, and shows the shortest sequence of
calls after which it is false: removing the value 0 of an attribute in a remote session removes its other values, because
`or` takes 0 for a missing argument.

## 4. What is proved

TLAPS checks these for all values of the constants.

* **InterfaceDriverProofs** on the base graph: BaseTypeCorrect, BuffersStayConsistent (buffers disjoint, deletions in the
  memory), QueriesReadTheirWrites (a query for any pattern reads what a commit would store of it) and
  BaseImplementation (BufferedStore implements TransactionalStore). The type invariant and
  BuffersConsistent together are inductive; each commit and query follows from them by set algebra.
* **InterfaceDriverProofs** on the driver: TypeCorrect, CommitIsComplete (once the base graph has committed, what is
  stored is what the session reads, whatever raised before), CommitsAreInvisible (no step of a commit
  changes what is read), and, assuming *SafeBase* (base graph and simulation do not raise),
  Implementation (the driver implements `BackendSpec`). None of these is inductive. The
  invariant *Inv* adds that the buffers of each pair are disjoint (*Separated*), that a deletion which
  is pending in the driver hides the triple wherever it is (*Hidden*), and for every stage of a commit
  which part of the buffers the base graph and the interface already have. Implementation needs in
  addition that the base graph's own buffers are empty outside a commit, which is what SafeBase gives
  and what is false without it (see the rollback above). TypedCommitsAccepted, AddedReportedExactly and
  AllChangesReported are about entity tracking: the counting in `added_subjects`, `deleted_subjects` and
  `updated_subjects` amounts to set relations between the old and the new graph; deletions that an earlier
  attempt has already done (*DeletionsPending*) are where it does not.
* **RemoteStoreProofs**: TypeCorrect, CommitIsAtomic, CommitsAreInvisible, CommitLeavesNothing,
  ReturnMeansStored and RemovalsMatch, all assuming *NoFalsy* (no object is false in Python), which is exactly what
  remote_falsy violates: with such an object a removal puts triples in the client's deletions
  that its additions also have, and the order of the requests matters. The invariant says that the connection
  carries one message of the commit that waits for it (*OneMessage*), that the reader sees what
  the commit intends to store as long as the connection lasts (*Promised*), and for each request how much
  of that the server already has (*AddProgress*, *RemoveProgress*, *CommitProgress*). The last two hold
  of a request that is handled after its connection broke, too.
* **TripleCacheProofs**: CacheStaysConsistent, NothingInvented and CacheIsTransparent. The invariant adds two parts.
  *CommitApplied* says that the backend has what a commit adds while the commit goes through the patterns.
  *CacheComplete* says of every cached pattern, until something spoils the cache, that the cache has all the
  backend has of it, unless the pattern still waits for its refill; then what is missing are additions. The size is a
  counting argument: evictable triples are counted once for each pattern, which is why *WithinSize* ends with the
  first triple that two patterns share (lemmas on *Freed*; the oldest pattern that need not go, by the order of dates).
  The backends are finite sets of any size.
* **FileQueueProofs**: QueueStaysConsistent and CommitsDeliver. What a commit delivers depends on how every stream came to
  be where it is: *SpentAreCut* (a stream that has been read by a save that raised is known to be cut short) and
  *Delivered* (what the file stage has gone through is on the disk as it was queued last).
* **EnvironmentsProofs**: SubscriptionsAgree, ContainersShareTheSession, NoContainerLosesItsGraph and
  ClosingGetsSomewhere, for any number of sessions and containers and any depth of the stack. Two facts make them inductive.
  *ParentsKnown*: a container in another one is subscribed to it even while neither has a session. *Anchored*: any
  group of containers of one session hangs on something of that session outside of the group. It says without
  induction that every open container can be reached from its session; opening keeps it because, of the nested
  calls, the one that returns first opens its container in something that was there before (lemma FirstOpened). A
  close then makes progress by counting: if everything in its reach had subscribers, each would have exactly one, which is a
  cycle without a session. The nested calls are a recursive function; that it is well defined is a lemma
  (ChainOfEnvironments), from the well-foundedness of the natural numbers.
* **SearchProofs**: SearchIsExact. What is found is not inductive: the invariant adds what is still to come. *Sound* says
  that whatever is found, visited, waiting or about to be shown lies in every set that contains the root and is closed
  under all connections; *Complete*, while nothing was changed and nothing raised, that the children of what was visited are visited or wait in some
  suspended call, and that what matches among them was found or is about to be shown. At the end nothing waits, so
  that the visited individuals are themselves such a closed set. *Begun* is the root's own part.
  FoundOncePerConnection counts. *Attributed* gives each call on the stack an individual of its own, and says of the
  connections that were used up that each leads to what is visited or waits in the call of the individual it comes from: so
  a second call for an individual, which does happen, shows nothing again. *Counted* compares the results with the used
  connections, *InReach* the depth of a call with the distance of its individual over all connections there have been.
  Individuals are a finite set, so that connections can be counted.
* **IndividualsProofs**: GraphStaysTyped, SetsChangeOnlyTheirOwn, SetsObeyTheirLaw, SessionSetsObeyTheirLaw and
  ReadsAlwaysAgree, for every terminology, every stable conversion and every graph, also an infinite one. *TypeOK* is
  inductive: no operation, wherever it stops, leaves a literal that its attribute would store differently. The laws are
  statements about all outcomes of an operation in a graph. SetsChangeOnlyTheirOwn and
  SessionSetsObeyTheirLaw hold in any graph; the others need TypeOK, since an attribute's value is removed by
  converting it again. The proofs follow what the operations share: adding value by value, of which any part may be
  done (lemmas EachAdded, AttributesAdded, AttributesDeleted), the outcomes of `Session.add` (AddOutcomes, from which
  AddKeeps and AddReturns follow), and that what is known in a session and of what class it is depends on the
  statements of types alone (TypesTell), so that a law of a session's sets is a law of types before and after a
  merge and a deletion (MergedTypes, NewTypes, DeleteReturns). ReadsAgree counts, which takes finitely many
  individuals and classes (IdentifiersAreFinite).
* **PackagesProofs** on the terminology: ValidAnswersAreFresh, for the four lookups that have no other cache and no other session
  behind them. The invariant adds *Times*: no cache and no change is later than the clock, and every answer
  has a cache with a time. Expiry at equal times (`<=`) is what makes it hold with a clock that stands still:
  a change at the time of an answer expires it (lemma ChangeExpires). ClosuresAlwaysAgree holds of every set of ontologies that
  satisfies *OntologyAssumption*: what `Reach` computes in as many steps as there are pairs is the least closed set
  (lemma ReachIsLeast: as long as a step adds something, there is one more member than steps), and the least closed set of
  the converse relation contains the same pairs (ReachBack). It needs that no ontology puts anything above
  the most general entity: the code adds that one last, and does not ask what is above it.
* **PackagesProofs** on what is put together: CachesStayConsistent and CreationsAreComplete. *Fresh* states what an answer should
  be over all classes above, the code computes it from cached answers about the classes right above. That the two agree
  (lemmas InheritIsRight and AnswersAreRight) needs no induction over the hierarchy, which may have cycles: what
  is reached from a class is the class and what is reached from where one step leads (ReachUnfolds), and
  the answers it is computed from are right by the invariant. That is *AllFresh*: a valid answer is right, unless excused by
  `since`. The dictionary of a class's own attributes is the one that the inherited ones are written into, so for it
  the invariant allows both (*Right*), and InheritIsRight has both as its starting point: computing again what was
  inherited already changes nothing. After a change that is noticed no answer but those about individuals is valid
  (NoticedChange); after any other, those that are valid were so before (ValidBefore) and are right still (RightStays).
  A creation is complete because the match behind it (CallMatches) takes each word for one attribute.
* **PackagesProofs** on Pico: RequirementsStayInstalled, from *DiskTyped* and *Provided*: while an installation runs, what installed
  packages need is installed, lost or on its way, and so is what those on their way need. Lemma ExploredIsComplete
  is the property of the search for requirements that this rests on; cycles are not excluded.
  AnswersFreshAmongPackages carries the invariant *TInv* of the terminology over to the steps of Pico.
  RequirementsComeFirst and LoadedMatchesInstalled share *Loading*: what has been loaded, with its names, is in the
  terminology, the rest comes in an order of its requirements, and nothing loaded requires any of it. That such
  orders are what Kahn's algorithm gives is the invariant *Sorted* of its states (lemma SortingsRespectEdges): a pair
  that is gone has its requirement in the result, and no pair that is left leads to a node that is free or done.
  That binding names one by one binds them all, or raises, is lemma BindAllBinds.

Assumptions beyond those that the modules state of their constants are hypotheses of the theorems: *SafeBase* and
*NoFalsy* above, and *FiniteVocabulary* (subjects, predicates and objects are finitely many, so that numbers of
triples exist) for TypedCommitsAccepted.

Every safety property that a passing run checks is stated by a theorem. Model-checked only: liveness (UploadsSent and
Ends; fairness and ENABLED are beyond the proof system). The library's induction theorems are not usable with these provers; where
a proof needs induction over numbers it takes the least counterexample (lemmas LeastNumber and FromZero), and a
recursive function is shown to be well defined by building it (lemmas Iteration and StepByStep).
The refinement mappings use no history variables.

## 5. Order of the modules

BufferedStore, InterfaceDriver, TripleCache, FileQueue, Environments, RemoteStore; then the data side,
ObjectSets, IndividualData, SessionData and Individuals; then Terminology, Packages over it, and Search. Each
module that others extend or instantiate comes before them. Modules of proofs come after the modules they are about. What could
come next: the composition of Individuals with Terminology, where `Sub` and `InverseOf` become variables.

## 6. Not modelled

* Reading and writing of RDF, YAML and SPARQL, import and export, display, logging: I/O and conversion of formats without state.
  Literals are model values; of custom datatypes only what conversion does to a value is modelled.
* SQL databases: the wrapper forwards to their transactions. The wrapper spawner: constructors in a row.
* Restrictions and compositions: views of axioms that nothing else depends on.
* Files sent to a server: the transfer never succeeds in this version (the client fails to format its own
  message, the server passes on a closed temporary file, and `save` sends the command of a simulation), so there is
  no state to model. The bytes of messages. Several connections that share one backend.
* `Session.update` and `merge` of an entity of another session: their first access, to a keyword that does not
  exist, raises before anything changes. File contents in `Session.add`: Individuals has the triples, FileQueue the files.
* Two processes that install packages into one directory, or a directory that is changed while it is in use: nothing in the
  code coordinates them.
