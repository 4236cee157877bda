------------------------------ MODULE RemoteStore ------------------------------
(***************************************************************************)
(* RemoteStoreClient and the base graph of the interface that the server   *)
(* keeps for its connection.  The client buffers changes, the base graph   *)
(* of the server buffers them again (BufferedStore), and a commit takes    *)
(* three requests.  Any of them may raise at the server, and the           *)
(* connection may break at any moment, with a request or a reply on it.    *)
(*                                                                         *)
(* What the server has committed outlives its connections, as with a       *)
(* wrapper of a database.                                                  *)
(***************************************************************************)
EXTENDS Triples

CONSTANT Falsy       \* objects that Python takes for false: literals 0, False, ""

ASSUME FalsyAssumption == Falsy \subseteq Object

Commands == {"STORE_ADD", "STORE_REMOVE", "STORE_COMMIT"}
Idle     == "none"

VARIABLES mem, svAdded, svDeleted,  \* base graph of the server's interface
          serving,                  \* the server has an interface for the connection
          added, deleted,           \* buffers of the client
          stage,                    \* the request a commit is waiting for
          request, data, reply,     \* what is on the connection
          link,                     \* the connection, as the client finds it
          intended,                 \* what was read when the commit began (history)
          tried                     \* a commit raised, and none returned since (history)

base    == <<mem, svAdded, svDeleted>>
buffers == <<added, deleted>>
channel == <<request, data, reply, link>>
history == <<intended, tried>>
vars    == <<base, serving, buffers, stage, channel, history>>

Base == INSTANCE BufferedStore WITH bAdded <- svAdded, bDeleted <- svDeleted

(* The server's answer to the query for a pattern.  A wildcard is replaced *)
(* by an IRI that stands for it, and so is every object that is false.     *)
RemoteTriples(p) ==
    Base!TriplesOf(IF p[3] \in Falsy THEN <<p[1], p[2], None>> ELSE p)

(* What the client's `triples' yields for a pattern. *)
TriplesOf(p) ==
    (RemoteTriples(p) \ (Matching(deleted, p) \cup Matching(added, p)))
    \cup Matching(added, p)

View == TriplesOf(<<None, None, None>>)

-----------------------------------------------------------------------------
(* Faulty variants of the definitions below: the properties must notice    *)
(* each of them.                                                           *)

FaultyRemove(p) ==
    /\ stage = Idle /\ link = "up"
    /\ added' = added \ Matching(added, p)
    /\ deleted' = deleted \cup {p}
    /\ UNCHANGED <<base, serving, stage, channel, history>>

(* Goes on whatever the reply is. *)
FaultyReplyToAdd ==
    /\ stage = "STORE_ADD" /\ reply # Idle /\ link = "up"
    /\ stage' = "STORE_REMOVE"
    /\ request' = "STORE_REMOVE" /\ data' = deleted /\ reply' = Idle
    /\ UNCHANGED <<base, serving, buffers, link, history>>

(* Resets the buffers as a commit that returns does. *)
FaultyCommitRaises ==
    /\ stage # Idle /\ (reply = "error" \/ link = "broken")
    /\ stage' = Idle /\ reply' = Idle
    /\ added' = {} /\ deleted' = {}
    /\ tried' = TRUE
    /\ UNCHANGED <<base, serving, request, data, link, intended>>

(* Answers without a commit of the base graph. *)
FaultyHandle ==
    /\ serving
    /\ \/ request = "STORE_ADD" /\ Base!AddAll(data)
       \/ request = "STORE_REMOVE" /\ Base!RemoveAll(data)
       \/ request = "STORE_COMMIT" /\ UNCHANGED base
    /\ request' = Idle /\ data' = {}
    /\ reply' = IF link = "up" THEN "ok" ELSE Idle
    /\ UNCHANGED <<serving, buffers, stage, link, history>>

(* Leaves the base graph as it is. *)
FaultyDisconnect ==
    /\ serving /\ link # "up"
    /\ serving' = FALSE
    /\ request' = Idle /\ data' = {}
    /\ UNCHANGED <<base, buffers, stage, reply, link, history>>

-----------------------------------------------------------------------------
Init ==
    /\ Base!BaseInit /\ serving = TRUE
    /\ added = {} /\ deleted = {}
    /\ stage = Idle /\ request = Idle /\ data = {} /\ reply = Idle /\ link = "up"
    /\ intended = mem /\ tried = FALSE

Send(command, triples) == request' = command /\ data' = triples /\ reply' = Idle

Add(t) ==
    /\ stage = Idle
    /\ deleted' = deleted \ {t}
    /\ added' = added \cup {t}
    /\ UNCHANGED <<base, serving, stage, channel, history>>

Remove(p) ==
    /\ stage = Idle /\ link = "up"
    /\ added' = added \ Matching(added, p)
    /\ deleted' = deleted \cup RemoteTriples(p)
    /\ UNCHANGED <<base, serving, stage, channel, history>>

(* The query for the triples to delete raises. *)
RemoveRaises(p) ==
    /\ stage = Idle
    /\ added' = added \ Matching(added, p)
    /\ UNCHANGED <<base, serving, deleted, stage, channel, history>>

Rollback ==
    /\ stage = Idle
    /\ added' = {} /\ deleted' = {}
    /\ UNCHANGED <<base, serving, stage, channel, history>>

-----------------------------------------------------------------------------
(* The three requests of `commit'. *)
BeginCommit ==
    /\ stage = Idle /\ link = "up"
    /\ stage' = "STORE_ADD"
    /\ Send("STORE_ADD", added)
    /\ intended' = View
    /\ UNCHANGED <<base, serving, buffers, link, tried>>

ReplyToAdd ==
    /\ stage = "STORE_ADD" /\ reply = "ok" /\ link = "up"
    /\ stage' = "STORE_REMOVE"
    /\ Send("STORE_REMOVE", deleted)
    /\ UNCHANGED <<base, serving, buffers, link, history>>

ReplyToRemove ==
    /\ stage = "STORE_REMOVE" /\ reply = "ok" /\ link = "up"
    /\ stage' = "STORE_COMMIT"
    /\ Send("STORE_COMMIT", {})
    /\ UNCHANGED <<base, serving, buffers, link, history>>

ReplyToCommit ==
    /\ stage = "STORE_COMMIT" /\ reply = "ok" /\ link = "up"
    /\ stage' = Idle /\ reply' = Idle
    /\ added' = {} /\ deleted' = {}
    /\ tried' = FALSE
    /\ UNCHANGED <<base, serving, request, data, link, intended>>

(* The connection is broken, or the error string of the server is no JSON. *)
CommitRaises ==
    /\ stage # Idle /\ (reply = "error" \/ link = "broken")
    /\ stage' = Idle /\ reply' = Idle
    /\ tried' = TRUE
    /\ UNCHANGED <<base, serving, buffers, request, data, link, intended>>

-----------------------------------------------------------------------------
(* The server. *)
Answer(r) ==
    /\ request' = Idle /\ data' = {}
    /\ reply' = IF link = "up" THEN r ELSE Idle
    /\ UNCHANGED <<serving, buffers, stage, link, history>>

Handle ==
    /\ serving
    /\ \/ request = "STORE_ADD" /\ Base!AddAll(data)
       \/ request = "STORE_REMOVE" /\ Base!RemoveAll(data)
       \/ request = "STORE_COMMIT" /\ Base!Commit
    /\ Answer("ok")

(* The base graph raises, with a part of the triples added or removed. *)
HandleRaises ==
    /\ serving
    /\ \/ request = "STORE_ADD" /\ \E T \in SUBSET data : Base!AddAll(T)
       \/ request = "STORE_REMOVE" /\ \E T \in SUBSET data : Base!RemoveAll(T)
       \/ request = "STORE_COMMIT" /\ UNCHANGED base
    /\ Answer("error")

(* handle_disconnect closes the interface, and its base graph with it. *)
Disconnect ==
    /\ serving /\ link # "up"
    /\ serving' = FALSE
    /\ request' = Idle /\ data' = {}
    /\ Base!Discard
    /\ UNCHANGED <<buffers, stage, reply, link, history>>

LinkBreaks ==
    /\ link = "up"
    /\ link' = "broken" /\ reply' = Idle
    /\ UNCHANGED <<base, serving, buffers, stage, request, data, history>>

(* The next request connects again, without authenticating: the server has *)
(* no interface for that connection and answers with an error.             *)
Close ==
    /\ stage = Idle /\ link # "closed"
    /\ link' = "closed"
    /\ UNCHANGED <<base, serving, buffers, stage, request, data, reply, history>>

(* A new RemoteInterface, since a closed one cannot be opened again, when  *)
(* the server has dropped the former connection.                           *)
Open ==
    /\ stage = Idle /\ link = "closed" /\ ~serving
    /\ link' = "up" /\ serving' = TRUE
    /\ added' = {} /\ deleted' = {}
    /\ tried' = FALSE
    /\ UNCHANGED <<base, stage, request, data, reply, intended>>

Next ==
    \/ \E t \in Triple : Add(t)
    \/ \E p \in Pattern : Remove(p) \/ RemoveRaises(p)
    \/ Rollback
    \/ BeginCommit \/ ReplyToAdd \/ ReplyToRemove \/ ReplyToCommit \/ CommitRaises
    \/ Handle \/ HandleRaises \/ Disconnect
    \/ LinkBreaks \/ Close \/ Open

Spec == Init /\ [][Next]_vars

-----------------------------------------------------------------------------
(* Type invariant.                                                         *)
TypeOK ==
    /\ Base!BaseTypeOK /\ added \subseteq Triple /\ deleted \subseteq Triple
    /\ data \subseteq Triple /\ intended \subseteq Triple
    /\ stage \in Commands \cup {Idle} /\ request \in Commands \cup {Idle}
    /\ reply \in {Idle, "ok", "error"} /\ link \in {"up", "broken", "closed"}
    /\ {serving, tried} \subseteq BOOLEAN

(* What the server stores changes in one step to what the client read when *)
(* it called commit, or not at all, whatever request raises or is lost and *)
(* however often the commit is repeated (RemoteStoreClient.commit).        *)
StoresWhatWasRead == [][mem' # mem => mem' = intended]_vars

(* As long as the connection lasts no step of a commit changes what the    *)
(* client reads, not even one that raises with half of the requests        *)
(* handled, or a repeated one (RemoteStoreClient.commit and triples,       *)
(* InterfaceServer._store_add and _store_remove).                          *)
CommitInvisible ==
    [][(stage # Idle \/ stage' # Idle) /\ link = "up" => View' = View]_vars

(* Between commits the server has no changes of the client that are not    *)
(* committed, unless a commit over this connection raised: then a rollback *)
(* discards everything (RemoteStoreClient.rollback, handle_disconnect).    *)
NothingLeftAtServer == stage = Idle /\ ~tried => Base!Working = mem

(* A commit that returns is stored, and is what the client goes on to read *)
(* (RemoteStoreClient.commit).                                             *)
ReturnedIsStored ==
    [][reply = "ok" /\ stage = "STORE_COMMIT" /\ stage' = Idle /\ link = "up"
       => View' = intended /\ mem = intended]_vars

(* A removal removes what matches its pattern and nothing else             *)
(* (RemoteStoreClient.remove, _remote_triples).                            *)
RemovesMatching ==
    [][\A p \in Pattern : Remove(p) => View' = View \ Matching(View, p)]_vars
=============================================================================
