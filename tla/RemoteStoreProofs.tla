--------------------------- MODULE RemoteStoreProofs ---------------------------
(***************************************************************************)
(* What holds of a remote session's store for every set of triples, if no  *)
(* object is false: a pattern with a false object asks the server for more *)
(* than it matches.                                                        *)
(***************************************************************************)
EXTENDS RemoteStore, TLAPS

NoFalsy == Falsy = {}

-----------------------------------------------------------------------------
(***************************************************************************)
(* The inductive invariant.  The buffers of each end are disjoint, the     *)
(* connection carries one request or reply of the commit that waits for    *)
(* it, and each stage of a commit knows what the server has done of it.    *)
(***************************************************************************)
Separated == added \cap deleted = {} /\ Base!BuffersConsistent

OneMessage ==
    /\ link = "up" => serving /\ request \in {Idle, stage}
    /\ ~serving => request = Idle /\ svAdded = {} /\ svDeleted = {}
    /\ reply # Idle => request = Idle /\ link = "up" /\ stage # Idle
    /\ stage # Idle => link # "closed"
    /\ stage = Idle /\ request # Idle => tried

(* The reader sees the triples that the commit intends to store. *)
Promised == link = "up" /\ stage # Idle => intended = (Base!Working \ deleted) \cup added

AddProgress ==
    /\ link = "up" /\ request = "STORE_ADD" => data = added
    /\ stage = "STORE_ADD" /\ reply = "ok" => added \subseteq Base!Working
    /\ link = "up" /\ stage = "STORE_REMOVE" => added \subseteq Base!Working

RemoveProgress ==
    /\ link = "up" /\ request = "STORE_REMOVE" => data = deleted
    /\ stage = "STORE_REMOVE" /\ reply = "ok" => Base!Working = intended
    /\ request = "STORE_COMMIT" => Base!Working = intended

CommitProgress ==
    stage = "STORE_COMMIT" /\ reply = "ok" => mem = intended /\ Base!Working = mem

Inv == /\ TypeOK /\ Separated /\ OneMessage /\ Promised
       /\ AddProgress /\ RemoveProgress /\ CommitProgress
       /\ NothingLeftAtServer

-----------------------------------------------------------------------------
(* What a client reads, without patterns. *)
LEMMA ViewIsPlain ==
    /\ TypeOK  => View  = (Base!Working \ deleted) \cup added
    /\ TypeOK' => View' = (Base!Working' \ deleted') \cup added'
BY WildcardAssumption, FalsyAssumption
   DEF TypeOK, Base!BaseTypeOK, View, TriplesOf, RemoteTriples, Base!TriplesOf, Base!Working,
       Matching, Base!Matching, IsSubPattern, Base!IsSubPattern, Triple, Base!Triple

(* If no object is false, the server answers with what matches. *)
LEMMA AnswersMatch ==
    ASSUME NoFalsy, TypeOK, NEW p \in Pattern
    PROVE  RemoteTriples(p) \subseteq Matching(Triple, p)
BY DEF NoFalsy, TypeOK, Base!BaseTypeOK, RemoteTriples, Base!TriplesOf, Matching, Base!Matching,
       IsSubPattern, Base!IsSubPattern, Triple, Base!Triple

(* A client starts with nothing on the connection. *)
LEMMA InitInv == Init => Inv
BY DEF Init, Base!BaseInit, Inv, TypeOK, Base!BaseTypeOK, Separated, Base!BuffersConsistent, OneMessage,
       Promised, AddProgress, RemoveProgress, CommitProgress, NothingLeftAtServer, Base!Working,
       Triple, Base!Triple, Commands, Idle

(* Every step of the client, of the server and of the connection preserves *)
(* the invariant.                                                          *)
LEMMA NextInv ==
    ASSUME NoFalsy
    PROVE  Inv /\ [Next]_vars => Inv'
<1> SUFFICES ASSUME Inv, [Next]_vars
             PROVE  Inv'
  OBVIOUS
<1> USE NoFalsy DEF Inv, TypeOK, Base!BaseTypeOK, Separated, Base!BuffersConsistent, OneMessage,
       Promised, AddProgress, RemoveProgress, CommitProgress, NothingLeftAtServer, Base!Working,
       Triple, Base!Triple, Commands, Idle, base, buffers, channel, history
<1>1. ASSUME NEW t \in Triple, Add(t)
      PROVE  Inv'
  BY <1>1 DEF Add
<1>2. ASSUME NEW p \in Pattern, Remove(p)
      PROVE  Inv'
  <2>1. RemoteTriples(p) \subseteq Matching(Triple, p)
    BY AnswersMatch
  <2>2. Matching(added, p) = added \cap Matching(Triple, p)
    BY DEF Matching
  <2>3. Matching(Triple, p) \subseteq Triple
    BY DEF Matching
  <2> QED
    BY <1>2, <2>1, <2>2, <2>3 DEF Remove
<1>3. ASSUME NEW p \in Pattern, RemoveRaises(p)
      PROVE  Inv'
  BY <1>3 DEF RemoveRaises
<1>4. CASE Rollback
  BY <1>4 DEF Rollback
<1>5. CASE BeginCommit
  BY <1>5, ViewIsPlain DEF BeginCommit, Send
<1>6. CASE ReplyToAdd
  BY <1>6 DEF ReplyToAdd, Send
<1>7. CASE ReplyToRemove
  BY <1>7 DEF ReplyToRemove, Send
<1>8. CASE ReplyToCommit
  BY <1>8 DEF ReplyToCommit
<1>9. CASE CommitRaises
  BY <1>9 DEF CommitRaises
<1>10. CASE Handle
  <2>1. CASE request = "STORE_ADD" /\ Base!AddAll(data)
    BY <1>10, <2>1 DEF Handle, Answer, Base!AddAll
  <2>2. CASE request = "STORE_REMOVE" /\ Base!RemoveAll(data)
    BY <1>10, <2>2 DEF Handle, Answer, Base!RemoveAll
  <2>3. CASE request = "STORE_COMMIT" /\ Base!Commit
    BY <1>10, <2>3 DEF Handle, Answer, Base!Commit
  <2> QED
    BY <1>10, <2>1, <2>2, <2>3 DEF Handle
<1>11. CASE HandleRaises
  <2>1. ASSUME NEW T \in SUBSET data, request = "STORE_ADD", Base!AddAll(T)
        PROVE  Inv'
    BY <1>11, <2>1 DEF HandleRaises, Answer, Base!AddAll
  <2>2. ASSUME NEW T \in SUBSET data, request = "STORE_REMOVE", Base!RemoveAll(T)
        PROVE  Inv'
    BY <1>11, <2>2 DEF HandleRaises, Answer, Base!RemoveAll
  <2>3. CASE request = "STORE_COMMIT" /\ UNCHANGED base
    BY <1>11, <2>3 DEF HandleRaises, Answer
  <2> QED
    BY <1>11, <2>1, <2>2, <2>3 DEF HandleRaises
<1>12. CASE Disconnect
  BY <1>12 DEF Disconnect, Base!Discard
<1>13. CASE LinkBreaks
  BY <1>13 DEF LinkBreaks
<1>14. CASE Close
  BY <1>14 DEF Close
<1>15. CASE Open
  BY <1>15 DEF Open
<1>16. CASE UNCHANGED vars
  BY <1>16 DEF vars
<1> QED
  BY <1>1, <1>2, <1>3, <1>4, <1>5, <1>6, <1>7, <1>8, <1>9, <1>10, <1>11, <1>12, <1>13, <1>14,
     <1>15, <1>16 DEF Next

(* The invariant holds of every session of a client. *)
LEMMA Invariance ==
    ASSUME NoFalsy
    PROVE  Spec => []Inv
<1>1. Inv /\ [Next]_vars => Inv'
  BY NoFalsy, NextInv
<1> QED
  BY <1>1, InitInv, PTL DEF Spec

-----------------------------------------------------------------------------
(* Buffers, requests and replies keep their types, at the client, on the   *)
(* connection and at the server.                                           *)
THEOREM TypeCorrect ==
    ASSUME NoFalsy
    PROVE  Spec => []TypeOK
<1>1. Spec => []Inv
  BY NoFalsy, Invariance
<1> QED
  BY <1>1, PTL DEF Inv

(* A commit leaves nothing uncommitted at the server unless it raises, for *)
(* every order of failures on the connection and at the server.            *)
THEOREM CommitLeavesNothing ==
    ASSUME NoFalsy
    PROVE  Spec => []NothingLeftAtServer
<1>1. Spec => []Inv
  BY NoFalsy, Invariance
<1> QED
  BY <1>1, PTL DEF Inv

(* The server only ever stores what the client read when it called commit, *)
(* all of it in one step, also when the connection breaks or an earlier    *)
(* commit was handled in part.                                             *)
THEOREM CommitIsAtomic ==
    ASSUME NoFalsy
    PROVE  Spec => StoresWhatWasRead
<1>1. Inv /\ [Next]_vars => (mem' # mem => mem' = intended)
  <2> SUFFICES ASSUME Inv, [Next]_vars, mem' # mem
               PROVE  mem' = intended
    OBVIOUS
  <2>1. request = "STORE_COMMIT" /\ Base!Commit
    BY DEF Next, vars, base, buffers, channel, history, Add, Remove, RemoveRaises, Rollback, BeginCommit,
       ReplyToAdd, ReplyToRemove, ReplyToCommit, CommitRaises, Handle, HandleRaises, Disconnect,
       LinkBreaks, Close, Open, Base!AddAll, Base!RemoveAll, Base!Discard
  <2> QED
    BY <2>1 DEF Inv, TypeOK, Base!BaseTypeOK, Separated, Base!BuffersConsistent, RemoveProgress,
       Base!Commit, Base!Working
<1>2. Inv /\ [Next]_vars => [mem' # mem => mem' = intended]_vars
  BY <1>1
<1>3. Spec => []Inv
  BY NoFalsy, Invariance
<1> QED
  BY <1>2, <1>3, PTL DEF Spec, StoresWhatWasRead

(* Nothing that happens during a commit changes what the client reads over *)
(* a connection that lasts: triples that the server has in its buffers are *)
(* still in those of the client, which answer first.                       *)
THEOREM CommitsAreInvisible ==
    ASSUME NoFalsy
    PROVE  Spec => CommitInvisible
<1>1. Inv /\ Inv' /\ [Next]_vars
        => ((stage # Idle \/ stage' # Idle) /\ link = "up" => View' = View)
  <2> SUFFICES ASSUME Inv, Inv', [Next]_vars, stage # Idle \/ stage' # Idle, link = "up"
               PROVE  View' = View
    OBVIOUS
  <2>1. View = (Base!Working \ deleted) \cup added /\ View' = (Base!Working' \ deleted') \cup added'
    BY ViewIsPlain DEF Inv
  <2> USE <2>1
  <2>2. CASE stage = Idle
    <3>1. BeginCommit
      BY <2>2 DEF Next, vars, base, buffers, channel, history, Add, Remove, RemoveRaises, Rollback,
         ReplyToAdd, ReplyToRemove, ReplyToCommit, CommitRaises, Handle, HandleRaises, Answer, Disconnect,
         LinkBreaks, Close, Open, Idle
    <3> QED
      BY <3>1 DEF BeginCommit, base, buffers, Base!Working
  <2>3. CASE stage # Idle /\ stage' # Idle
    <3>1. CASE link' = "up"
      <4>1. intended' = intended
        BY <2>3 DEF Next, vars, base, buffers, channel, history, Add, Remove, RemoveRaises, Rollback,
           BeginCommit, ReplyToAdd, ReplyToRemove, ReplyToCommit, CommitRaises, Handle, HandleRaises,
           Answer, Disconnect, LinkBreaks, Close, Open
      <4> QED
        BY <2>3, <3>1, <4>1 DEF Inv, Promised
    <3>2. CASE link' # "up"
      <4>1. LinkBreaks
        BY <2>3, <3>2 DEF Next, vars, base, buffers, channel, history, Add, Remove, RemoveRaises, Rollback,
           BeginCommit, ReplyToAdd, ReplyToRemove, ReplyToCommit, CommitRaises, Handle, HandleRaises,
           Answer, Disconnect, Close, Open
      <4> QED
        BY <4>1 DEF LinkBreaks, base, buffers, Base!Working
    <3> QED
      BY <3>1, <3>2
  <2>4. CASE stage # Idle /\ stage' = Idle
    <3>1. CASE ReplyToCommit
      BY <2>4, <3>1 DEF ReplyToCommit, Inv, TypeOK, Promised, CommitProgress, base, Base!Working, Idle
    <3>2. CASE CommitRaises
      BY <3>2 DEF CommitRaises, base, buffers, Base!Working
    <3>3. ReplyToCommit \/ CommitRaises
      BY <2>4 DEF Next, vars, base, buffers, channel, history, Add, Remove, RemoveRaises, Rollback,
         BeginCommit, ReplyToAdd, ReplyToRemove, Handle, HandleRaises, Answer, Disconnect, LinkBreaks,
         Close, Open, Idle
    <3> QED
      BY <3>1, <3>2, <3>3
  <2> QED
    BY <2>2, <2>3, <2>4
<1>2. Inv /\ Inv' /\ [Next]_vars
        => [(stage # Idle \/ stage' # Idle) /\ link = "up" => View' = View]_vars
  BY <1>1
<1>3. Spec => []Inv
  BY NoFalsy, Invariance
<1> QED
  BY <1>2, <1>3, PTL DEF Spec, CommitInvisible

(* When the client's commit returns, the server has stored what was read   *)
(* at its beginning, and this is what the client goes on to read.          *)
THEOREM ReturnMeansStored ==
    ASSUME NoFalsy
    PROVE  Spec => ReturnedIsStored
<1>1. Inv /\ Inv' /\ [Next]_vars
        => (reply = "ok" /\ stage = "STORE_COMMIT" /\ stage' = Idle /\ link = "up"
              => View' = intended /\ mem = intended)
  <2> SUFFICES ASSUME Inv, Inv', [Next]_vars,
                      reply = "ok", stage = "STORE_COMMIT", stage' = Idle, link = "up"
               PROVE  View' = intended /\ mem = intended
    OBVIOUS
  <2>1. ReplyToCommit
    BY DEF Next, vars, base, buffers, channel, history, Add, Remove, RemoveRaises, Rollback, BeginCommit,
       ReplyToAdd, ReplyToRemove, CommitRaises, Handle, HandleRaises, Answer, Disconnect, LinkBreaks, Close,
       Open, Idle
  <2>2. mem = intended /\ Base!Working = mem
    BY DEF Inv, CommitProgress
  <2>3. View' = (Base!Working' \ deleted') \cup added'
    BY ViewIsPlain DEF Inv
  <2> QED
    BY <2>1, <2>2, <2>3 DEF ReplyToCommit, base, Base!Working
<1>2. Inv /\ Inv' /\ [Next]_vars
        => [reply = "ok" /\ stage = "STORE_COMMIT" /\ stage' = Idle /\ link = "up"
              => View' = intended /\ mem = intended]_vars
  BY <1>1
<1>3. Spec => []Inv
  BY NoFalsy, Invariance
<1> QED
  BY <1>2, <1>3, PTL DEF Spec, ReturnedIsStored

(* If no object is false, a removal removes what matches its pattern and   *)
(* nothing else, at the client and at the server together.                 *)
THEOREM RemovalsMatch ==
    ASSUME NoFalsy
    PROVE  Spec => RemovesMatching
<1>1. Inv /\ Inv'
        => (\A p \in Pattern : Remove(p) => View' = View \ Matching(View, p))
  <2> SUFFICES ASSUME Inv, Inv', NEW p \in Pattern, Remove(p)
               PROVE  View' = View \ Matching(View, p)
    OBVIOUS
  <2>1. View = (Base!Working \ deleted) \cup added /\ View' = (Base!Working' \ deleted') \cup added'
    BY ViewIsPlain DEF Inv
  <2>2. Base!Working' = Base!Working /\ added' = added \ Matching(added, p)
        /\ deleted' = deleted \cup RemoteTriples(p)
    BY DEF Remove, base, Base!Working
  <2>3. RemoteTriples(p) = Matching(Base!Working, p)
    BY NoFalsy DEF NoFalsy, Inv, TypeOK, Base!BaseTypeOK, RemoteTriples, Base!TriplesOf, Base!Working, Matching,
       Base!Matching, IsSubPattern, Base!IsSubPattern
  <2> QED
    BY <2>1, <2>2, <2>3 DEF Matching
<1>2. Inv /\ Inv'
        => [\A p \in Pattern : Remove(p) => View' = View \ Matching(View, p)]_vars
  BY <1>1
<1>3. Spec => []Inv
  BY NoFalsy, Invariance
<1> QED
  BY <1>2, <1>3, PTL DEF Spec, RemovesMatching
=============================================================================
