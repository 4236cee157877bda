---------------------------- MODULE FileQueueProofs ----------------------------
(***************************************************************************)
(* The queue of byte streams stays consistent, and a commit that returns   *)
(* has delivered it, for every set of keys and contents.                   *)
(***************************************************************************)
EXTENDS FileQueue, TLAPS

(* What was queued last has a type, too. *)
HistoryType == latest \in [Key -> Contents \cup {Missing}]

(* A stream that has been read by a save that raised is known to be cut.   *)
SpentAreCut == \A k \in Uploads : queue[k].state = "spent" => k \in cut

(* The part of the queue that a commit has gone through is delivered.      *)
Delivered ==
    stage = "files" =>
        /\ \A k \in Uploads \ (cut \cup todo) : disk[k] = latest[k]
        /\ \A k \in Deletions \ todo : disk[k] = Missing

(* The inductive invariant. *)
Inv == TypeOK /\ HistoryType /\ ReadsMatchQueue /\ SpentAreCut /\ Delivered

(* Entries of the queue *)
LEMMA EntryTypes ==
    /\ Deletion \in Entry /\ Deletion.state = "none"
    /\ \A d \in Contents : Fresh(d) \in Entry /\ Fresh(d).data = d /\ Fresh(d).state = "fresh"
    /\ \A e \in Entry : Left(e) \in Contents
BY DEF Deletion, Entry, Fresh, Contents, Left

(* An empty queue has no uploads. *)
LEMMA EmptyQueue == DOMAIN <<>> = {}
OBVIOUS

(* The initial state satisfies the invariant. *)
LEMMA InitInv == Init => Inv
BY EmptyQueue DEF Init, Inv, TypeOK, HistoryType, ReadsMatchQueue, SpentAreCut, Delivered,
   Uploads, Contents

(* Every step preserves the invariant. *)
LEMMA NextInv == Inv /\ [Next]_vars => Inv'
<1> SUFFICES ASSUME Inv, [Next]_vars
             PROVE  Inv'
  OBVIOUS
<1> USE DEF Inv, TypeOK, HistoryType, ReadsMatchQueue, SpentAreCut, Delivered, Uploads, Deletions,
            individuals, history
<1>1. ASSUME NEW k \in Key, Create(k) \/ Delete(k)
      PROVE  Inv'
  BY <1>1 DEF Create, Delete
<1>2. ASSUME NEW k \in Key, Load(k)
      PROVE  Inv'
  <2> DEFINE d == Left(queue[k])
  <2>1. d \in Contents /\ Fresh(d) \in Entry /\ Fresh(d).data = d /\ Fresh(d).state = "fresh"
    BY <1>2, EntryTypes DEF Load
  <2>2. k \notin cut => d = latest[k]
    BY <1>2 DEF Load, Entry, Left
  <2> HIDE DEF d
  <2>3. /\ temp' = [temp EXCEPT ![k] = d] /\ queue' = [queue EXCEPT ![k] = Fresh(d)]
        /\ UNCHANGED <<stored, added, removed, disk, latest, cut, stage, todo>>
        /\ k \in DOMAIN queue /\ stage = "idle"
    BY <1>2 DEF Load, d
  <2> QED
    BY <2>1, <2>2, <2>3
<1>3. ASSUME NEW k \in Key, LoadRaises(k)
      PROVE  Inv'
  BY <1>3 DEF LoadRaises, Contents
<1>4. ASSUME NEW k \in Key, NEW d \in Data, Upload(k, d)
      PROVE  Inv'
  <2>1. d \in Contents /\ Fresh(d) \in Entry /\ Fresh(d).data = d /\ Fresh(d).state = "fresh"
    BY EntryTypes DEF Contents
  <2>2. /\ DOMAIN queue' = {k} \cup DOMAIN queue
        /\ queue'[k] = Fresh(d)
        /\ \A l \in DOMAIN queue \ {k} : queue'[l] = queue[l]
    <3>1. queue' = Put({k}, Fresh(d))
      BY <1>4 DEF Upload
    <3> QED
      BY ONLY <3>1 DEF Put
  <2>3. /\ temp' = [temp EXCEPT ![k] = Missing] /\ latest' = [latest EXCEPT ![k] = d]
        /\ cut' = cut \ {k} /\ UNCHANGED <<individuals, disk, stage, todo>> /\ stage = "idle"
    BY <1>4 DEF Upload
  <2>4. TypeOK' /\ HistoryType' /\ Delivered'
    BY <2>1, <2>2, <2>3 DEF Contents
  <2>5. ReadsMatchQueue' /\ SpentAreCut'
    BY <2>1, <2>2, <2>3
  <2> QED
    BY <2>4, <2>5
<1>5. CASE Commit
  <2>1. /\ DOMAIN queue' = removed \cup DOMAIN queue
        /\ \A l \in removed : queue'[l] = Deletion
        /\ \A l \in DOMAIN queue \ removed : queue'[l] = queue[l]
    <3>1. queue' = Put(removed, Deletion)
      BY <1>5 DEF Commit
    <3> QED
      BY ONLY <3>1 DEF Put
  <2> QED
    BY <1>5, <2>1, EntryTypes DEF Commit
<1>6. ASSUME NEW k \in Key, Save(k)
      PROVE  Inv'
  <2>1. Left(queue[k]) \in Contents /\ (k \notin cut => Left(queue[k]) = latest[k])
    BY <1>6 DEF Save, Entry, Left, Contents
  <2> QED
    BY <1>6, <2>1 DEF Save, Entry
<1>7. ASSUME NEW k \in Key, SaveRaises(k)
      PROVE  Inv'
  BY <1>7 DEF SaveRaises, Entry, Contents
<1>8. ASSUME NEW k \in Key, Remove(k) \/ RemoveRaises(k)
      PROVE  Inv'
  BY <1>8 DEF Remove, RemoveRaises
<1>9. CASE EndCommit \/ Rollback
  BY <1>9, EmptyQueue DEF EndCommit, Rollback
<1>10. CASE Reopen
  BY <1>10 DEF Reopen
<1>11. CASE UNCHANGED vars
  BY <1>11 DEF vars
<1> QED
  BY <1>1, <1>2, <1>3, <1>4, <1>5, <1>6, <1>7, <1>8, <1>9, <1>10, <1>11 DEF Next, FileStep

(* The queue satisfies the invariant after any sequence of operations. *)
LEMMA Invariance == Spec => []Inv
BY InitInv, NextInv, PTL DEF Spec

(* Queue, copies and files belong together, and reading a queued file      *)
(* yields what was queued last, whatever raised before.                    *)
THEOREM QueueStaysConsistent == Spec => []QueueConsistent
<1>1. Inv => QueueConsistent
  BY DEF Inv, QueueConsistent
<1> QED
  BY <1>1, Invariance, PTL

(* A commit that returns has delivered what was queued last, however many  *)
(* saves and deletions of earlier commits raised.                          *)
THEOREM CommitsDeliver == Spec => CommitDelivers
<1>1. Inv /\ EndCommit =>
        /\ \A k \in Uploads \ cut : disk[k] = latest[k]
        /\ \A k \in Deletions : disk[k] = Missing
  BY DEF Inv, Delivered, EndCommit
<1> QED
  BY <1>1, Invariance, PTL DEF CommitDelivers
=============================================================================
