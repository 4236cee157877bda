------------------------------- MODULE FileQueue -------------------------------
(***************************************************************************)
(* The file side of InterfaceDriver on a Dataspace: byte streams queued by *)
(* File.upload and File.overwrite, the copies made when a queued file is   *)
(* read, and the saves and deletions of a commit, each of which may raise. *)
(*                                                                         *)
(* A byte stream is read as a whole.  The queue is a Python dictionary;    *)
(* here a commit works through it in any order.                            *)
(***************************************************************************)
EXTENDS Naturals

CONSTANTS Key,             \* identifiers of File individuals
          Data             \* non-empty file contents

Empty   == "empty"         \* the contents of an empty or truncated file
Missing == "missing"       \* there is no such file

Contents == Data \cup {Empty}

(* An entry of the queue: a byte stream, or None for a deletion. *)
Entry    == [data : Contents, state : {"fresh", "spent", "closed", "none"}]
Fresh(d) == [data |-> d, state |-> "fresh"]
Deletion == [data |-> Empty, state |-> "none"]

VARIABLES stored, added, removed,  \* File individuals: base graph and buffers
          queue,                   \* _queue
          temp,                    \* _file_cache: copies of queued files
          disk,                    \* files of the Dataspace
          latest,                  \* what was last queued for a key (history)
          cut,                     \* keys whose stream was cut short (history)
          stage, todo              \* control, and keys left in this commit

individuals == <<stored, added, removed>>
history == <<latest, cut>>
vars == <<individuals, queue, temp, disk, history, stage, todo>>

Uploads  == {k \in DOMAIN queue : queue[k].state # "none"}
Deletions == DOMAIN queue \ Uploads

(* The queue with an entry put for every key of K. *)
Put(K, entry) == [k \in K \cup DOMAIN queue |-> IF k \in K THEN entry ELSE queue[k]]

(* What there is left to read of a byte stream that is open. *)
Left(stream) == IF stream.state = "fresh" THEN stream.data ELSE Empty

-----------------------------------------------------------------------------
(* Faulty variants of the definitions below: the properties must notice    *)
(* each of them.                                                           *)

FaultyUpload(k, d) ==
    /\ stage = "idle"
    /\ queue' = Put({k}, Fresh(d))
    /\ latest' = [latest EXCEPT ![k] = d]
    /\ cut' = cut \ {k}
    /\ UNCHANGED <<individuals, temp, disk, stage, todo>>

FaultyLoad(k) ==
    /\ stage = "idle" /\ k \in Uploads /\ temp[k] = Missing
    /\ queue[k].state # "closed"
    /\ temp' = [temp EXCEPT ![k] = Left(queue[k])]
    /\ queue' = [queue EXCEPT ![k].state = "spent"]
    /\ UNCHANGED <<individuals, disk, history, stage, todo>>

(* Keeps the queue, with its streams rewound. *)
FaultyEndCommit ==
    /\ stage = "files" /\ todo = {}
    /\ added' = {} /\ removed' = {}
    /\ queue' = [k \in Uploads |-> Fresh(queue[k].data)]
    /\ stage' = "idle"
    /\ UNCHANGED <<stored, temp, disk, history, todo>>

-----------------------------------------------------------------------------
Init ==
    /\ stored \in SUBSET Key /\ added = {} /\ removed = {}
    /\ queue = <<>>
    /\ temp = [k \in Key |-> Missing]
    /\ disk \in [Key -> Data \cup {Missing}]
    /\ \A k \in Key \ stored : disk[k] = Missing
    /\ latest = [k \in Key |-> Missing] /\ cut = {}
    /\ stage = "idle" /\ todo = {}

(* The session creates or deletes a File individual. *)
Create(k) ==
    /\ stage = "idle" /\ k \notin (stored \ removed) \cup added
    /\ added' = added \cup {k} /\ removed' = removed \ {k}
    /\ UNCHANGED <<stored, queue, temp, disk, history, stage, todo>>

Delete(k) ==
    /\ stage = "idle" /\ k \in (stored \ removed) \cup added
    /\ added' = added \ {k}
    /\ removed' = removed \cup ({k} \cap stored)
    /\ UNCHANGED <<stored, queue, temp, disk, history, stage, todo>>

(* `queue', called by File.upload and File.overwrite: a copy made of an    *)
(* earlier stream is forgotten.                                            *)
Upload(k, d) ==
    /\ stage = "idle" /\ k \in (stored \ removed) \cup added
    /\ temp' = [temp EXCEPT ![k] = Missing]
    /\ queue' = Put({k}, Fresh(d))
    /\ latest' = [latest EXCEPT ![k] = d]
    /\ cut' = cut \ {k}
    /\ UNCHANGED <<individuals, disk, stage, todo>>

(* `load' of a queued file that has no copy yet: the stream is copied and  *)
(* the queue gets a new stream on the copy.                                *)
Load(k) ==
    /\ stage = "idle" /\ k \in Uploads /\ temp[k] = Missing
    /\ queue[k].state # "closed"
    /\ temp' = [temp EXCEPT ![k] = Left(queue[k])]
    /\ queue' = [queue EXCEPT ![k] = Fresh(Left(queue[k]))]
    /\ UNCHANGED <<individuals, disk, history, stage, todo>>

(* The copy is created before the stream is read: a closed stream, or the  *)
(* None of a deletion, raises and leaves an empty copy behind.             *)
LoadRaises(k) ==
    /\ stage = "idle" /\ temp[k] = Missing
    /\ \/ k \in Deletions
       \/ k \in Uploads /\ queue[k].state = "closed"
    /\ temp' = [temp EXCEPT ![k] = Empty]
    /\ UNCHANGED <<individuals, queue, disk, history, stage, todo>>

(* `commit' applies the buffers to the base graph and queues the deletion  *)
(* of the files of deleted individuals.                                    *)
Commit ==
    /\ stage = "idle"
    /\ stored' = (stored \ removed) \cup added
    /\ queue' = Put(removed, Deletion)
    /\ temp' = [k \in Key |-> IF k \in removed THEN Missing ELSE temp[k]]
    /\ stage' = "files"
    /\ todo' = DOMAIN queue'
    /\ UNCHANGED <<added, removed, disk, history>>

(* Dataspace.save, after which the driver closes the stream. *)
Save(k) ==
    /\ stage = "files" /\ k \in todo \cap Uploads
    /\ queue[k].state # "closed"
    /\ disk' = [disk EXCEPT ![k] = Left(queue[k])]
    /\ queue' = [queue EXCEPT ![k].state = "closed"]
    /\ todo' = todo \ {k}
    /\ UNCHANGED <<individuals, temp, history, stage>>

(* The target is opened for writing first: a closed stream raises, and an  *)
(* interrupted copy stops, when the old contents are gone.                 *)
SaveRaises(k) ==
    /\ stage = "files" /\ k \in todo \cap Uploads
    /\ \/ queue[k].state = "closed" /\ UNCHANGED <<queue, cut>>
       \/ /\ queue[k].state # "closed"
          /\ queue' = [queue EXCEPT ![k].state = "spent"]
          /\ cut' = cut \cup {k}
    /\ disk' = [disk EXCEPT ![k] = Empty]
    /\ stage' = "idle" /\ todo' = {}
    /\ UNCHANGED <<individuals, temp, latest>>

(* Dataspace.delete unlinks the file. *)
Remove(k) ==
    /\ stage = "files" /\ k \in todo \cap Deletions
    /\ disk[k] # Missing
    /\ disk' = [disk EXCEPT ![k] = Missing]
    /\ todo' = todo \ {k}
    /\ UNCHANGED <<individuals, queue, temp, history, stage>>

(* There is no such file, or the operating system refuses to unlink it. *)
RemoveRaises(k) ==
    /\ stage = "files" /\ k \in todo \cap Deletions
    /\ stage' = "idle" /\ todo' = {}
    /\ UNCHANGED <<individuals, queue, temp, disk, history>>

EndCommit ==
    /\ stage = "files" /\ todo = {}
    /\ added' = {} /\ removed' = {}
    /\ queue' = <<>>
    /\ stage' = "idle"
    /\ UNCHANGED <<stored, temp, disk, history, todo>>

(* `rollback' closes the streams and empties the queue; copies stay. *)
Rollback ==
    /\ stage = "idle"
    /\ added' = {} /\ removed' = {}
    /\ queue' = <<>>
    /\ UNCHANGED <<stored, temp, disk, history, stage, todo>>

(* `close' and `open' reset the buffers and replace the directory of the   *)
(* copies; the queue is kept.                                              *)
Reopen ==
    /\ stage = "idle"
    /\ added' = {} /\ removed' = {}
    /\ temp' = [k \in Key |-> Missing]
    /\ UNCHANGED <<stored, queue, disk, history, stage, todo>>

FileStep == \E k \in Key : Save(k) \/ SaveRaises(k) \/ Remove(k) \/ RemoveRaises(k)

Next ==
    \/ \E k \in Key : Create(k) \/ Delete(k) \/ Load(k) \/ LoadRaises(k)
    \/ \E k \in Key, d \in Data : Upload(k, d)
    \/ Commit \/ FileStep \/ EndCommit
    \/ Rollback \/ Reopen

Spec == Init /\ [][Next]_vars

(* A user who keeps committing, a driver that keeps running, and a disk on *)
(* which a save that is tried again and again succeeds at last.            *)
CommittingSpec ==
    /\ Spec
    /\ WF_vars(Commit) /\ WF_vars(FileStep) /\ WF_vars(EndCommit)
    /\ \A k \in Key : SF_vars(Save(k))
-----------------------------------------------------------------------------
(* Type invariant of the queue, the copies and the stored files; no        *)
(* individual is buffered for both addition and deletion.                  *)
TypeOK ==
    /\ added \cap removed = {}
    /\ stored \subseteq Key /\ added \subseteq Key /\ removed \subseteq Key
    /\ DOMAIN queue \subseteq Key /\ \A k \in DOMAIN queue : queue[k] \in Entry
    /\ temp \in [Key -> Contents \cup {Missing}]
    /\ disk \in [Key -> Contents \cup {Missing}]
    /\ cut \subseteq Key
    /\ stage \in {"idle", "files"} /\ todo \subseteq Key

(* As long as a queued stream is unread, reading the file before the       *)
(* commit yields what was queued last, and so does the commit: `load'      *)
(* replaces the stream it reads and `queue' drops the copy of an earlier   *)
(* stream.                                                                 *)
ReadsMatchQueue ==
    \A k \in Uploads \ cut : queue[k].state = "fresh" =>
        queue[k].data = latest[k] /\ temp[k] \in {Missing, latest[k]}

(* The queue, the copies and the files keep their types and belong         *)
(* together, through every failure, retry, rollback and reopening.         *)
QueueConsistent == TypeOK /\ ReadsMatchQueue

(* A commit that returns has stored what was queued last for every key,    *)
(* however often it was read before, and removed the file of every         *)
(* deletion, after any number of earlier commits that raised.  Only a      *)
(* stream that an earlier save has cut short is delivered incomplete.      *)
CommitDelivers ==
    [][EndCommit => /\ \A k \in Uploads \ cut : disk[k] = latest[k]
                    /\ \A k \in Deletions : disk[k] = Missing]_vars

(* What makes every further commit raise: a deletion with no file to       *)
(* unlink, or a stream that an unfinished commit has saved and closed.     *)
Wedged ==
    /\ stage = "idle"
    /\ \/ \E k \in removed \cup Deletions : disk[k] = Missing
       \/ \E k \in Uploads : queue[k].state = "closed"

(* A queued file is sent ("When a commit is performed, the data is sent")  *)
(* if the user keeps committing, or its upload is given up by a rollback,  *)
(* unless commits have become impossible.                                  *)
UploadsSent == \A k \in Key : k \in Uploads ~> k \notin Uploads \/ Wedged
=============================================================================
