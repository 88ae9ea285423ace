------------------------------- MODULE Uploads -------------------------------
(***************************************************************************)
(* Uploaded originals from the request to the removal: document_create,    *)
(* the durable cleanup queue, the cleanup loops of the API and of the      *)
(* workers, the release at the end of the parsing task, and the deletion   *)
(* of the session.  Files and rows live in different stores, nothing makes *)
(* a change of both atomic, and a process can die between any two steps.   *)
(*                                                                         *)
(* An upload is one call of document_create; it draws a storage key of its *)
(* own, so uploads stand for storage keys too.  Uploads with one           *)
(* idempotency key are retries of one request, for as long as a key is     *)
(* kept: after 24 hours the next one is a new request.                     *)
(***************************************************************************)
EXTENDS Naturals, FiniteSets

CONSTANTS
  Upload,
  Key, KeyOf,     \* the idempotency key an upload is sent with
  Cleaner,        \* processes that call retry_file_cleanup
  DELAY,          \* FILE_CLEANUP_DELAY
  RETRY,          \* the minute after which a failed removal is tried again
  KEY_LIFE,       \* the 24 hours a key is kept
  Nobody,
  MaxNow,         \* bound: where the clock stops
  MaxFaults       \* bound: crashes, database and file system errors

ASSUME UploadsAssumption ==
  /\ KeyOf \in [Upload -> Key]
  /\ DELAY \in Nat \ {0} /\ RETRY \in Nat \ {0} /\ KEY_LIFE \in Nat \ {0}
  /\ MaxNow \in Nat /\ MaxFaults \in Nat
  /\ Nobody \notin Upload

VARIABLES
  now, faults,
  alive,      \* the session exists and is not revoked
  holder,     \* the upload that holds the session row FOR UPDATE
  call,       \* where each call of document_create is, when it asked for its
              \* key, and what it answers
  disk,       \* originals in the upload directory
  queue,      \* rows of file_cleanup
  doc,        \* rows of documents
  keys,       \* rows of idempotency_keys: the upload whose task is replayed,
              \* created when that upload asked
  sweep       \* the open transaction of each cleaner

vars == <<now, faults, alive, holder, call, disk, queue, doc, keys, sweep>>

Step == {"idle", "reserved", "locked", "written", "unlink", "expedite", "discard", "over"}

CallRow == [at : Step, asked : Nat, answer : Upload \cup {Nobody}]

NoRow == [exists |-> FALSE, created |-> 0, due |-> 0]
NoDoc == [task |-> "none", stored |-> FALSE]
NoSweep == [rows |-> {}, unlinked |-> {}, again |-> [u \in Upload |-> 0]]

Init ==
  /\ now = 0 /\ faults = 0 /\ alive = TRUE
  /\ holder = Nobody
  /\ call = [u \in Upload |-> [at |-> "idle", asked |-> 0, answer |-> Nobody]]
  /\ disk = {}
  /\ queue = [u \in Upload |-> NoRow]
  /\ doc = [u \in Upload |-> NoDoc]
  /\ keys = [k \in Key |-> Nobody]
  /\ sweep = [c \in Cleaner |-> NoSweep]

(*------------------------------- Helpers --------------------------------*)

At(u, step) == call[u].at = step
Goto(u, step) == call' = [call EXCEPT ![u].at = step]
Working(u) == call[u].at \notin {"idle", "over"}
Fault == faults < MaxFaults /\ faults' = faults + 1
Unlock(u) == holder' = IF holder = u THEN Nobody ELSE holder

(* FOR UPDATE on a row of file_cleanup by an open cleanup transaction.     *)
RowLocked(u) == \E c \in Cleaner : u \in sweep[c].rows

(* _queue_file: INSERT ... ON CONFLICT keeps the earlier due time.         *)
Queued(row, due) ==
  IF row.exists THEN [row EXCEPT !.due = IF due < @ THEN due ELSE @]
  ELSE [exists |-> TRUE, created |-> now, due |-> due]

(* _key: the upload whose answer a key replays, while the key is kept.     *)
Fresh(first) == now < call[first].asked + KEY_LIFE
Replay_Never(u) == Nobody
Replay(u) ==
  LET first == keys[KeyOf[u]]
  IN IF first # Nobody /\ Fresh(first) THEN first ELSE Nobody

(*---------------------------- document_create ---------------------------*)

(* The reservation commits before anything is written.                     *)
Reserve(u) ==
  /\ At(u, "idle") /\ alive /\ holder = Nobody
  /\ now + DELAY <= MaxNow
  /\ queue' = [queue EXCEPT ![u] = Queued(@, now + DELAY)]
  /\ Goto(u, "reserved")
  /\ UNCHANGED <<now, faults, alive, holder, disk, doc, keys, sweep>>

(* The resource transaction takes the session FOR UPDATE and looks for the *)
(* key, of which it keeps a row of its own if there is none or an old one; *)
(* a replayed request and a dead session need the reservation no more.     *)
Lock(u) ==
  /\ At(u, "reserved") /\ holder = Nobody
  /\ IF alive /\ Replay(u) = Nobody
     THEN /\ call' = [call EXCEPT ![u] = [at |-> "locked", asked |-> now, answer |-> Nobody]]
          /\ holder' = u
     ELSE /\ call' = [call EXCEPT ![u] =
                        [at |-> "discard", asked |-> now, answer |-> Replay(u)]]
          /\ UNCHANGED holder
  /\ UNCHANGED <<now, faults, alive, disk, queue, doc, keys, sweep>>

CreateFile(u) ==
  /\ At(u, "locked")
  /\ disk' = disk \cup {u}
  /\ Goto(u, "written")
  /\ UNCHANGED <<now, faults, alive, holder, queue, doc, keys, sweep>>

(* mkdir or os.open fails: there is no file to remove.                     *)
CreateFails(u) ==
  /\ Fault /\ At(u, "locked")
  /\ Goto(u, "discard") /\ Unlock(u)
  /\ UNCHANGED <<now, alive, disk, queue, doc, keys, sweep>>

(* The write fails, the session has two active tasks already, or the       *)
(* connection breaks: the transaction is rolled back.                      *)
Rejected(u) ==
  /\ At(u, "written")
  /\ Goto(u, "unlink") /\ Unlock(u)
  /\ UNCHANGED <<now, faults, alive, disk, queue, doc, keys, sweep>>

Committed(u) ==
  /\ doc' = [doc EXCEPT ![u] = [task |-> "open", stored |-> TRUE]]
  /\ keys' = [keys EXCEPT ![KeyOf[u]] = u]
  /\ Unlock(u)
  /\ UNCHANGED <<now, alive, disk, queue, sweep>>

Commit(u) ==
  /\ At(u, "written")
  /\ Committed(u)
  /\ call' = [call EXCEPT ![u].at = "over", ![u].answer = u]
  /\ UNCHANGED faults

(* The connection breaks after the server committed.                       *)
CommitUnknown(u) ==
  /\ Fault /\ At(u, "written")
  /\ Committed(u)
  /\ Goto(u, "unlink")

(* The except clause removes the file it created, the finally clause drops *)
(* the reservation unless the file may still be there.                     *)
Unlink(u) ==
  /\ At(u, "unlink")
  /\ disk' = disk \ {u}
  /\ Goto(u, "discard")
  /\ UNCHANGED <<now, faults, alive, holder, queue, doc, keys, sweep>>

UnlinkFails_Discards(u) ==
  /\ Fault /\ At(u, "unlink")
  /\ Goto(u, "discard")
  /\ UNCHANGED <<now, alive, holder, disk, queue, doc, keys, sweep>>
UnlinkFails(u) ==
  /\ Fault /\ At(u, "unlink")
  /\ Goto(u, "expedite")
  /\ UNCHANGED <<now, alive, holder, disk, queue, doc, keys, sweep>>

Expedite(u) ==
  /\ At(u, "expedite") /\ ~RowLocked(u)
  /\ queue' = [queue EXCEPT ![u] = Queued(@, now)]
  /\ Goto(u, "over")
  /\ UNCHANGED <<now, faults, alive, holder, disk, doc, keys, sweep>>

Discard(u) ==
  /\ At(u, "discard") /\ ~RowLocked(u)
  /\ queue' = [queue EXCEPT ![u] = NoRow]
  /\ Goto(u, "over")
  /\ UNCHANGED <<now, faults, alive, holder, disk, doc, keys, sweep>>

(* Both only log a warning when the database fails.                        *)
BookkeepingFails(u) ==
  /\ Fault
  /\ At(u, "expedite") \/ At(u, "discard")
  /\ Goto(u, "over")
  /\ UNCHANGED <<now, alive, holder, disk, queue, doc, keys, sweep>>

(* The API process dies: its calls end wherever they are.                  *)
Crash ==
  /\ Fault /\ \E u \in Upload : Working(u)
  /\ call' = [u \in Upload |-> IF Working(u)
                           THEN [call[u] EXCEPT !.at = "over", !.answer = Nobody] ELSE call[u]]
  /\ holder' = Nobody
  /\ UNCHANGED <<now, alive, disk, queue, doc, keys, sweep>>

(*-------------------------- retry_file_cleanup --------------------------*)

Due_Early(u) == queue[u].exists
Due(u) == queue[u].exists /\ queue[u].due <= now

(* One transaction locks all due rows nobody else has locked.              *)
Take(c) ==
  LET rows == {u \in Upload : Due(u) /\ ~RowLocked(u)}
  IN  /\ sweep[c] = NoSweep /\ rows # {}
      /\ sweep' = [sweep EXCEPT ![c] = [NoSweep EXCEPT !.rows = rows]]
      /\ UNCHANGED <<now, faults, alive, holder, call, disk, queue, doc, keys>>

Kept(c) == {u \in sweep[c].rows : sweep[c].again[u] # 0}
Left(c) == sweep[c].rows \ (sweep[c].unlinked \cup Kept(c))

RemoveFile(c, u) ==
  /\ u \in Left(c)
  /\ disk' = disk \ {u}
  /\ sweep' = [sweep EXCEPT ![c].unlinked = @ \cup {u}]
  /\ UNCHANGED <<now, faults, alive, holder, call, queue, doc, keys>>

RemoveFails(c, u) ==
  /\ Fault /\ u \in Left(c)
  /\ now + RETRY <= MaxNow
  /\ sweep' = [sweep EXCEPT ![c].again[u] = now + RETRY]
  /\ UNCHANGED <<now, alive, holder, call, disk, queue, doc, keys>>

Gone_EvenKept(c) == sweep[c].rows
Gone(c) == sweep[c].unlinked

(* The rows and the documents of the batch change in one commit.           *)
EndSweep(c) ==
  /\ sweep[c].rows # {} /\ Left(c) = {}
  /\ queue' = [u \in Upload |-> IF u \in Gone(c) THEN NoRow
                               ELSE IF u \in Kept(c)
                               THEN [queue[u] EXCEPT !.due = sweep[c].again[u]] ELSE queue[u]]
  /\ doc' = [u \in Upload |-> IF u \in Gone(c) THEN [doc[u] EXCEPT !.stored = FALSE] ELSE doc[u]]
  /\ sweep' = [sweep EXCEPT ![c] = NoSweep]
  /\ UNCHANGED <<now, faults, alive, holder, call, disk, keys>>

(* The process or its connection dies: rows and documents are as before,   *)
(* the files already unlinked are not.                                     *)
AbortSweep(c) ==
  /\ Fault /\ sweep[c].rows # {}
  /\ sweep' = [sweep EXCEPT ![c] = NoSweep]
  /\ UNCHANGED <<now, alive, holder, call, disk, queue, doc, keys>>

(*----------------------- End of task, end of session --------------------*)

(* _release_document in the transaction that ends the parsing task.        *)
Release(u) ==
  /\ doc[u].task = "open" /\ holder = Nobody
  /\ doc[u].stored => ~RowLocked(u)
  /\ queue' = IF doc[u].stored THEN [queue EXCEPT ![u] = Queued(@, now)] ELSE queue
  /\ doc' = [doc EXCEPT ![u].task = "ended"]
  /\ UNCHANGED <<now, faults, alive, holder, call, disk, keys, sweep>>

(* _revoke queues the originals in the transaction that forgets them.      *)
Revoke ==
  /\ alive /\ holder = Nobody
  /\ \A u \in Upload : doc[u].stored => ~RowLocked(u)
  /\ alive' = FALSE
  /\ queue' = [u \in Upload |-> IF doc[u].stored THEN Queued(queue[u], now) ELSE queue[u]]
  /\ doc' = [u \in Upload |-> NoDoc]
  /\ keys' = [k \in Key |-> Nobody]
  /\ UNCHANGED <<now, faults, holder, call, disk, sweep>>

(* Assumed: no call is so slow that its own reservation falls due.         *)
Tick ==
  /\ now < MaxNow
  /\ \A u \in Upload : Working(u) /\ queue[u].exists => now + 1 < queue[u].created + DELAY
  /\ now' = now + 1
  /\ UNCHANGED <<faults, alive, holder, call, disk, queue, doc, keys, sweep>>

(*------------------------------ Specification ---------------------------*)

CallStep(u) ==
  \/ Reserve(u) \/ Lock(u) \/ CreateFile(u) \/ Rejected(u) \/ Commit(u)
  \/ Unlink(u) \/ Expedite(u) \/ Discard(u)
CallFault(u) == CreateFails(u) \/ CommitUnknown(u) \/ UnlinkFails(u) \/ BookkeepingFails(u)
SweepStep(c) == Take(c) \/ EndSweep(c) \/ \E u \in Upload : RemoveFile(c, u)
SweepFault(c) == AbortSweep(c) \/ \E u \in Upload : RemoveFails(c, u)

Next ==
  \/ \E u \in Upload : CallStep(u) \/ CallFault(u) \/ Release(u)
  \/ \E c \in Cleaner : SweepStep(c) \/ SweepFault(c)
  \/ Crash \/ Revoke \/ Tick

Spec == Init /\ [][Next]_vars

(* Calls run to their end, the cleanup loops go on, the clock runs.        *)
FairSpec ==
  /\ Spec /\ WF_vars(Tick)
  /\ \A u \in Upload : WF_vars(Working(u) /\ CallStep(u))
  /\ \A c \in Cleaner : WF_vars(SweepStep(c))

(*-------------------------------- Properties ----------------------------*)

(* Rows, calls and sweeps are well-formed, and the session is locked by    *)
(* exactly the call whose resource transaction is open.                    *)
TypeOK ==
  /\ now \in 0..MaxNow /\ faults \in 0..MaxFaults /\ alive \in BOOLEAN
  /\ holder \in Upload \cup {Nobody}
  /\ \A u \in Upload : holder = u <=> call[u].at \in {"locked", "written"}
  /\ call \in [Upload -> CallRow]
  /\ disk \subseteq Upload
  /\ queue \in [Upload -> [exists : BOOLEAN, created : Nat, due : Nat]]
  /\ doc \in [Upload -> [task : {"none", "open", "ended"}, stored : BOOLEAN]]
  /\ keys \in [Key -> Upload \cup {Nobody}]
  /\ sweep \in [Cleaner -> [rows : SUBSET Upload, unlinked : SUBSET Upload,
                            again : [Upload -> Nat]]]

(* No original is ever on disk without a row that will have it removed,    *)
(* whichever step a crash, a rollback, a lost commit or a failed unlink    *)
(* comes after.                                                            *)
FileReserved == \A u \in disk : queue[u].exists

(* While the task of an acknowledged upload is open its original stays     *)
(* reserved, and it is there to be read until the reservation has lasted.  *)
OriginalKept ==
  \A u \in Upload :
    call[u].answer = u /\ doc[u].task = "open" /\ doc[u].stored =>
      queue[u].exists /\ (now < queue[u].created + DELAY => u \in disk)

(* A document whose row says that the original is gone has none.           *)
DeletedMeansGone == \A u \in disk : doc[u].task # "none" => doc[u].stored

(* Tasks created under one key are 24 hours apart, so a retry within that  *)
(* time creates none; and whoever is answered is answered with a task of   *)
(* that very request, made less than 24 hours before.                      *)
RetriesAgree ==
  alive =>
    /\ \A u, v \in Upload :
         KeyOf[u] = KeyOf[v] /\ u # v /\ doc[u].task # "none" /\ doc[v].task # "none" =>
           call[u].asked + KEY_LIFE <= call[v].asked \/ call[v].asked + KEY_LIFE <= call[u].asked
    /\ \A u \in Upload : call[u].answer # Nobody =>
         LET first == call[u].answer
         IN  /\ KeyOf[first] = KeyOf[u] /\ doc[first].task # "none"
             /\ call[u].asked < call[first].asked + KEY_LIFE

(* Every original is removed at last.                                      *)
EveryOriginalRemoved == \A u \in Upload : u \in disk ~> u \notin disk
=============================================================================
