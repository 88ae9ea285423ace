------------------------------ MODULE JobStore ------------------------------
(***************************************************************************)
(* The PostgreSQL job store: tasks, diagnosis items, uploaded originals    *)
(* and the leases under which workers write to them.  Every operation of   *)
(* jobs/store.py is here, together with the repository transactions that   *)
(* compete with it for the same rows (creating a task, editing a profile,  *)
(* revoking or expiring a session, removing originals).                    *)
(*                                                                         *)
(* The clients are the most general ones: whoever was ever given a lease   *)
(* token may call any fenced operation with it, at any time and any number *)
(* of times.  A crashed worker whose last statement is still in flight, a  *)
(* cancelled coroutine whose database thread runs on, and a worker that    *)
(* lost its lease without noticing are all such clients, so a safety       *)
(* property of this module does not depend on how a worker behaves.        *)
(*                                                                         *)
(* A fenced operation is two steps: Begin takes the row locks and makes    *)
(* the first check of the lease, and one of the Commit actions makes the   *)
(* second check and applies the writes.  Time, and everything the row      *)
(* locks do not exclude, can happen in between.                            *)
(***************************************************************************)
EXTENDS Naturals, FiniteSets

CONSTANTS
  Session, Task, Item, Profile,
  Kind,          \* Kind[t]: what the task does
  Owner,         \* Owner[t]: the session that creates it
  Jobs,          \* Jobs[t]: the items of a diagnosis
  About,         \* About[t]: the profile a profile_chat continues
  Holder,        \* Holder[p]: the session a profile belongs to
  LEASE,         \* LEASE_SECONDS
  TASK_TIME,     \* the five minutes a task has
  FILE_DELAY,    \* FILE_CLEANUP_DELAY of an uploaded original
  MAX_ATTEMPTS,  \* how often a task is claimed
  MAX_ACTIVE,    \* unfinished tasks a session may have
  MaxNow,        \* bound: where the clock stops
  MaxVersion     \* bound: manual edits stop at this profile version

Kinds == {"profile_chat", "document_parse", "job_parse", "diagnosis"}

ASSUME ConstantsAssumption ==
  /\ Kind \in [Task -> Kinds]
  /\ Owner \in [Task -> Session]
  /\ Jobs \in [Task -> SUBSET Item]
  /\ \A t \in Task : Jobs[t] # {} <=> Kind[t] = "diagnosis"
  /\ About \in [Task -> Profile]
  /\ Holder \in [Profile -> Session]
  /\ \A t \in Task : Kind[t] = "profile_chat" => Holder[About[t]] = Owner[t]
  /\ IsFiniteSet(Task)
  /\ LEASE \in Nat \ {0} /\ TASK_TIME \in Nat \ {0} /\ FILE_DELAY \in Nat
  /\ MAX_ATTEMPTS \in Nat \ {0} /\ MAX_ACTIVE \in Nat
  /\ MaxNow \in Nat /\ MaxVersion \in Nat

VARIABLES
  now,       \* the clock every transaction reads
  session,   \* "active", "expired" (past expires_at) or "gone" (rows deleted)
  task,      \* rows of tasks
  item,      \* rows of diagnosis_items
  doc,       \* row of documents (and of file_cleanup) behind a document_parse
  latest,    \* latest_version of each profile
  made,      \* resource versions with created_by_task_id = t
  txn        \* the open transaction that holds the FOR UPDATE lock of a task

vars == <<now, session, task, item, doc, latest, made, txn>>

(*-------------------------------- Rows ----------------------------------*)

Attempt == 1..MAX_ATTEMPTS
TERMINAL_ITEMS == {"succeeded", "score_only", "failed"}
ACTIVE == {"queued", "running"}
FINISHED == {"succeeded", "partial", "failed"}
Errors == {"TASK_TIMEOUT", "INTERNAL_ERROR", "REPORTED"}

(* lease_token is a fresh UUID per claim: the number of the claim stands   *)
(* for it.  0 stands for NULL in every column.                             *)
TaskRow == [status : {"none"} \cup ACTIVE \cup FINISHED,
            attempt : 0..MAX_ATTEMPTS, token : 0..MAX_ATTEMPTS,
            lease_until : Nat, deadline_at : Nat, base_version : Nat,
            error : Errors \cup {"none"}]

(* A score is known by the claim that computed it, a report by the score   *)
(* it was written from.                                                    *)
ItemRow == [status : {"none", "pending", "scoring", "reporting"} \cup TERMINAL_ITEMS,
            score : 0..MAX_ATTEMPTS, report : 0..MAX_ATTEMPTS,
            error : Errors \cup {"none"}]

DocRow == [status : {"none", "stored", "processing", "parsed", "failed", "deleted"},
           stored : BOOLEAN,     \* storage_key is set, the original exists
           due : Nat]            \* next_attempt_at of its file_cleanup row

NoTask == [status |-> "none", attempt |-> 0, token |-> 0, lease_until |-> 0,
           deadline_at |-> 0, base_version |-> 0, error |-> "none"]
NoItem == [status |-> "none", score |-> 0, report |-> 0, error |-> "none"]
NoDoc == [status |-> "none", stored |-> FALSE, due |-> 0]

(* What a fenced transaction is about to do.                               *)
ItemCall == [op : {"start_item", "save_score", "finish_item_error"}, item : Item]
              \cup [op : {"finish_item_report"}, item : Item, from : Attempt]
TaskCall == [op : {"load", "finish", "commit_result", "fail"}]
Calls == ItemCall \cup TaskCall
NoTxn == [token |-> 0]
Txn == {NoTxn} \cup [token : Attempt, call : Calls]

Init ==
  /\ now = 0
  /\ session = [s \in Session |-> "active"]
  /\ task = [t \in Task |-> NoTask]
  /\ item = [t \in Task |-> [i \in Item |-> NoItem]]
  /\ doc = [t \in Task |-> NoDoc]
  /\ latest = [p \in Profile |-> 1]
  /\ made = [t \in Task |-> 0]
  /\ txn = [t \in Task |-> NoTxn]

(*--------------------------- Fencing and leases -------------------------*)

(* Definitions named X_How state a plausible mistake in X; nothing uses    *)
(* them but the experiments that show which property each mistake breaks.  *)

Active_Tombstone(s) == session[s] # "expired"
Active(s) == session[s] = "active"

(* _live: the checks that depend on the clock, made twice per transaction. *)
Live(t) ==
  /\ Active(Owner[t])
  /\ now < task[t].lease_until
  /\ now < task[t].deadline_at

(* The fence of _transaction.  FOR UPDATE waits while another transaction  *)
(* holds the row, which is the txn[t] = NoTxn conjunct.                    *)
Fenced_AnyToken(t, token) ==
  txn[t] = NoTxn /\ task[t].status = "running" /\ Live(t) /\ token <= task[t].token
Fenced_AnyStatus(t, token) ==
  txn[t] = NoTxn /\ task[t].token = token /\ Live(t)
Fenced(t, token) ==
  /\ txn[t] = NoTxn
  /\ task[t].status = "running"
  /\ task[t].token = token
  /\ Live(t)

(* The lease a claim or a heartbeat grants.                                *)
LeaseEnd(deadline) == IF now + LEASE < deadline THEN now + LEASE ELSE deadline

(* _candidates and the checks _lock_candidate repeats under SKIP LOCKED.   *)
Candidate_QueuedOnly(t) == task[t].status = "queued"
Candidate(t) ==
  \/ task[t].status = "queued"
  \/ /\ task[t].status = "running"
     /\ task[t].lease_until <= now \/ task[t].deadline_at <= now

LockCandidate_NoRecheck(t) ==
  Active(Owner[t]) /\ txn[t] = NoTxn /\ task[t].status \in ACTIVE
LockCandidate(t) ==
  /\ Active(Owner[t])
  /\ txn[t] = NoTxn
  /\ Candidate(t)

TerminalReason(t) ==
  IF task[t].deadline_at <= now THEN "TASK_TIMEOUT"
  ELSE IF task[t].attempt >= MAX_ATTEMPTS THEN "INTERNAL_ERROR"
  ELSE "none"

(*-------------------- What each operation does to a row -----------------*)

Settled(row) == row.status \in TERMINAL_ITEMS

StartRow(row) ==
  IF Settled(row) THEN row
  ELSE [row EXCEPT !.status = IF row.score # 0 THEN "reporting" ELSE "scoring"]

ScoreRow_Overwrites(row, score) ==
  IF Settled(row) THEN row
  ELSE [row EXCEPT !.score = score, !.status = "reporting"]
ScoreRow(row, score) ==
  IF Settled(row) \/ row.score # 0 THEN row
  ELSE [row EXCEPT !.score = score, !.status = "reporting"]

ReportRow(row, report) ==
  IF Settled(row) THEN row
  ELSE [row EXCEPT !.status = "succeeded", !.report = report]

ErrorRow_Downgrades(row, error) ==
  [row EXCEPT !.status = IF row.score # 0 THEN "score_only" ELSE "failed", !.error = error]
ErrorRow(row, error) ==
  IF Settled(row) THEN row
  ELSE [row EXCEPT !.status = IF row.score # 0 THEN "score_only" ELSE "failed",
                   !.error = error]

Aggregate_ReportsOnly(t, rows) ==
  IF \A i \in Jobs[t] : rows[i].status = "succeeded" THEN "succeeded"
  ELSE IF \E i \in Jobs[t] : rows[i].status = "succeeded" THEN "partial"
  ELSE "failed"

(* The status _aggregate derives from the items of task t.                 *)
Aggregate(t, rows) ==
  IF \A i \in Jobs[t] : rows[i].status = "succeeded" THEN "succeeded"
  ELSE IF \E i \in Jobs[t] : rows[i].score # 0 THEN "partial"
  ELSE "failed"

(* _aggregate and _complete on a diagnosis whose items end as rows.        *)
AggregateRow(t, rows, error) ==
  LET status == Aggregate(t, rows)
  IN  [task[t] EXCEPT
        !.status = status,
        !.error = IF status = "succeeded" THEN "none"
                  ELSE IF status = "failed" /\ error = "none" THEN "INTERNAL_ERROR"
                  ELSE error]

ReleasedRow_NotQueued(row, status) == [row EXCEPT !.status = status]

(* _release_document: hand the original to the cleanup queue now.          *)
ReleasedRow(row, status) ==
  [row EXCEPT !.status = status,
              !.due = IF row.stored /\ now < row.due THEN now ELSE row.due]

ReleaseDocument(t, status) == doc' = [doc EXCEPT ![t] = ReleasedRow(doc[t], status)]

(* _fail_locked: one failure converges the task and all it left open.      *)
FailTask(t, error) ==
  \/ /\ Kind[t] = "diagnosis"
     /\ LET rows == [i \in Item |-> IF i \in Jobs[t] THEN ErrorRow(item[t][i], error)
                                   ELSE item[t][i]]
        IN  /\ item' = [item EXCEPT ![t] = rows]
            /\ task' = [task EXCEPT ![t] = AggregateRow(t, rows, error)]
     /\ UNCHANGED doc
  \/ /\ Kind[t] # "diagnosis"
     /\ task' = [task EXCEPT ![t] = [@ EXCEPT !.status = "failed", !.error = error]]
     /\ IF Kind[t] = "document_parse" THEN ReleaseDocument(t, "failed")
        ELSE UNCHANGED doc
     /\ UNCHANGED item

(*------------------------ Fenced transactions ---------------------------*)

(* The operations that fit the kind of task t: the others raise before     *)
(* they write.                                                             *)
CallsOn(t) ==
  {c \in ItemCall : c.item \in Jobs[t]}
    \cup [op : {"load", "fail", IF Kind[t] = "diagnosis" THEN "finish" ELSE "commit_result"}]

(* _transaction up to its yield: session FOR SHARE, task FOR UPDATE, fence.*)
(* Whoever writes a report has seen a score of this or an earlier claim.   *)
Begin(t, token, call) ==
  /\ Fenced(t, token)
  /\ call \in CallsOn(t)
  /\ call.op = "finish_item_report" => call.from <= token
  /\ txn' = [txn EXCEPT ![t] = [token |-> token, call |-> call]]
  /\ UNCHANGED <<now, session, task, item, doc, latest, made>>

(* An exception in the body, a second _live check that fails, or a lost    *)
(* connection: the writes are rolled back and the locks released.          *)
Rollback(t) ==
  /\ txn[t] # NoTxn
  /\ txn' = [txn EXCEPT ![t] = NoTxn]
  /\ UNCHANGED <<now, session, task, item, doc, latest, made>>

Ending_CheckedOnce(t, op) ==
  /\ txn[t] # NoTxn
  /\ txn[t].call.op = op
  /\ txn' = [txn EXCEPT ![t] = NoTxn]
  /\ UNCHANGED <<now, session>>

Ending(t, op) ==
  /\ txn[t] # NoTxn
  /\ txn[t].call.op = op
  /\ Live(t)
  /\ txn' = [txn EXCEPT ![t] = NoTxn]
  /\ UNCHANGED <<now, session>>

(* load reads a snapshot; for a document it also marks it as being read,   *)
(* and raises when the original is gone.                                   *)
Load(t) ==
  /\ Ending(t, "load")
  /\ \/ Kind[t] = "document_parse" /\ doc[t].stored
        /\ doc' = [doc EXCEPT ![t].status = "processing"]
     \/ Kind[t] # "document_parse" /\ UNCHANGED doc
  /\ UNCHANGED <<task, item, latest, made>>

WriteItem(t, row) ==
  /\ item' = [item EXCEPT ![t][txn[t].call.item] = row]
  /\ UNCHANGED <<task, doc, latest, made>>

StartItem(t) ==
  /\ Ending(t, "start_item")
  /\ WriteItem(t, StartRow(item[t][txn[t].call.item]))

SaveScore(t) ==
  /\ Ending(t, "save_score")
  /\ WriteItem(t, ScoreRow(item[t][txn[t].call.item], txn[t].token))

(* A report is refused unless the score it rests on is already persisted.  *)
FinishItemReport(t) ==
  LET row == item[t][txn[t].call.item]
  IN  /\ Ending(t, "finish_item_report")
      /\ Settled(row) \/ row.score # 0
      /\ WriteItem(t, ReportRow(row, txn[t].call.from))

FinishItemError(t) ==
  /\ Ending(t, "finish_item_error")
  /\ WriteItem(t, ErrorRow(item[t][txn[t].call.item], "REPORTED"))

(* _aggregate refuses to finalize while an item is unfinished.             *)
Finish(t) ==
  /\ Ending(t, "finish")
  /\ \A i \in Jobs[t] : Settled(item[t][i])
  /\ task' = [task EXCEPT ![t] = AggregateRow(t, item[t], "none")]
  /\ UNCHANGED <<item, doc, latest, made>>

(* commit_job, commit_document, commit_chat: the resource version and the  *)
(* task's completion are one transaction.                                  *)
CommitResult(t) ==
  /\ Ending(t, "commit_result")
  /\ \/ /\ Kind[t] = "job_parse"
        /\ UNCHANGED <<doc, latest>>
     \/ /\ Kind[t] = "document_parse"
        /\ ReleaseDocument(t, "parsed")
        /\ UNCHANGED latest
     \/ /\ Kind[t] = "profile_chat"
        /\ latest[About[t]] = task[t].base_version
        /\ latest' = [latest EXCEPT ![About[t]] = @ + 1]
        /\ UNCHANGED doc
  /\ made' = [made EXCEPT ![t] = @ + 1]
  /\ task' = [task EXCEPT ![t] = [@ EXCEPT !.status = "succeeded", !.error = "none"]]
  /\ UNCHANGED item

Fail(t) ==
  /\ Ending(t, "fail")
  /\ FailTask(t, "REPORTED")
  /\ UNCHANGED <<latest, made>>

Heartbeat(t, token) ==
  /\ Fenced(t, token)
  /\ task' = [task EXCEPT ![t].lease_until = LeaseEnd(task[t].deadline_at)]
  /\ UNCHANGED <<now, session, item, doc, latest, made, txn>>

(*------------------------- Claiming and reaping -------------------------*)

Reap(t) ==
  /\ LockCandidate(t)
  /\ TerminalReason(t) # "none"
  /\ FailTask(t, TerminalReason(t))
  /\ UNCHANGED <<now, session, latest, made, txn>>

Claim(t) ==
  /\ LockCandidate(t)
  /\ TerminalReason(t) = "none"
  /\ task' = [task EXCEPT ![t] =
                 [@ EXCEPT !.status = "running",
                           !.attempt = task[t].attempt + 1,
                           !.token = task[t].attempt + 1,
                           !.lease_until = LeaseEnd(task[t].deadline_at)]]
  /\ UNCHANGED <<now, session, item, doc, latest, made, txn>>

(*------------------ Transactions of the API and sweeper -----------------*)

(* FOR UPDATE on a session row waits for the FOR SHARE of open writes.     *)
Unshared(s) == \A t \in Task : Owner[t] = s => txn[t] = NoTxn

ActiveTasks(s) == {t \in Task : Owner[t] = s /\ task[t].status \in ACTIVE}

ProfileBusy_Running(p) ==
  \E t \in Task : Kind[t] = "profile_chat" /\ About[t] = p /\ task[t].status = "running"
ProfileBusy(p) ==
  \E t \in Task : Kind[t] = "profile_chat" /\ About[t] = p /\ task[t].status \in ACTIVE

(* create_task, diagnosis_create and document_create, down to _new_task.   *)
CreateTask(t) ==
  /\ Active(Owner[t]) /\ Unshared(Owner[t])
  /\ task[t].status = "none"
  /\ Kind[t] = "profile_chat" => ~ProfileBusy(About[t])
  /\ Cardinality(ActiveTasks(Owner[t])) < MAX_ACTIVE
  /\ now + TASK_TIME <= MaxNow
  /\ task' = [task EXCEPT ![t] = [NoTask EXCEPT !.status = "queued",
                                     !.deadline_at = now + TASK_TIME,
                                     !.base_version = latest[About[t]]]]
  /\ item' = [item EXCEPT ![t] = [i \in Item |-> IF i \in Jobs[t]
                                     THEN [NoItem EXCEPT !.status = "pending"]
                                     ELSE NoItem]]
  /\ doc' = IF Kind[t] = "document_parse"
            THEN [doc EXCEPT ![t] = [status |-> "stored", stored |-> TRUE,
                                     due |-> now + FILE_DELAY]]
            ELSE doc
  /\ UNCHANGED <<now, session, latest, made, txn>>

(* append: the user edits the newest version of a profile by hand.         *)
EditProfile(p) ==
  /\ Active(Holder[p])
  /\ latest[p] < MaxVersion
  /\ latest' = [latest EXCEPT ![p] = @ + 1]
  /\ UNCHANGED <<now, session, task, item, doc, made, txn>>

(* retry_file_cleanup, when the unlink works.                              *)
RemoveFile(t) ==
  /\ doc[t].stored /\ doc[t].due <= now
  /\ doc' = [doc EXCEPT ![t] = [@ EXCEPT !.stored = FALSE, !.status = "deleted"]]
  /\ UNCHANGED <<now, session, task, item, latest, made, txn>>

Expire(s) ==
  /\ Active(s)
  /\ session' = [session EXCEPT ![s] = "expired"]
  /\ UNCHANGED <<now, task, item, doc, latest, made, txn>>

(* _revoke deletes every row of the session in the transaction that ends   *)
(* it; revoke does so for a user, cleanup_expired for a session past its   *)
(* expires_at.                                                             *)
Revoke(s) ==
  /\ session[s] # "gone" /\ Unshared(s)
  /\ session' = [session EXCEPT ![s] = "gone"]
  /\ task' = [t \in Task |-> IF Owner[t] = s THEN NoTask ELSE task[t]]
  /\ item' = [t \in Task |-> IF Owner[t] = s THEN [i \in Item |-> NoItem] ELSE item[t]]
  /\ doc' = [t \in Task |-> IF Owner[t] = s THEN NoDoc ELSE doc[t]]
  /\ made' = [t \in Task |-> IF Owner[t] = s THEN 0 ELSE made[t]]
  /\ latest' = [p \in Profile |-> IF Holder[p] = s THEN 0 ELSE latest[p]]
  /\ UNCHANGED <<now, txn>>

CleanupExpired(s) == session[s] = "expired" /\ Revoke(s)

Tick ==
  /\ now < MaxNow
  /\ now' = now + 1
  /\ UNCHANGED <<session, task, item, doc, latest, made, txn>>

(*------------------------------ Specification ---------------------------*)

Commit(t) ==
  Load(t) \/ StartItem(t) \/ SaveScore(t) \/ FinishItemReport(t) \/ FinishItemError(t)
    \/ Finish(t) \/ CommitResult(t) \/ Fail(t)

Next ==
  \/ \E t \in Task :
       \/ CreateTask(t) \/ Claim(t) \/ Reap(t) \/ RemoveFile(t)
       \/ \E token \in Attempt : Heartbeat(t, token) \/ \E c \in Calls : Begin(t, token, c)
       \/ Commit(t) \/ Rollback(t)
  \/ \E p \in Profile : EditProfile(p)
  \/ \E s \in Session : Expire(s) \/ Revoke(s)
  \/ Tick

Spec == Init /\ [][Next]_vars

(*-------------------------------- Properties ----------------------------*)

(* Every row has the columns and the values its table admits; a task is    *)
(* never claimed more than MAX_ATTEMPTS times.                             *)
TypeOK ==
  /\ now \in Nat
  /\ session \in [Session -> {"active", "expired", "gone"}]
  /\ task \in [Task -> TaskRow]
  /\ item \in [Task -> [Item -> ItemRow]]
  /\ doc \in [Task -> DocRow]
  /\ latest \in [Profile -> Nat]
  /\ made \in [Task -> Nat]
  /\ txn \in [Task -> Txn]

(* However often a task is claimed, renewed, abandoned or retried by a     *)
(* stale client, it leaves exactly one resource version, and exactly when  *)
(* it succeeds; a diagnosis leaves none.                                   *)
OneResult ==
  \A t \in Task :
    made[t] = IF task[t].status = "succeeded" /\ Kind[t] # "diagnosis" THEN 1 ELSE 0

(* The row locks keep the fence of an open transaction true until it ends: *)
(* no claim, reap, completion or revocation can slip in between, and it is *)
(* about to do what the kind of its task allows.                           *)
OpenFence ==
  \A t \in Task : txn[t] # NoTxn =>
    /\ task[t].status = "running"
    /\ task[t].token = txn[t].token
    /\ txn[t].call \in CallsOn(t)
    /\ session[Owner[t]] # "gone"

(* No lease, granted or renewed, outlives the deadline of its task.        *)
LeaseWithinDeadline ==
  \A t \in Task : task[t].lease_until <= task[t].deadline_at

(* The status of a finished diagnosis tells the outcomes of its items, on  *)
(* every path: the worker's finish, its failure, and the reaper's.         *)
StatusSummarisesItems ==
  \A t \in Task : Kind[t] = "diagnosis" /\ task[t].status \in FINISHED =>
    LET done == {i \in Jobs[t] : item[t][i].status = "succeeded"}
        scored == {i \in Jobs[t] : item[t][i].status \in {"succeeded", "score_only"}}
    IN  /\ \A i \in Jobs[t] : Settled(item[t][i])
        /\ task[t].status = "succeeded" <=> done = Jobs[t]
        /\ task[t].status = "failed" <=> scored = {}

(* Two conversations never run on one profile.                             *)
OneChatPerProfile ==
  \A t, u \in Task :
    /\ Kind[t] = "profile_chat" /\ Kind[u] = "profile_chat" /\ About[t] = About[u]
    /\ task[t].status \in ACTIVE /\ task[u].status \in ACTIVE
    => t = u

(* When a document task ends, however it ends, its original is due for     *)
(* removal at once.                                                        *)
OriginalReleased ==
  \A t \in Task : Kind[t] = "document_parse" /\ task[t].status \in FINISHED =>
    ~doc[t].stored \/ doc[t].due <= now

(* Once a session is deleted nothing of it is left or comes back.          *)
ErasedForGood ==
  \A t \in Task : session[Owner[t]] = "gone" =>
    task[t] = NoTask /\ made[t] = 0 /\ doc[t] = NoDoc /\ \A i \in Item : item[t][i] = NoItem

Erased(t) == session'[Owner[t]] = "gone"

(* A finished task and a settled item never change again, and a persisted  *)
(* score is never replaced, not even by a second claim that scored anew.   *)
Frozen(t) ==
  \/ Erased(t)
  \/ /\ task[t].status \in FINISHED => task'[t] = task[t]
     /\ \A i \in Item :
          /\ Settled(item[t][i]) => item'[t][i] = item[t][i]
          /\ item[t][i].score # 0 => item'[t][i].score = item[t][i].score
ResultsFrozen == [][\A t \in Task : Frozen(t)]_vars

(* A lease that is still running is never handed to somebody else.         *)
NotStolen(t) ==
  task'[t].token # task[t].token /\ ~Erased(t)
    => task[t].lease_until <= now \/ task[t].deadline_at <= now
LeaseNotStolen == [][\A t \in Task : NotStolen(t)]_vars

(* Something the client produced is written: a version, a score, a report. *)
Writes(t) ==
  \/ made'[t] > made[t]
  \/ \E i \in Item : item'[t][i].score > item[t][i].score
  \/ \E i \in Item : item'[t][i].report # item[t][i].report /\ item'[t][i].report # 0

(* Produced results are written only while the session, the lease and the  *)
(* deadline all hold, whatever was waited for since the fence was checked. *)
WritesWithinLease ==
  [][\A t \in Task : Writes(t) =>
       /\ session[Owner[t]] = "active"
       /\ now < task[t].lease_until /\ now < task[t].deadline_at]_vars

(* A score is written by the claim that computed it while that claim is    *)
(* the latest: a worker that was replaced cannot write.                    *)
WritesByHolder ==
  [][\A t \in Task : \A i \in Item : item'[t][i].score > item[t][i].score =>
       item'[t][i].score = task[t].attempt]_vars

(* Every accepted task ends, whether or not a worker ever finishes it, or  *)
(* is deleted with its session.                                            *)
EveryTaskEnds ==
  \A t \in Task : (task[t].status \in ACTIVE) ~> (task[t].status \notin ACTIVE)

(* The store implements the abstract life cycle.                           *)
Lifecycle == INSTANCE TaskLifecycle WITH
  Diagnosis <- {t \in Task : Kind[t] = "diagnosis"},
  Selected <- Jobs,
  phase <- [t \in Task |-> IF session[Owner[t]] = "gone" THEN "erased" ELSE task[t].status],
  outcome <- [t \in Task |-> [i \in Item |->
                IF Settled(item[t][i]) THEN item[t][i].status ELSE "open"]],
  results <- made

ImplementsLifecycle == Lifecycle!Spec
=============================================================================
