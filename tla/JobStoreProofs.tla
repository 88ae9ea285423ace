--------------------------- MODULE JobStoreProofs ---------------------------
(***************************************************************************)
(* Proofs about the job store, for any number of sessions, tasks, workers  *)
(* and items, any lease and deadline, and clients that do what they like   *)
(* with the tokens they were given.                                        *)
(*                                                                         *)
(* First the types of the rows.  Then the fence and what rests on it: an   *)
(* open transaction keeps the lease it was let in with, and a task leaves  *)
(* exactly one result and exactly when it succeeds.  That invariant is     *)
(* inductive as a conjunction: the count of results needs the fence,       *)
(* because it is the fence that keeps a second commit and a late failure   *)
(* away from a finished row.  Then the leases: what a step can do to the   *)
(* lease of a task, that leases end with the deadline, that the token in a *)
(* row is the one of its latest claim, and that a lease that runs is not   *)
(* given away.  Then results, outcomes, originals and deletion, each from  *)
(* what a step does to one task and its items.  Last the refinement: each  *)
(* step of the store as a step of TaskLifecycle.                           *)
(***************************************************************************)
EXTENDS JobStore, TLAPS

(*----------------------------- Row operations ---------------------------*)

(* What the operations of an item row return is a row again.               *)
LEMMA ItemRowOps ==
  ASSUME NEW row \in ItemRow
  PROVE  /\ StartRow(row) \in ItemRow
         /\ \A k \in Attempt : ScoreRow(row, k) \in ItemRow /\ ReportRow(row, k) \in ItemRow
         /\ \A e \in Errors : ErrorRow(row, e) \in ItemRow
<1> USE DEF ItemRow, Settled, TERMINAL_ITEMS
<1>1. StartRow(row) \in ItemRow
  BY DEF StartRow
<1>2. ASSUME NEW k \in Attempt PROVE ScoreRow(row, k) \in ItemRow /\ ReportRow(row, k) \in ItemRow
  <2>1. k \in 0..MAX_ATTEMPTS
    BY ConstantsAssumption DEF Attempt
  <2>2. QED
    BY <2>1 DEF ScoreRow, ReportRow
<1>3. ASSUME NEW e \in Errors PROVE ErrorRow(row, e) \in ItemRow
  BY DEF ErrorRow
<1>4. QED
  BY <1>1, <1>2, <1>3

(* The row a diagnosis ends with is a task row in a finished status.       *)
LEMMA AggregateRowType ==
  ASSUME NEW t \in Task, NEW rows, task[t] \in TaskRow, NEW e \in Errors \cup {"none"}
  PROVE  /\ AggregateRow(t, rows, e) \in TaskRow
         /\ AggregateRow(t, rows, e).status \in FINISHED
  BY ZenonT(60) DEF AggregateRow, Aggregate, TaskRow, FINISHED, ACTIVE, Errors

(* A lease that is granted never outlives the deadline.                    *)
LEMMA LeaseEndBound ==
  ASSUME NEW d \in Nat, now \in Nat
  PROVE  LeaseEnd(d) \in Nat /\ LeaseEnd(d) <= d
  BY ConstantsAssumption DEF LeaseEnd

LEMMA ReleasedRowType ==
  ASSUME now \in Nat, NEW row \in DocRow, NEW status \in {"parsed", "failed"}
  PROVE  ReleasedRow(row, status) \in DocRow
  BY DEF DocRow, ReleasedRow

(* A failure leaves well-typed rows and a finished task.                   *)
LEMMA FailTaskType ==
  ASSUME TypeOK, NEW t \in Task, NEW e \in Errors, FailTask(t, e)
  PROVE  /\ task' \in [Task -> TaskRow]
         /\ item' \in [Task -> [Item -> ItemRow]]
         /\ doc' \in [Task -> DocRow]
<1>1. CASE Kind[t] = "diagnosis"
  <2> DEFINE rows == [i \in Item |-> IF i \in Jobs[t] THEN ErrorRow(item[t][i], e)
                                     ELSE item[t][i]]
  <2>1. rows \in [Item -> ItemRow]
    BY ItemRowOps DEF TypeOK
  <2>2. /\ item' = [item EXCEPT ![t] = rows]
        /\ task' = [task EXCEPT ![t] = AggregateRow(t, rows, e)]
        /\ doc' = doc
    BY <1>1 DEF FailTask
  <2>3. AggregateRow(t, rows, e) \in TaskRow
    BY AggregateRowType DEF TypeOK
  <2>4. QED
    BY <2>1, <2>2, <2>3 DEF TypeOK
<1>2. CASE Kind[t] # "diagnosis"
  <2> DEFINE row == [task[t] EXCEPT !.status = "failed", !.error = e]
  <2>1. /\ task' = [task EXCEPT ![t] = row]
        /\ item' = item
        /\ ReleaseDocument(t, "failed") \/ doc' = doc
    BY <1>2 DEF FailTask
  <2>2. row \in TaskRow
    BY ZenonT(60) DEF TypeOK, TaskRow, FINISHED
  <2>3. ReleasedRow(doc[t], "failed") \in DocRow
    BY ReleasedRowType DEF TypeOK
  <2>4. QED
    BY <2>1, <2>2, <2>3 DEF TypeOK, ReleaseDocument
<1>3. QED
  BY <1>1, <1>2

(*---------------------------- Type correctness --------------------------*)

(* An open transaction is one that was begun with a token and a call.      *)
LEMMA OpenTxn ==
  ASSUME TypeOK, NEW t \in Task, txn[t] # NoTxn
  PROVE  /\ txn[t] \in [token : Attempt, call : Calls]
         /\ txn[t].token \in Attempt
         /\ txn[t].call \in Calls
  BY DEF TypeOK, Txn

(* The calls that write an item carry one.                                 *)
LEMMA CallFields ==
  ASSUME NEW c \in Calls
  PROVE  /\ c.op \in {"start_item", "save_score", "finish_item_error", "finish_item_report"}
              => c.item \in Item
         /\ c.op = "finish_item_report" => c.from \in Attempt
  BY DEF Calls, ItemCall, TaskCall

LEMMA InitTypeOK == Init => TypeOK
<1> SUFFICES ASSUME Init PROVE TypeOK
  OBVIOUS
<1>1. NoTask \in TaskRow /\ NoItem \in ItemRow /\ NoDoc \in DocRow /\ NoTxn \in Txn
  BY ConstantsAssumption DEF NoTask, NoItem, NoDoc, NoTxn, TaskRow, ItemRow, DocRow, Txn
<1>2. QED
  BY <1>1 DEF Init, TypeOK

(* The end of a transaction releases its lock and leaves clock and session.*)
LEMMA EndingType ==
  ASSUME TypeOK, NEW t \in Task, NEW op, Ending(t, op)
  PROVE  /\ txn' \in [Task -> Txn]
         /\ now' = now /\ session' = session
  BY DEF TypeOK, Ending, Txn

(* Writing a row to the item a call names keeps the items well-typed.      *)
LEMMA WriteItemType ==
  ASSUME TypeOK, NEW t \in Task, NEW i \in Item, NEW row \in ItemRow, txn[t].call.item = i,
         WriteItem(t, row)
  PROVE  /\ item' \in [Task -> [Item -> ItemRow]]
         /\ item' = [item EXCEPT ![t][i] = row]
         /\ task' = task /\ doc' = doc /\ latest' = latest /\ made' = made
  BY DEF TypeOK, WriteItem

(* Every action on a task row that the workers take keeps TypeOK.          *)
LEMMA CommitTypeOK ==
  ASSUME TypeOK, NEW t \in Task, Commit(t)
  PROVE  TypeOK'
<1> DEFINE k == txn[t].token
           i == txn[t].call.item
           row == item[t][i]
<1>1. CASE Load(t)
  <2>1. doc' \in [Task -> DocRow]
    <3>1. CASE doc' = doc
      BY <3>1 DEF TypeOK
    <3>2. CASE doc' = [doc EXCEPT ![t].status = "processing"]
      <4>1. [doc[t] EXCEPT !.status = "processing"] \in DocRow
        BY DEF TypeOK, DocRow
      <4>2. QED
        BY <3>2, <4>1 DEF TypeOK
    <3>3. QED
      BY <1>1, <3>1, <3>2 DEF Load
  <2>2. QED
    BY <1>1, <2>1, EndingType DEF Load, TypeOK
<1>2. CASE StartItem(t)
  <2>1. Ending(t, "start_item") /\ WriteItem(t, StartRow(row))
    BY <1>2 DEF StartItem
  <2>2. i \in Item
    BY <2>1, OpenTxn, CallFields DEF Ending
  <2>3. StartRow(row) \in ItemRow
    BY <2>2, ItemRowOps DEF TypeOK
  <2>4. QED
    BY <2>1, <2>2, <2>3, EndingType, WriteItemType DEF TypeOK
<1>3. CASE SaveScore(t)
  <2>1. Ending(t, "save_score") /\ WriteItem(t, ScoreRow(row, k))
    BY <1>3 DEF SaveScore
  <2>2. i \in Item /\ k \in Attempt
    BY <2>1, OpenTxn, CallFields DEF Ending
  <2>3. ScoreRow(row, k) \in ItemRow
    BY <2>2, ItemRowOps DEF TypeOK
  <2>4. QED
    BY <2>1, <2>2, <2>3, EndingType, WriteItemType DEF TypeOK
<1>4. CASE FinishItemReport(t)
  <2> DEFINE from == txn[t].call.from
  <2>1. Ending(t, "finish_item_report") /\ WriteItem(t, ReportRow(row, from))
    BY <1>4 DEF FinishItemReport
  <2>2. i \in Item /\ from \in Attempt
    BY <2>1, OpenTxn, CallFields DEF Ending
  <2>3. ReportRow(row, from) \in ItemRow
    BY <2>2, ItemRowOps DEF TypeOK
  <2>4. QED
    BY <2>1, <2>2, <2>3, EndingType, WriteItemType DEF TypeOK
<1>5. CASE FinishItemError(t)
  <2>1. Ending(t, "finish_item_error") /\ WriteItem(t, ErrorRow(row, "REPORTED"))
    BY <1>5 DEF FinishItemError
  <2>2. i \in Item
    BY <2>1, OpenTxn, CallFields DEF Ending
  <2>3. ErrorRow(row, "REPORTED") \in ItemRow
    BY <2>2, ItemRowOps DEF TypeOK, Errors
  <2>4. QED
    BY <2>1, <2>2, <2>3, EndingType, WriteItemType DEF TypeOK
<1>6. CASE Finish(t)
  <2>1. AggregateRow(t, item[t], "none") \in TaskRow
    BY AggregateRowType DEF TypeOK
  <2>2. QED
    BY <1>6, <2>1, EndingType DEF Finish, TypeOK
<1>7. CASE CommitResult(t)
  <2>1. [task[t] EXCEPT !.status = "succeeded", !.error = "none"] \in TaskRow
    BY ZenonT(60) DEF TypeOK, TaskRow, FINISHED
  <2>2. ReleasedRow(doc[t], "parsed") \in DocRow
    BY ReleasedRowType DEF TypeOK
  <2>3. doc' \in [Task -> DocRow]
    BY <1>7, <2>2 DEF CommitResult, TypeOK, ReleaseDocument
  <2>4. latest' \in [Profile -> Nat]
    BY <1>7, ConstantsAssumption, SMTT(60) DEF CommitResult, TypeOK
  <2>5. made' \in [Task -> Nat]
    BY <1>7 DEF CommitResult, TypeOK
  <2>6. QED
    BY <1>7, <2>1, <2>3, <2>4, <2>5, EndingType DEF CommitResult, TypeOK
<1>8. CASE Fail(t)
  <2>1. "REPORTED" \in Errors
    BY DEF Errors
  <2>2. QED
    BY <1>8, <2>1, EndingType, FailTaskType DEF Fail, TypeOK
<1>9. QED
  BY <1>1, <1>2, <1>3, <1>4, <1>5, <1>6, <1>7, <1>8 DEF Commit

LEMMA ClaimTypeOK ==
  ASSUME TypeOK, NEW t \in Task, Claim(t)
  PROVE  TypeOK'
<1>1. task[t].attempt + 1 \in 0..MAX_ATTEMPTS
  BY ConstantsAssumption DEF Claim, TerminalReason, TypeOK, TaskRow
<1>2. LeaseEnd(task[t].deadline_at) \in Nat
  BY LeaseEndBound DEF TypeOK, TaskRow
<1>3. [task[t] EXCEPT !.status = "running", !.attempt = task[t].attempt + 1,
                      !.token = task[t].attempt + 1,
                      !.lease_until = LeaseEnd(task[t].deadline_at)] \in TaskRow
  BY <1>1, <1>2, ZenonT(60) DEF TypeOK, TaskRow, ACTIVE
<1>4. QED
  BY <1>3 DEF Claim, TypeOK

LEMMA CreateTaskTypeOK ==
  ASSUME TypeOK, NEW t \in Task, CreateTask(t)
  PROVE  TypeOK'
<1>1. [NoTask EXCEPT !.status = "queued", !.deadline_at = now + TASK_TIME,
                     !.base_version = latest[About[t]]] \in TaskRow
  <2>1. now + TASK_TIME \in Nat /\ latest[About[t]] \in Nat
    BY ConstantsAssumption DEF TypeOK
  <2>2. NoTask \in TaskRow
    BY ConstantsAssumption DEF NoTask, TaskRow
  <2>3. QED
    BY <2>1, <2>2 DEF TaskRow, ACTIVE
<1>2. NoItem \in ItemRow /\ [NoItem EXCEPT !.status = "pending"] \in ItemRow
  BY ConstantsAssumption DEF NoItem, ItemRow
<1>3. [i \in Item |-> IF i \in Jobs[t] THEN [NoItem EXCEPT !.status = "pending"] ELSE NoItem]
        \in [Item -> ItemRow]
  BY <1>2
<1>4. [status |-> "stored", stored |-> TRUE, due |-> now + FILE_DELAY] \in DocRow
  BY ConstantsAssumption DEF TypeOK, DocRow
<1>5. QED
  BY <1>1, <1>3, <1>4 DEF CreateTask, TypeOK

LEMMA RevokeTypeOK ==
  ASSUME TypeOK, NEW s \in Session, Revoke(s)
  PROVE  TypeOK'
<1>1. NoTask \in TaskRow /\ NoItem \in ItemRow /\ NoDoc \in DocRow
  BY ConstantsAssumption DEF NoTask, NoItem, NoDoc, TaskRow, ItemRow, DocRow
<1>2. QED
  BY <1>1 DEF Revoke, TypeOK

LEMMA NextTypeOK == TypeOK /\ [Next]_vars => TypeOK'
<1> SUFFICES ASSUME TypeOK, [Next]_vars PROVE TypeOK'
  OBVIOUS
<1>1. ASSUME NEW t \in Task, CreateTask(t) PROVE TypeOK'
  BY <1>1, CreateTaskTypeOK
<1>2. ASSUME NEW t \in Task, Claim(t) PROVE TypeOK'
  BY <1>2, ClaimTypeOK
<1>3. ASSUME NEW t \in Task, Reap(t) PROVE TypeOK'
  <2>1. TerminalReason(t) \in Errors
    BY <1>3 DEF Reap, TerminalReason, Errors
  <2>2. QED
    BY <1>3, <2>1, FailTaskType DEF Reap, TypeOK
<1>4. ASSUME NEW t \in Task, RemoveFile(t) PROVE TypeOK'
  <2>1. [doc[t] EXCEPT !.stored = FALSE, !.status = "deleted"] \in DocRow
    BY ZenonT(60) DEF TypeOK, DocRow
  <2>2. QED
    BY <1>4, <2>1 DEF RemoveFile, TypeOK
<1>5. ASSUME NEW t \in Task, NEW k \in Attempt, Heartbeat(t, k) PROVE TypeOK'
  <2>1. LeaseEnd(task[t].deadline_at) \in Nat
    BY LeaseEndBound DEF TypeOK, TaskRow
  <2>2. [task[t] EXCEPT !.lease_until = LeaseEnd(task[t].deadline_at)] \in TaskRow
    BY <2>1, ZenonT(60) DEF TypeOK, TaskRow
  <2>3. QED
    BY <1>5, <2>2 DEF Heartbeat, TypeOK
<1>6. ASSUME NEW t \in Task, NEW k \in Attempt, NEW c \in Calls, Begin(t, k, c) PROVE TypeOK'
  <2>1. [token |-> k, call |-> c] \in Txn
    BY DEF Txn
  <2>2. QED
    BY <1>6, <2>1 DEF Begin, TypeOK
<1>7. ASSUME NEW t \in Task, Commit(t) PROVE TypeOK'
  BY <1>7, CommitTypeOK
<1>8. ASSUME NEW t \in Task, Rollback(t) PROVE TypeOK'
  BY <1>8 DEF Rollback, TypeOK, Txn
<1>9. ASSUME NEW p \in Profile, EditProfile(p) PROVE TypeOK'
  BY <1>9 DEF EditProfile, TypeOK
<1>10. ASSUME NEW s \in Session, Expire(s) PROVE TypeOK'
  BY <1>10 DEF Expire, TypeOK
<1>11. ASSUME NEW s \in Session, Revoke(s) PROVE TypeOK'
  BY <1>11, RevokeTypeOK
<1>12. CASE Tick
  BY <1>12 DEF Tick, TypeOK
<1>13. CASE UNCHANGED vars
  BY <1>13 DEF vars, TypeOK
<1>14. QED
  BY <1>1, <1>2, <1>3, <1>4, <1>5, <1>6, <1>7, <1>8, <1>9, <1>10, <1>11, <1>12, <1>13 DEF Next

(* Every reachable state has well-typed rows: in particular no task is     *)
(* claimed more than MAX_ATTEMPTS times (_terminal_reason).                *)
THEOREM TypeCorrect == Spec => []TypeOK
<1>1. QED
  BY InitTypeOK, NextTypeOK, PTL DEF Spec

(***************************************************************************)
(*                                The fence                                *)
(***************************************************************************)

SafetyInv == TypeOK /\ OpenFence /\ OneResult

(*---------------------------- What actions do ---------------------------*)

(* A committing client holds the lease, and its call fits the task.        *)
LEMMA CommitFenced ==
  ASSUME OpenFence, NEW t \in Task, NEW op, Ending(t, op)
  PROVE  /\ task[t].status = "running"
         /\ txn[t].call \in CallsOn(t) /\ txn[t].call.op = op
         /\ txn' = [txn EXCEPT ![t] = NoTxn] /\ session' = session
  BY DEF OpenFence, Ending

(* A failure finishes one task, unsuccessfully unless it is a diagnosis,   *)
(* and leaves the columns of its lease alone.                              *)
LEMMA FailTaskRow ==
  ASSUME TypeOK, NEW t \in Task, NEW e \in Errors, FailTask(t, e)
  PROVE  \E row \in TaskRow :
            /\ task' = [task EXCEPT ![t] = row]
            /\ Kind[t] # "diagnosis" => row.status = "failed"
            /\ row.status \in FINISHED
            /\ row.attempt = task[t].attempt /\ row.token = task[t].token
            /\ row.lease_until = task[t].lease_until /\ row.deadline_at = task[t].deadline_at
<1>1. CASE Kind[t] = "diagnosis"
  <2> DEFINE rows == [i \in Item |-> IF i \in Jobs[t] THEN ErrorRow(item[t][i], e)
                                     ELSE item[t][i]]
  <2>1. task' = [task EXCEPT ![t] = AggregateRow(t, rows, e)]
    BY <1>1 DEF FailTask
  <2>2. AggregateRow(t, rows, e) \in TaskRow /\ AggregateRow(t, rows, e).status \in FINISHED
    BY AggregateRowType DEF TypeOK
  <2>3. AggregateRow(t, rows, e) = [task[t] EXCEPT
          !.status = AggregateRow(t, rows, e).status, !.error = AggregateRow(t, rows, e).error]
    BY DEF AggregateRow, TypeOK, TaskRow
  <2>4. QED
    BY <1>1, <2>1, <2>2, <2>3 DEF TypeOK, TaskRow
<1>2. CASE Kind[t] # "diagnosis"
  <2> DEFINE row == [task[t] EXCEPT !.status = "failed", !.error = e]
  <2>1. task' = [task EXCEPT ![t] = row]
    BY <1>2 DEF FailTask
  <2>2. row \in TaskRow /\ row.status = "failed" /\ row.status \in FINISHED
    BY ZenonT(60) DEF TypeOK, TaskRow, FINISHED
  <2>3. QED
    BY <2>1, <2>2 DEF TypeOK, TaskRow
<1>3. QED
  BY <1>1, <1>2

(* The fitting calls: results are committed for a task that is no          *)
(* diagnosis, and only a diagnosis is finished by aggregation.             *)
LEMMA FittingCalls ==
  ASSUME NEW t \in Task, NEW c \in CallsOn(t), c.op \in {"finish", "commit_result"}
  PROVE  Kind[t] = "diagnosis" <=> c.op = "finish"
  BY DEF CallsOn, ItemCall

(*-------------------------- The fence is kept ---------------------------*)

(* A step that opens no transaction keeps the fence if it leaves the rows  *)
(* of the open transactions alone.                                         *)
LEMMA FenceKept ==
  ASSUME TypeOK, OpenFence,
         \A u \in Task : txn'[u] # NoTxn =>
            /\ txn'[u] = txn[u]
            /\ task'[u].status = task[u].status /\ task'[u].token = task[u].token
            /\ session'[Owner[u]] = "gone" => session[Owner[u]] = "gone"
  PROVE  OpenFence'
  BY DEF OpenFence, CallsOn

LEMMA CommitKeepsFence ==
  ASSUME TypeOK, OpenFence, NEW t \in Task, Commit(t)
  PROVE  OpenFence'
<1>1. PICK op : Ending(t, op)
  BY DEF Commit, Load, StartItem, SaveScore, FinishItemReport, FinishItemError, Finish,
         CommitResult, Fail
<1>2. \A u \in Task \ {t} : task'[u] = task[u]
  <2>1. ASSUME Fail(t) PROVE \E row \in TaskRow : task' = [task EXCEPT ![t] = row]
    BY <2>1, FailTaskRow DEF Fail, Errors
  <2>2. QED
    BY <2>1 DEF Commit, Load, StartItem, SaveScore, FinishItemReport, FinishItemError, Finish,
         CommitResult, WriteItem, TypeOK
<1>3. \A u \in Task : txn'[u] = IF u = t THEN NoTxn ELSE txn[u]
  BY <1>1 DEF Ending, TypeOK
<1>4. session' = session
  BY <1>1 DEF Ending
<1>5. QED
  BY <1>2, <1>3, <1>4, FenceKept

LEMMA NextFence == SafetyInv /\ [Next]_vars => OpenFence'
<1> SUFFICES ASSUME SafetyInv, [Next]_vars PROVE OpenFence'
  OBVIOUS
<1> USE DEF SafetyInv
<1>1. ASSUME NEW t \in Task, CreateTask(t) PROVE OpenFence'
  <2>1. \A u \in Task : txn'[u] = txn[u] /\ (u # t => task'[u] = task[u])
    BY <1>1 DEF CreateTask, TypeOK
  <2>2. txn[t] = NoTxn
    BY <1>1 DEF CreateTask, Unshared
  <2>3. session' = session
    BY <1>1 DEF CreateTask
  <2>4. QED
    BY <2>1, <2>2, <2>3, FenceKept
<1>2. ASSUME NEW t \in Task, Claim(t) PROVE OpenFence'
  <2>1. \A u \in Task : txn'[u] = txn[u] /\ (u # t => task'[u] = task[u])
    BY <1>2 DEF Claim, TypeOK
  <2>2. txn[t] = NoTxn /\ session' = session
    BY <1>2 DEF Claim, LockCandidate
  <2>3. QED
    BY <2>1, <2>2, FenceKept
<1>3. ASSUME NEW t \in Task, Reap(t) PROVE OpenFence'
  <2>1. PICK row \in TaskRow : task' = [task EXCEPT ![t] = row]
    BY <1>3, FailTaskRow DEF Reap, TerminalReason, Errors
  <2>2. txn[t] = NoTxn /\ session' = session /\ txn' = txn
    BY <1>3 DEF Reap, LockCandidate
  <2>3. QED
    BY <2>1, <2>2, FenceKept DEF TypeOK
<1>4. ASSUME NEW t \in Task, RemoveFile(t) PROVE OpenFence'
  BY <1>4, FenceKept DEF RemoveFile
<1>5. ASSUME NEW t \in Task, NEW k \in Attempt, Heartbeat(t, k) PROVE OpenFence'
  <2>1. \A u \in Task : task'[u].status = task[u].status /\ task'[u].token = task[u].token
    BY <1>5 DEF Heartbeat, TypeOK, TaskRow
  <2>2. QED
    BY <1>5, <2>1, FenceKept DEF Heartbeat
<1>6. ASSUME NEW t \in Task, NEW k \in Attempt, NEW c \in Calls, Begin(t, k, c) PROVE OpenFence'
  <2>1. txn' = [txn EXCEPT ![t] = [token |-> k, call |-> c]]
    BY <1>6 DEF Begin
  <2>2. task' = task /\ session' = session
    BY <1>6 DEF Begin
  <2>3. task[t].status = "running" /\ task[t].token = k /\ session[Owner[t]] # "gone"
        /\ c \in CallsOn(t)
    BY <1>6 DEF Begin, Fenced, Live, Active
  <2>4. QED
    BY <2>1, <2>2, <2>3 DEF OpenFence, TypeOK, CallsOn
<1>7. ASSUME NEW t \in Task, Commit(t) PROVE OpenFence'
  BY <1>7, CommitKeepsFence
<1>8. ASSUME NEW t \in Task, Rollback(t) PROVE OpenFence'
  <2>1. \A u \in Task : txn'[u] = IF u = t THEN NoTxn ELSE txn[u]
    BY <1>8 DEF Rollback, TypeOK
  <2>2. QED
    BY <1>8, <2>1, FenceKept DEF Rollback
<1>9. ASSUME NEW p \in Profile, EditProfile(p) PROVE OpenFence'
  BY <1>9, FenceKept DEF EditProfile
<1>10. ASSUME NEW s \in Session, Expire(s) PROVE OpenFence'
  <2>1. \A u \in Task : session'[Owner[u]] = "gone" => session[Owner[u]] = "gone"
    BY <1>10, ConstantsAssumption DEF Expire, TypeOK
  <2>2. QED
    BY <1>10, <2>1, FenceKept DEF Expire
<1>11. ASSUME NEW s \in Session, Revoke(s) PROVE OpenFence'
  <2>1. \A u \in Task : Owner[u] = s => txn[u] = NoTxn
    BY <1>11 DEF Revoke, Unshared
  <2>2. \A u \in Task : Owner[u] # s =>
           task'[u] = task[u] /\ session'[Owner[u]] = session[Owner[u]]
    BY <1>11, ConstantsAssumption DEF Revoke, TypeOK
  <2>3. txn' = txn
    BY <1>11 DEF Revoke
  <2>4. QED
    BY <2>1, <2>2, <2>3, FenceKept
<1>12. CASE Tick
  BY <1>12, FenceKept DEF Tick
<1>13. CASE UNCHANGED vars
  BY <1>13, FenceKept DEF vars
<1>14. QED
  BY <1>1, <1>2, <1>3, <1>4, <1>5, <1>6, <1>7, <1>8, <1>9, <1>10, <1>11, <1>12, <1>13 DEF Next

(*-------------------------- One result per task -------------------------*)

(* A step that writes no version keeps the count if it neither finishes a  *)
(* task successfully nor takes a success back.                             *)
LEMMA CountKept ==
  ASSUME OneResult, made' = made,
         \A u \in Task : Kind[u] = "diagnosis" \/
           (task'[u].status = "succeeded" <=> task[u].status = "succeeded")
  PROVE  OneResult'
  BY DEF OneResult

(* A failure meets a task that has not finished.                           *)
LEMMA FailKeepsCount ==
  ASSUME TypeOK, OneResult, NEW t \in Task, NEW e \in Errors, FailTask(t, e),
         task[t].status \in ACTIVE, made' = made
  PROVE  OneResult'
<1>1. PICK row \in TaskRow : /\ task' = [task EXCEPT ![t] = row]
                             /\ Kind[t] # "diagnosis" => row.status = "failed"
  BY FailTaskRow
<1>2. \A u \in Task : task'[u] = IF u = t THEN row ELSE task[u]
  BY <1>1 DEF TypeOK
<1>3. QED
  BY <1>1, <1>2, CountKept DEF ACTIVE

(* The one step that counts: the version and the completion are written    *)
(* together, for a task that had neither.                                  *)
LEMMA CommitResultCounts ==
  ASSUME TypeOK, OpenFence, OneResult, NEW t \in Task, CommitResult(t)
  PROVE  OneResult'
<1> DEFINE row == [task[t] EXCEPT !.status = "succeeded", !.error = "none"]
<1>1. task' = [task EXCEPT ![t] = row] /\ made' = [made EXCEPT ![t] = @ + 1]
  BY DEF CommitResult
<1>2. task[t].status = "running" /\ Kind[t] # "diagnosis"
  BY CommitFenced DEF CommitResult
<1>3. row.status = "succeeded"
  BY DEF TypeOK, TaskRow
<1>4. made[t] = 0
  BY <1>2 DEF OneResult
<1>5. \A u \in Task : u # t => task'[u] = task[u] /\ made'[u] = made[u]
  BY <1>1 DEF TypeOK
<1>6. task'[t].status = "succeeded" /\ made'[t] = 1
  BY <1>1, <1>3, <1>4 DEF TypeOK
<1>7. QED
  BY <1>2, <1>5, <1>6 DEF OneResult

LEMMA CommitKeepsCount ==
  ASSUME TypeOK, OpenFence, OneResult, NEW t \in Task, Commit(t)
  PROVE  OneResult'
<1>1. CASE Load(t) \/ StartItem(t) \/ SaveScore(t) \/ FinishItemReport(t) \/ FinishItemError(t)
  <2>1. task' = task /\ made' = made
    BY <1>1 DEF Load, StartItem, SaveScore, FinishItemReport, FinishItemError, WriteItem
  <2>2. QED
    BY <2>1, CountKept
<1>2. CASE Finish(t)
  <2>1. Kind[t] = "diagnosis"
    BY <1>2, CommitFenced, FittingCalls DEF Finish
  <2>2. \A u \in Task : u # t => task'[u] = task[u]
    BY <1>2 DEF Finish, TypeOK
  <2>3. made' = made
    BY <1>2 DEF Finish
  <2>4. QED
    BY <2>1, <2>2, <2>3, CountKept
<1>3. CASE CommitResult(t)
  BY <1>3, CommitResultCounts
<1>4. CASE Fail(t)
  <2>1. task[t].status \in ACTIVE /\ made' = made /\ FailTask(t, "REPORTED")
    BY <1>4, CommitFenced DEF Fail, ACTIVE
  <2>2. QED
    BY <2>1, FailKeepsCount DEF Errors
<1>5. QED
  BY <1>1, <1>2, <1>3, <1>4 DEF Commit

LEMMA NextCount == SafetyInv /\ [Next]_vars => OneResult'
<1> SUFFICES ASSUME SafetyInv, [Next]_vars PROVE OneResult'
  OBVIOUS
<1> USE DEF SafetyInv
<1>1. ASSUME NEW t \in Task, CreateTask(t) PROVE OneResult'
  <2> DEFINE row == [NoTask EXCEPT !.status = "queued", !.deadline_at = now + TASK_TIME,
                                   !.base_version = latest[About[t]]]
  <2>1. task' = [task EXCEPT ![t] = row] /\ made' = made
    BY <1>1 DEF CreateTask
  <2>2. row.status = "queued"
    BY DEF NoTask
  <2>3. \A u \in Task : task'[u] = IF u = t THEN row ELSE task[u]
    BY <2>1 DEF TypeOK
  <2>4. task[t].status = "none"
    BY <1>1 DEF CreateTask
  <2>5. QED
    BY <2>1, <2>2, <2>3, <2>4, CountKept
<1>2. ASSUME NEW t \in Task, Claim(t) PROVE OneResult'
  <2>1. task[t].status \in ACTIVE
    BY <1>2 DEF Claim, LockCandidate, Candidate, ACTIVE
  <2>2. task'[t].status = "running" /\ \A u \in Task : u # t => task'[u] = task[u]
    BY <1>2 DEF Claim, TypeOK, TaskRow
  <2>3. made' = made
    BY <1>2 DEF Claim
  <2>4. QED
    BY <2>1, <2>2, <2>3, CountKept DEF ACTIVE
<1>3. ASSUME NEW t \in Task, Reap(t) PROVE OneResult'
  <2>1. task[t].status \in ACTIVE
    BY <1>3 DEF Reap, LockCandidate, Candidate, ACTIVE
  <2>2. TerminalReason(t) \in Errors
    BY <1>3 DEF Reap, TerminalReason, Errors
  <2>3. QED
    BY <1>3, <2>1, <2>2, FailKeepsCount DEF Reap
<1>4. ASSUME NEW t \in Task, RemoveFile(t) PROVE OneResult'
  BY <1>4, CountKept DEF RemoveFile
<1>5. ASSUME NEW t \in Task, NEW k \in Attempt, Heartbeat(t, k) PROVE OneResult'
  <2>1. \A u \in Task : task'[u].status = task[u].status
    BY <1>5 DEF Heartbeat, TypeOK, TaskRow
  <2>2. QED
    BY <1>5, <2>1, CountKept DEF Heartbeat
<1>6. ASSUME NEW t \in Task, NEW k \in Attempt, NEW c \in Calls, Begin(t, k, c) PROVE OneResult'
  BY <1>6, CountKept DEF Begin
<1>7. ASSUME NEW t \in Task, Commit(t) PROVE OneResult'
  BY <1>7, CommitKeepsCount
<1>8. ASSUME NEW t \in Task, Rollback(t) PROVE OneResult'
  BY <1>8, CountKept DEF Rollback
<1>9. ASSUME NEW p \in Profile, EditProfile(p) PROVE OneResult'
  BY <1>9, CountKept DEF EditProfile
<1>10. ASSUME NEW s \in Session, Expire(s) PROVE OneResult'
  BY <1>10, CountKept DEF Expire
<1>11. ASSUME NEW s \in Session, Revoke(s) PROVE OneResult'
  <2>1. \A u \in Task : IF Owner[u] = s THEN task'[u] = NoTask /\ made'[u] = 0
                        ELSE task'[u] = task[u] /\ made'[u] = made[u]
    BY <1>11 DEF Revoke
  <2>2. NoTask.status # "succeeded"
    BY DEF NoTask
  <2>3. QED
    BY <2>1, <2>2 DEF OneResult
<1>12. CASE Tick
  BY <1>12, CountKept DEF Tick
<1>13. CASE UNCHANGED vars
  BY <1>13, CountKept DEF vars
<1>14. QED
  BY <1>1, <1>2, <1>3, <1>4, <1>5, <1>6, <1>7, <1>8, <1>9, <1>10, <1>11, <1>12, <1>13 DEF Next

(*-------------------------------- Theorems ------------------------------*)

LEMMA InitSafety == Init => SafetyInv
<1> SUFFICES ASSUME Init PROVE SafetyInv
  OBVIOUS
<1>1. OpenFence
  BY DEF Init, OpenFence
<1>2. OneResult
  BY DEF Init, OneResult, NoTask
<1>3. QED
  BY <1>1, <1>2, InitTypeOK DEF SafetyInv

LEMMA NextSafety == SafetyInv /\ [Next]_vars => SafetyInv'
  BY NextTypeOK, NextFence, NextCount DEF SafetyInv

LEMMA SafetyHolds == Spec => []SafetyInv
  BY InitSafety, NextSafety, PTL DEF Spec

(* The row locks of _transaction keep its fence true until it ends.        *)
THEOREM FenceHolds == Spec => []OpenFence
<1>1. SafetyInv => OpenFence
  BY DEF SafetyInv
<1>2. QED
  BY <1>1, SafetyHolds, PTL

(* A task leaves one resource version if it succeeds and none otherwise,   *)
(* whoever holds which tokens and however often it was claimed: at most    *)
(* one of the commit_ operations ever succeeds for a task.                 *)
THEOREM ResultOnce == Spec => []OneResult
<1>1. SafetyInv => OneResult
  BY DEF SafetyInv
<1>2. QED
  BY <1>1, SafetyHolds, PTL

(***************************************************************************)
(*                                  Leases                                 *)
(***************************************************************************)

(* The token of a row is the number of its latest claim, and a row that    *)
(* was never claimed has no lease.                                         *)
TokenCurrent ==
  \A t \in Task :
    /\ task[t].token = task[t].attempt
    /\ task[t].status \in {"none", "queued"} => task[t].token = 0 /\ task[t].lease_until = 0

LeaseInv == SafetyInv /\ LeaseWithinDeadline /\ TokenCurrent

(*------------------------- Five kinds of steps --------------------------*)

Forgotten(u) == task'[u] = NoTask /\ session'[Owner[u]] = "gone"

Created(u) ==
  /\ task[u].status = "none" /\ task'[u].status = "queued"
  /\ task'[u].attempt = 0 /\ task'[u].token = 0 /\ task'[u].lease_until = 0

SameClaim(u) ==
  /\ task'[u].attempt = task[u].attempt /\ task'[u].token = task[u].token
  /\ task'[u].deadline_at = task[u].deadline_at

Claimed(u) ==
  /\ LockCandidate(u)
  /\ task'[u].status = "running"
  /\ task'[u].attempt = task[u].attempt + 1 /\ task'[u].token = task[u].attempt + 1
  /\ task'[u].deadline_at = task[u].deadline_at
  /\ task'[u].lease_until = LeaseEnd(task[u].deadline_at)

Renewed(u) ==
  /\ task[u].status = "running" /\ task'[u].status = "running" /\ SameClaim(u) /\ Live(u)
  /\ task'[u].lease_until = LeaseEnd(task[u].deadline_at)

Kept(u) ==
  /\ SameClaim(u)
  /\ task'[u].lease_until = task[u].lease_until
  /\ task'[u].status = task[u].status \/ task'[u].status \in FINISHED

LeaseStep(u) == Forgotten(u) \/ Created(u) \/ Claimed(u) \/ Renewed(u) \/ Kept(u)

LEMMA Untouched ==
  ASSUME NEW u \in Task, task'[u] = task[u]
  PROVE  Kept(u)
  BY DEF Kept, SameClaim

LEMMA FailTaskKeepsLease ==
  ASSUME TypeOK, NEW t \in Task, NEW e \in Errors, FailTask(t, e)
  PROVE  \A u \in Task : Kept(u)
<1>1. PICK row \in TaskRow :
         /\ task' = [task EXCEPT ![t] = row]
         /\ row.status \in FINISHED
         /\ row.attempt = task[t].attempt /\ row.token = task[t].token
         /\ row.lease_until = task[t].lease_until /\ row.deadline_at = task[t].deadline_at
  BY FailTaskRow
<1>2. \A u \in Task : task'[u] = IF u = t THEN row ELSE task[u]
  BY <1>1 DEF TypeOK
<1>3. QED
  BY <1>1, <1>2 DEF Kept, SameClaim

LEMMA CommitKeepsLease ==
  ASSUME TypeOK, NEW t \in Task, Commit(t)
  PROVE  \A u \in Task : Kept(u)
<1>1. CASE Load(t) \/ StartItem(t) \/ SaveScore(t) \/ FinishItemReport(t) \/ FinishItemError(t)
  <2>1. task' = task
    BY <1>1 DEF Load, StartItem, SaveScore, FinishItemReport, FinishItemError, WriteItem
  <2>2. QED
    BY <2>1, Untouched
<1>2. CASE Finish(t)
  <2> DEFINE row == AggregateRow(t, item[t], "none")
  <2>1. \A u \in Task : task'[u] = IF u = t THEN row ELSE task[u]
    BY <1>2 DEF Finish, TypeOK
  <2>2. row.status \in FINISHED
    BY AggregateRowType DEF TypeOK
  <2>3. /\ row.attempt = task[t].attempt /\ row.token = task[t].token
        /\ row.lease_until = task[t].lease_until /\ row.deadline_at = task[t].deadline_at
    BY DEF AggregateRow, TypeOK, TaskRow
  <2>4. QED
    BY <2>1, <2>2, <2>3 DEF Kept, SameClaim
<1>3. CASE CommitResult(t)
  <2> DEFINE row == [task[t] EXCEPT !.status = "succeeded", !.error = "none"]
  <2>1. \A u \in Task : task'[u] = IF u = t THEN row ELSE task[u]
    BY <1>3 DEF CommitResult, TypeOK
  <2>2. /\ row.status = "succeeded"
        /\ row.attempt = task[t].attempt /\ row.token = task[t].token
        /\ row.lease_until = task[t].lease_until /\ row.deadline_at = task[t].deadline_at
    BY DEF TypeOK, TaskRow
  <2>3. QED
    BY <2>1, <2>2 DEF Kept, SameClaim, FINISHED
<1>4. CASE Fail(t)
  BY <1>4, FailTaskKeepsLease DEF Fail, Errors
<1>5. QED
  BY <1>1, <1>2, <1>3, <1>4 DEF Commit

(* Every step treats the lease of every task in one of the five ways.      *)
LEMMA NextLease == SafetyInv /\ [Next]_vars => \A u \in Task : LeaseStep(u)
<1> SUFFICES ASSUME SafetyInv, [Next]_vars PROVE \A u \in Task : LeaseStep(u)
  OBVIOUS
<1> USE DEF SafetyInv
<1>1. ASSUME NEW t \in Task, CreateTask(t) PROVE \A u \in Task : LeaseStep(u)
  <2> DEFINE row == [NoTask EXCEPT !.status = "queued", !.deadline_at = now + TASK_TIME,
                                   !.base_version = latest[About[t]]]
  <2>1. \A u \in Task : task'[u] = IF u = t THEN row ELSE task[u]
    BY <1>1 DEF CreateTask, TypeOK
  <2>2. row.status = "queued" /\ row.attempt = 0 /\ row.token = 0 /\ row.lease_until = 0
    BY DEF NoTask
  <2>3. task[t].status = "none"
    BY <1>1 DEF CreateTask
  <2>4. LeaseStep(t)
    BY <2>1, <2>2, <2>3 DEF LeaseStep, Created
  <2>5. QED
    BY <2>1, <2>4, Untouched DEF LeaseStep
<1>2. ASSUME NEW t \in Task, Claim(t) PROVE \A u \in Task : LeaseStep(u)
  <2> DEFINE row == [task[t] EXCEPT !.status = "running", !.attempt = task[t].attempt + 1,
                                    !.token = task[t].attempt + 1,
                                    !.lease_until = LeaseEnd(task[t].deadline_at)]
  <2>1. \A u \in Task : task'[u] = IF u = t THEN row ELSE task[u]
    BY <1>2 DEF Claim, TypeOK
  <2>2. /\ row.status = "running"
        /\ row.attempt = task[t].attempt + 1 /\ row.token = task[t].attempt + 1
        /\ row.lease_until = LeaseEnd(task[t].deadline_at)
        /\ row.deadline_at = task[t].deadline_at
    BY DEF TypeOK, TaskRow
  <2>3. LeaseStep(t)
    BY <1>2, <2>1, <2>2 DEF LeaseStep, Claimed, Claim
  <2>4. QED
    BY <2>1, <2>3, Untouched DEF LeaseStep
<1>3. ASSUME NEW t \in Task, Reap(t) PROVE \A u \in Task : LeaseStep(u)
  <2>1. TerminalReason(t) \in Errors
    BY <1>3 DEF Reap, TerminalReason, Errors
  <2>2. QED
    BY <1>3, <2>1, FailTaskKeepsLease DEF Reap, LeaseStep
<1>4. ASSUME NEW t \in Task, RemoveFile(t) PROVE \A u \in Task : LeaseStep(u)
  BY <1>4, Untouched DEF LeaseStep, RemoveFile
<1>5. ASSUME NEW t \in Task, NEW k \in Attempt, Heartbeat(t, k)
      PROVE \A u \in Task : LeaseStep(u)
  <2> DEFINE row == [task[t] EXCEPT !.lease_until = LeaseEnd(task[t].deadline_at)]
  <2>1. \A u \in Task : task'[u] = IF u = t THEN row ELSE task[u]
    BY <1>5 DEF Heartbeat, TypeOK
  <2>2. /\ row.status = task[t].status
        /\ row.attempt = task[t].attempt /\ row.token = task[t].token
        /\ row.lease_until = LeaseEnd(task[t].deadline_at)
        /\ row.deadline_at = task[t].deadline_at
    BY DEF TypeOK, TaskRow
  <2>3. task[t].status = "running" /\ Live(t)
    BY <1>5 DEF Heartbeat, Fenced
  <2>4. LeaseStep(t)
    BY <2>1, <2>2, <2>3 DEF LeaseStep, Renewed, SameClaim
  <2>5. QED
    BY <2>1, <2>4, Untouched DEF LeaseStep
<1>6. ASSUME NEW t \in Task, NEW k \in Attempt, NEW c \in Calls, Begin(t, k, c)
      PROVE \A u \in Task : LeaseStep(u)
  BY <1>6, Untouched DEF LeaseStep, Begin
<1>7. ASSUME NEW t \in Task, Commit(t) PROVE \A u \in Task : LeaseStep(u)
  BY <1>7, CommitKeepsLease DEF LeaseStep
<1>8. ASSUME NEW t \in Task, Rollback(t) PROVE \A u \in Task : LeaseStep(u)
  BY <1>8, Untouched DEF LeaseStep, Rollback
<1>9. ASSUME NEW p \in Profile, EditProfile(p) PROVE \A u \in Task : LeaseStep(u)
  BY <1>9, Untouched DEF LeaseStep, EditProfile
<1>10. ASSUME NEW s \in Session, Expire(s) PROVE \A u \in Task : LeaseStep(u)
  BY <1>10, Untouched DEF LeaseStep, Expire
<1>11. ASSUME NEW s \in Session, Revoke(s) PROVE \A u \in Task : LeaseStep(u)
  <2>1. \A u \in Task : task'[u] = IF Owner[u] = s THEN NoTask ELSE task[u]
    BY <1>11 DEF Revoke
  <2>2. session'[s] = "gone"
    BY <1>11 DEF Revoke, TypeOK
  <2>3. QED
    BY <2>1, <2>2, Untouched DEF LeaseStep, Forgotten
<1>12. CASE Tick
  BY <1>12, Untouched DEF LeaseStep, Tick
<1>13. CASE UNCHANGED vars
  BY <1>13, Untouched DEF LeaseStep, vars
<1>14. QED
  BY <1>1, <1>2, <1>3, <1>4, <1>5, <1>6, <1>7, <1>8, <1>9, <1>10, <1>11, <1>12, <1>13 DEF Next

(*--------------------------- What follows -------------------------------*)

LEMMA InitLease == Init => LeaseInv
<1> SUFFICES ASSUME Init PROVE LeaseInv
  OBVIOUS
<1>1. LeaseWithinDeadline /\ TokenCurrent
  BY DEF Init, LeaseWithinDeadline, TokenCurrent, NoTask
<1>2. QED
  BY <1>1, InitSafety DEF LeaseInv

LEMMA NextLeaseInv == LeaseInv /\ [Next]_vars => LeaseInv'
<1> SUFFICES ASSUME LeaseInv, [Next]_vars PROVE LeaseInv'
  OBVIOUS
<1>1. SafetyInv'
  BY NextSafety DEF LeaseInv
<1>2. \A u \in Task : task[u] \in TaskRow /\ task'[u] \in TaskRow /\ now \in Nat
  BY <1>1 DEF LeaseInv, SafetyInv, TypeOK
<1>3. ASSUME NEW u \in Task
      PROVE  /\ task'[u].lease_until <= task'[u].deadline_at
             /\ task'[u].token = task'[u].attempt
             /\ task'[u].status \in {"none", "queued"}
                  => task'[u].token = 0 /\ task'[u].lease_until = 0
  <2>1. LeaseStep(u)
    BY NextLease DEF LeaseInv
  <2>2. /\ task[u].lease_until <= task[u].deadline_at
        /\ task[u].token = task[u].attempt
        /\ task[u].status \in {"none", "queued"} => task[u].token = 0 /\ task[u].lease_until = 0
    BY DEF LeaseInv, LeaseWithinDeadline, TokenCurrent
  <2>3. LeaseEnd(task[u].deadline_at) <= task[u].deadline_at
    BY <1>2, LeaseEndBound DEF TaskRow
  <2>4. CASE Forgotten(u)
    BY <2>4 DEF Forgotten, NoTask
  <2>5. CASE Created(u)
    BY <2>5, <1>2 DEF Created, TaskRow
  <2>6. CASE Claimed(u) \/ Renewed(u)
    BY <2>2, <2>3, <2>6 DEF Claimed, Renewed, SameClaim
  <2>7. CASE Kept(u)
    BY <2>2, <2>7 DEF Kept, SameClaim, FINISHED
  <2>8. QED
    BY <2>1, <2>4, <2>5, <2>6, <2>7 DEF LeaseStep
<1>4. QED
  BY <1>1, <1>3 DEF LeaseInv, LeaseWithinDeadline, TokenCurrent

LEMMA LeaseHolds == Spec => []LeaseInv
  BY InitLease, NextLeaseInv, PTL DEF Spec

(* No claim and no heartbeat grants a lease past the deadline of the task. *)
THEOREM LeasesEnd == Spec => []LeaseWithinDeadline
<1>1. LeaseInv => LeaseWithinDeadline
  BY DEF LeaseInv
<1>2. QED
  BY <1>1, LeaseHolds, PTL

(* _lock_candidate never gives a running lease to another worker.          *)
THEOREM NoLeaseStolen == Spec => LeaseNotStolen
<1>1. LeaseInv /\ [Next]_vars => [\A t \in Task : NotStolen(t)]_vars
  <2> SUFFICES ASSUME LeaseInv, [Next]_vars, NEW t \in Task PROVE NotStolen(t)
    OBVIOUS
  <2>1. LeaseStep(t)
    BY NextLease DEF LeaseInv
  <2>2. /\ task[t].token = task[t].attempt
        /\ task[t].status \in {"none", "queued"} => task[t].token = 0 /\ task[t].lease_until = 0
    BY DEF LeaseInv, TokenCurrent
  <2>3. now \in Nat
    BY DEF LeaseInv, SafetyInv, TypeOK
  <2>4. CASE Claimed(t)
    BY <2>2, <2>3, <2>4 DEF Claimed, LockCandidate, Candidate, NotStolen
  <2>5. CASE Forgotten(t) \/ Created(t) \/ Renewed(t) \/ Kept(t)
    BY <2>2, <2>5 DEF Forgotten, Created, Renewed, Kept, SameClaim, NotStolen, Erased
  <2>6. QED
    BY <2>1, <2>4, <2>5 DEF LeaseStep
<1>2. QED
  BY <1>1, LeaseHolds, PTL DEF Spec, LeaseNotStolen
(***************************************************************************)
(*                               Steps by task                             *)
(***************************************************************************)

(* What a step that is not about task u does to it at most.                *)
Calm(u) ==
  /\ session'[Owner[u]] = "gone" <=> session[Owner[u]] = "gone"
  /\ session[Owner[u]] = "gone" => task'[u] = task[u]
  /\ task'[u].status = task[u].status /\ item'[u] = item[u] /\ made'[u] = made[u]
  /\ now <= now'
  /\ doc'[u] = doc[u] \/ (doc[u].stored /\ ~doc'[u].stored)

Erasing(u) ==
  /\ session'[Owner[u]] = "gone"
  /\ task'[u] = NoTask /\ item'[u] = [i \in Item |-> NoItem]
  /\ doc'[u] = NoDoc /\ made'[u] = 0

Acted(u) == CreateTask(u) \/ Claim(u) \/ Reap(u) \/ Commit(u)
Acts(u) == Acted(u) \/ Erasing(u) \/ Calm(u)

(* A step is about one task, about one session, or about none.             *)
OfTask(t) == Acted(t) /\ \A u \in Task \ {t} : Calm(u)
OfSession(s) == \A u \in Task : IF Owner[u] = s THEN Erasing(u) ELSE Calm(u)
OfNone == \A u \in Task : Calm(u)
StepKind == (\E t \in Task : OfTask(t)) \/ (\E s \in Session : OfSession(s)) \/ OfNone

LEMMA SameRows ==
  ASSUME TypeOK, now' = now, session' = session, NEW u \in Task,
         task'[u] = task[u], item'[u] = item[u], made'[u] = made[u], doc'[u] = doc[u]
  PROVE  Calm(u)
  BY DEF Calm, TypeOK

(* A failure and a commit are about one task only.                         *)
LEMMA FailTaskElsewhere ==
  ASSUME TypeOK, NEW t \in Task, NEW e, FailTask(t, e), NEW u \in Task \ {t}
  PROVE  task'[u] = task[u] /\ item'[u] = item[u] /\ doc'[u] = doc[u]
<1>1. CASE Kind[t] = "diagnosis"
  BY <1>1 DEF FailTask, TypeOK
<1>2. CASE Kind[t] # "diagnosis"
  BY <1>2 DEF FailTask, TypeOK, ReleaseDocument
<1>3. QED
  BY <1>1, <1>2

LEMMA CommitElsewhere ==
  ASSUME TypeOK, NEW t \in Task, Commit(t), NEW u \in Task \ {t}
  PROVE  Calm(u)
<1> USE DEF TypeOK
<1>1. now' = now /\ session' = session
  BY DEF Commit, Load, StartItem, SaveScore, FinishItemReport, FinishItemError, Finish,
     CommitResult, Fail, Ending
<1>2. CASE Load(t) \/ Finish(t)
  BY <1>1, <1>2, SameRows DEF Load, Finish
<1>3. CASE StartItem(t) \/ SaveScore(t) \/ FinishItemReport(t) \/ FinishItemError(t)
  BY <1>1, <1>3, SameRows DEF StartItem, SaveScore, FinishItemReport, FinishItemError, WriteItem
<1>4. CASE CommitResult(t)
  BY <1>1, <1>4, SameRows DEF CommitResult, ReleaseDocument
<1>5. CASE Fail(t)
  <2>1. task'[u] = task[u] /\ item'[u] = item[u] /\ doc'[u] = doc[u]
    BY <1>5, FailTaskElsewhere DEF Fail
  <2>2. made' = made
    BY <1>5 DEF Fail
  <2>3. QED
    BY <1>1, <2>1, <2>2, SameRows
<1>6. QED
  BY <1>2, <1>3, <1>4, <1>5 DEF Commit

(* Every step creates, claims, reaps or commits one task, forgets those of *)
(* one session, or leaves all as they are but for leases and originals.    *)
LEMMA NextKind == TypeOK /\ [Next]_vars => StepKind
<1> SUFFICES ASSUME TypeOK, [Next]_vars PROVE StepKind
  OBVIOUS
<1>1. ASSUME NEW t \in Task, CreateTask(t) PROVE OfTask(t)
  BY <1>1, SameRows DEF CreateTask, TypeOK, OfTask, Acted
<1>2. ASSUME NEW t \in Task, Claim(t) PROVE OfTask(t)
  BY <1>2, SameRows DEF Claim, TypeOK, OfTask, Acted
<1>3. ASSUME NEW t \in Task, Reap(t) PROVE OfTask(t)
  BY <1>3, SameRows, FailTaskElsewhere DEF Reap, OfTask, Acted
<1>4. ASSUME NEW t \in Task, RemoveFile(t) PROVE OfNone
  <2>1. \A u \in Task : doc'[u] = doc[u] \/ (doc[u].stored /\ ~doc'[u].stored)
    BY <1>4 DEF RemoveFile, TypeOK, DocRow
  <2>2. QED
    BY <1>4, <2>1 DEF RemoveFile, Calm, OfNone, TypeOK
<1>5. ASSUME NEW t \in Task, NEW k \in Attempt, Heartbeat(t, k) PROVE OfNone
  <2>1. \A u \in Task : task'[u].status = task[u].status
    BY <1>5 DEF Heartbeat, TypeOK, TaskRow
  <2>2. \A u \in Task : session[Owner[u]] = "gone" => task'[u] = task[u]
    BY <1>5 DEF Heartbeat, Fenced, Live, Active, TypeOK
  <2>3. QED
    BY <1>5, <2>1, <2>2 DEF Heartbeat, Calm, OfNone, TypeOK
<1>6. ASSUME NEW t \in Task, NEW k \in Attempt, NEW c \in Calls, Begin(t, k, c) PROVE OfNone
  BY <1>6, SameRows DEF Begin, OfNone
<1>7. ASSUME NEW t \in Task, Commit(t) PROVE OfTask(t)
  BY <1>7, CommitElsewhere DEF OfTask, Acted
<1>8. ASSUME NEW t \in Task, Rollback(t) PROVE OfNone
  BY <1>8, SameRows DEF Rollback, OfNone
<1>9. ASSUME NEW p \in Profile, EditProfile(p) PROVE OfNone
  BY <1>9, SameRows DEF EditProfile, OfNone
<1>10. ASSUME NEW s \in Session, Expire(s) PROVE OfNone
  <2>1. \A u \in Task : session'[Owner[u]] = "gone" <=> session[Owner[u]] = "gone"
    BY <1>10, ConstantsAssumption DEF Expire, Active, TypeOK
  <2>2. QED
    BY <1>10, <2>1 DEF Expire, Calm, OfNone, TypeOK
<1>11. ASSUME NEW s \in Session, Revoke(s) PROVE OfSession(s)
  <2>1. ASSUME NEW u \in Task, Owner[u] = s PROVE Erasing(u)
    BY <1>11, <2>1 DEF Revoke, Erasing, TypeOK
  <2>2. ASSUME NEW u \in Task, Owner[u] # s PROVE Calm(u)
    <3>1. session'[Owner[u]] = session[Owner[u]]
      BY <1>11, <2>2, ConstantsAssumption DEF Revoke, TypeOK
    <3>2. QED
      BY <1>11, <2>2, <3>1 DEF Revoke, Calm, TypeOK
  <2>3. QED
    BY <2>1, <2>2 DEF OfSession
<1>12. ASSUME Tick PROVE OfNone
  BY <1>12 DEF Tick, Calm, OfNone, TypeOK
<1>13. ASSUME UNCHANGED vars PROVE OfNone
  BY <1>13, SameRows DEF vars, OfNone
<1>14. QED
  BY <1>1, <1>2, <1>3, <1>4, <1>5, <1>6, <1>7, <1>8, <1>9, <1>10, <1>11, <1>12, <1>13
  DEF Next, StepKind

LEMMA NextActs == TypeOK /\ [Next]_vars => \A u \in Task : Acts(u)
  BY NextKind DEF StepKind, OfTask, OfSession, OfNone, Acts
(***************************************************************************)
(*                      What was persisted stays as it is                  *)
(***************************************************************************)

(* A task that was never created, or is forgotten, has blank items.        *)
Blank ==
  \A t \in Task : task[t].status = "none" => \A i \in Item : item[t][i] = NoItem

ResultsInv == LeaseInv /\ Blank

(*------------------------- What happens to an item ----------------------*)

ItemKept(t, i) ==
  /\ Settled(item[t][i]) => item'[t][i] = item[t][i]
  /\ \/ item'[t][i].score = item[t][i].score
     \/ item[t][i].score = 0 /\ item'[t][i].score = task[t].attempt

ItemGone(t, i) == Erased(t) /\ item'[t][i] = NoItem

(* No operation touches a settled row, only ScoreRow sets a score, once.   *)
LEMMA RowOpsKeep ==
  ASSUME NEW row \in ItemRow
  PROVE  /\ Settled(row) => StartRow(row) = row
         /\ StartRow(row).score = row.score
         /\ \A k \in Attempt :
              /\ Settled(row) => ScoreRow(row, k) = row /\ ReportRow(row, k) = row
              /\ ReportRow(row, k).score = row.score
              /\ \/ ScoreRow(row, k).score = row.score
                 \/ row.score = 0 /\ ScoreRow(row, k).score = k
         /\ \A e \in Errors :
              /\ Settled(row) => ErrorRow(row, e) = row
              /\ ErrorRow(row, e).score = row.score
<1>1. (Settled(row) => StartRow(row) = row) /\ StartRow(row).score = row.score
  BY DEF ItemRow, StartRow
<1>2. ASSUME NEW k \in Attempt
      PROVE  /\ Settled(row) => ScoreRow(row, k) = row
             /\ \/ ScoreRow(row, k).score = row.score
                \/ row.score = 0 /\ ScoreRow(row, k).score = k
  <2>1. CASE Settled(row) \/ row.score # 0
    BY <2>1 DEF ScoreRow
  <2>2. CASE ~Settled(row) /\ row.score = 0
    <3>1. ScoreRow(row, k) = [row EXCEPT !.score = k, !.status = "reporting"]
      BY <2>2 DEF ScoreRow
    <3>2. ScoreRow(row, k).score = k
      BY <3>1 DEF ItemRow
    <3>3. QED
      BY <2>2, <3>2
  <2>3. QED
    BY <2>1, <2>2
<1>3. ASSUME NEW k \in Attempt
      PROVE  (Settled(row) => ReportRow(row, k) = row) /\ ReportRow(row, k).score = row.score
  BY DEF ItemRow, ReportRow
<1>4. ASSUME NEW e \in Errors
      PROVE  (Settled(row) => ErrorRow(row, e) = row) /\ ErrorRow(row, e).score = row.score
  BY DEF ItemRow, ErrorRow
<1>5. QED
  BY <1>1, <1>2, <1>3, <1>4

LEMMA SameItems ==
  ASSUME item' = item
  PROVE  \A t \in Task, i \in Item : ItemKept(t, i)
  BY DEF ItemKept

LEMMA FailTaskItems ==
  ASSUME TypeOK, NEW t \in Task, NEW e \in Errors, FailTask(t, e)
  PROVE  \A u \in Task, i \in Item : ItemKept(u, i)
<1>1. CASE Kind[t] = "diagnosis"
  <2> DEFINE rows == [i \in Item |-> IF i \in Jobs[t] THEN ErrorRow(item[t][i], e)
                                     ELSE item[t][i]]
  <2>1. \A u \in Task : item'[u] = IF u = t THEN rows ELSE item[u]
    BY <1>1 DEF FailTask, TypeOK
  <2>2. \A i \in Item : item[t][i] \in ItemRow
    BY DEF TypeOK
  <2>3. ASSUME NEW i \in Item PROVE ItemKept(t, i)
    <3>1. item'[t][i] = IF i \in Jobs[t] THEN ErrorRow(item[t][i], e) ELSE item[t][i]
      BY <2>1
    <3>2. QED
      BY <3>1, <2>2, RowOpsKeep DEF ItemKept
  <2>4. QED
    BY <2>1, <2>3 DEF ItemKept
<1>2. CASE Kind[t] # "diagnosis"
  BY <1>2, SameItems DEF FailTask
<1>3. QED
  BY <1>1, <1>2

(* One item is written, with the row of an operation that keeps it.        *)
LEMMA OneItem ==
  ASSUME TypeOK, NEW t \in Task, NEW j \in Item, NEW row \in ItemRow,
         txn[t].call.item = j, WriteItem(t, row),
         Settled(item[t][j]) => row = item[t][j],
         \/ row.score = item[t][j].score
         \/ item[t][j].score = 0 /\ row.score = task[t].attempt
  PROVE  \A u \in Task, i \in Item : ItemKept(u, i)
<1>1. item' = [item EXCEPT ![t][j] = row]
  BY WriteItemType
<1>2. \A u \in Task, i \in Item :
         item'[u][i] = IF u = t /\ i = j THEN row ELSE item[u][i]
  BY <1>1 DEF TypeOK
<1>3. QED
  BY <1>2 DEF ItemKept

LEMMA CommitItems ==
  ASSUME LeaseInv, NEW t \in Task, Commit(t)
  PROVE  \A u \in Task, i \in Item : ItemKept(u, i)
<1> DEFINE k == txn[t].token
           j == txn[t].call.item
           row == item[t][j]
<1>0. TypeOK /\ OpenFence
  BY DEF LeaseInv, SafetyInv
<1>1. CASE Load(t) \/ Finish(t) \/ CommitResult(t)
  BY <1>1, SameItems DEF Load, Finish, CommitResult
<1>2. CASE StartItem(t)
  <2>1. Ending(t, "start_item") /\ WriteItem(t, StartRow(row))
    BY <1>2 DEF StartItem
  <2>2. j \in Item
    BY <1>0, <2>1, OpenTxn, CallFields DEF Ending
  <2>3. row \in ItemRow
    BY <1>0, <2>2 DEF TypeOK
  <2>4. QED
    BY <1>0, <2>1, <2>2, <2>3, ItemRowOps, RowOpsKeep, OneItem
<1>3. CASE SaveScore(t)
  <2>1. Ending(t, "save_score") /\ WriteItem(t, ScoreRow(row, k))
    BY <1>3 DEF SaveScore
  <2>2. j \in Item /\ k \in Attempt
    BY <1>0, <2>1, OpenTxn, CallFields DEF Ending
  <2>3. row \in ItemRow
    BY <1>0, <2>2 DEF TypeOK
  <2>4. k = task[t].attempt
    BY <1>0, <2>1 DEF Ending, OpenFence, LeaseInv, TokenCurrent
  <2>5. ScoreRow(row, k) \in ItemRow
    BY <2>2, <2>3, ItemRowOps
  <2>6. /\ Settled(row) => ScoreRow(row, k) = row
        /\ \/ ScoreRow(row, k).score = row.score
           \/ row.score = 0 /\ ScoreRow(row, k).score = k
    BY <2>2, <2>3, RowOpsKeep
  <2>7. QED
    BY <1>0, <2>1, <2>2, <2>4, <2>5, <2>6, OneItem
<1>4. CASE FinishItemReport(t)
  <2> DEFINE from == txn[t].call.from
  <2>1. Ending(t, "finish_item_report") /\ WriteItem(t, ReportRow(row, from))
    BY <1>4 DEF FinishItemReport
  <2>2. j \in Item /\ from \in Attempt
    BY <1>0, <2>1, OpenTxn, CallFields DEF Ending
  <2>3. row \in ItemRow
    BY <1>0, <2>2 DEF TypeOK
  <2>4. QED
    BY <1>0, <2>1, <2>2, <2>3, ItemRowOps, RowOpsKeep, OneItem
<1>5. CASE FinishItemError(t)
  <2>1. Ending(t, "finish_item_error") /\ WriteItem(t, ErrorRow(row, "REPORTED"))
    BY <1>5 DEF FinishItemError
  <2>2. j \in Item /\ "REPORTED" \in Errors
    BY <1>0, <2>1, OpenTxn, CallFields DEF Ending, Errors
  <2>3. row \in ItemRow
    BY <1>0, <2>2 DEF TypeOK
  <2>4. QED
    BY <1>0, <2>1, <2>2, <2>3, ItemRowOps, RowOpsKeep, OneItem
<1>6. CASE Fail(t)
  BY <1>0, <1>6, FailTaskItems DEF Fail, Errors
<1>7. QED
  BY <1>1, <1>2, <1>3, <1>4, <1>5, <1>6 DEF Commit

(* Every step keeps every item, or forgets it with its session.            *)
LEMMA NextItems ==
  ResultsInv /\ [Next]_vars => \A t \in Task, i \in Item : ItemKept(t, i) \/ ItemGone(t, i)
<1> SUFFICES ASSUME ResultsInv, [Next]_vars
             PROVE  \A t \in Task, i \in Item : ItemKept(t, i) \/ ItemGone(t, i)
  OBVIOUS
<1> USE DEF ResultsInv, LeaseInv, SafetyInv
<1>1. CASE item' = item
  BY <1>1, SameItems
<1>2. ASSUME NEW u \in Task, CreateTask(u)
      PROVE  \A t \in Task, i \in Item : ItemKept(t, i)
  <2>1. \A i \in Item : item[u][i] = NoItem
    BY <1>2 DEF CreateTask, Blank
  <2>2. \A t \in Task : t # u => item'[t] = item[t]
    BY <1>2 DEF CreateTask, TypeOK
  <2>3. \A i \in Item : item'[u][i].score = 0
    BY <1>2 DEF CreateTask, TypeOK, NoItem
  <2>4. NoItem.score = 0 /\ ~Settled(NoItem)
    BY DEF NoItem, Settled, TERMINAL_ITEMS
  <2>5. QED
    BY <2>1, <2>2, <2>3, <2>4 DEF ItemKept
<1>3. ASSUME NEW u \in Task, Reap(u)
      PROVE  \A t \in Task, i \in Item : ItemKept(t, i)
  <2>1. TerminalReason(u) \in Errors
    BY <1>3 DEF Reap, TerminalReason, Errors
  <2>2. QED
    BY <1>3, <2>1, FailTaskItems DEF Reap
<1>4. ASSUME NEW u \in Task, Commit(u)
      PROVE  \A t \in Task, i \in Item : ItemKept(t, i)
  BY <1>4, CommitItems
<1>5. ASSUME NEW s \in Session, Revoke(s)
      PROVE  \A t \in Task, i \in Item : ItemKept(t, i) \/ ItemGone(t, i)
  <2>1. session'[s] = "gone"
    BY <1>5 DEF Revoke, TypeOK
  <2>2. \A t \in Task : item'[t] = IF Owner[t] = s THEN [i \in Item |-> NoItem] ELSE item[t]
    BY <1>5 DEF Revoke
  <2>3. QED
    BY <2>1, <2>2 DEF ItemKept, ItemGone, Erased
<1>6. CASE UNCHANGED vars
  BY <1>1, <1>6 DEF vars
<1>7. CASE Tick
  BY <1>1, <1>7 DEF Tick
<1>8. ASSUME NEW t \in Task, Claim(t) \/ RemoveFile(t) \/ Rollback(t) PROVE item' = item
  BY <1>8 DEF Claim, RemoveFile, Rollback
<1>9. ASSUME NEW t \in Task, NEW k \in Attempt, NEW c \in Calls, Heartbeat(t, k) \/ Begin(t, k, c)
      PROVE  item' = item
  BY <1>9 DEF Heartbeat, Begin
<1>10. ASSUME NEW t \in Task, NEW k \in Attempt, Heartbeat(t, k) PROVE item' = item
  BY <1>10 DEF Heartbeat
<1>11. ASSUME NEW p \in Profile, EditProfile(p) PROVE item' = item
  BY <1>11 DEF EditProfile
<1>12. ASSUME NEW s \in Session, Expire(s) PROVE item' = item
  BY <1>12 DEF Expire
<1>13. QED
  BY <1>1, <1>2, <1>3, <1>4, <1>5, <1>6, <1>7, <1>8, <1>9, <1>10, <1>11, <1>12 DEF Next
(*----------------------- What happens to a finished task ----------------*)

(* A finished task is left alone by every step that does not forget it.    *)
LEMMA NextFinished ==
  ASSUME LeaseInv, [Next]_vars, NEW t \in Task, task[t].status \in FINISHED
  PROVE  task'[t] = task[t] \/ Erased(t)
<1> USE DEF LeaseInv, SafetyInv, FINISHED
<1>1. CASE task' = task
  BY <1>1
<1>2. ASSUME NEW u \in Task, CreateTask(u) PROVE task'[t] = task[t]
  BY <1>2 DEF CreateTask, TypeOK
<1>3. ASSUME NEW u \in Task, Claim(u) PROVE task'[t] = task[t]
  BY <1>3 DEF Claim, LockCandidate, Candidate, TypeOK
<1>4. ASSUME NEW u \in Task, Reap(u) PROVE task'[t] = task[t]
  <2>1. PICK row : task' = [task EXCEPT ![u] = row]
    BY <1>4, FailTaskRow DEF Reap, TerminalReason, Errors
  <2>2. u # t
    BY <1>4 DEF Reap, LockCandidate, Candidate
  <2>3. QED
    BY <2>1, <2>2 DEF TypeOK
<1>5. ASSUME NEW u \in Task, NEW k \in Attempt, Heartbeat(u, k) PROVE task'[t] = task[t]
  BY <1>5 DEF Heartbeat, Fenced, TypeOK
<1>6. ASSUME NEW u \in Task, Commit(u) PROVE task'[t] = task[t]
  <2>1. PICK op : Ending(u, op)
    BY <1>6 DEF Commit, Load, StartItem, SaveScore, FinishItemReport, FinishItemError, Finish,
         CommitResult, Fail
  <2>2. u # t
    BY <2>1, CommitFenced
  <2>3. ASSUME Fail(u) PROVE \E row \in TaskRow : task' = [task EXCEPT ![u] = row]
    BY <2>3, FailTaskRow DEF Fail, Errors
  <2>4. QED
    BY <1>6, <2>2, <2>3 DEF Commit, Load, StartItem, SaveScore, FinishItemReport, FinishItemError,
         Finish, CommitResult, WriteItem, TypeOK
<1>7. ASSUME NEW s \in Session, Revoke(s) PROVE task'[t] = task[t] \/ Erased(t)
  BY <1>7 DEF Revoke, Erased, TypeOK
<1>8. ASSUME NEW u \in Task, RemoveFile(u) \/ Rollback(u) PROVE task' = task
  BY <1>8 DEF RemoveFile, Rollback
<1>9. ASSUME NEW u \in Task, NEW k \in Attempt, NEW c \in Calls, Begin(u, k, c)
      PROVE  task' = task
  BY <1>9 DEF Begin
<1>10. ASSUME NEW p \in Profile, EditProfile(p) PROVE task' = task
  BY <1>10 DEF EditProfile
<1>11. ASSUME NEW s \in Session, Expire(s) PROVE task' = task
  BY <1>11 DEF Expire
<1>12. Tick \/ UNCHANGED vars => task' = task
  BY DEF Tick, vars
<1>13. QED
  BY <1>1, <1>2, <1>3, <1>4, <1>5, <1>6, <1>7, <1>8, <1>9, <1>10, <1>11, <1>12 DEF Next

(* A failure leaves the items of other tasks alone, and its own task is    *)
(* there.                                                                  *)
LEMMA FailTaskBlank ==
  ASSUME TypeOK, NEW u \in Task, NEW e \in Errors, FailTask(u, e),
         NEW t \in Task, task'[t].status = "none"
  PROVE  item'[t] = item[t] /\ task'[t] = task[t]
<1>1. PICK row \in TaskRow : task' = [task EXCEPT ![u] = row] /\ row.status \in FINISHED
  BY FailTaskRow
<1>2. u # t
  BY <1>1 DEF FINISHED, TypeOK
<1>3. QED
  BY <1>1, <1>2 DEF FailTask, TypeOK

(* A task that does not exist stays blank.                                 *)
LEMMA NextBlank == ResultsInv /\ [Next]_vars => Blank'
<1> SUFFICES ASSUME ResultsInv, [Next]_vars, NEW t \in Task, task'[t].status = "none",
                    NEW i \in Item
             PROVE  item'[t][i] = NoItem
  BY DEF Blank
<1> USE DEF ResultsInv, LeaseInv, SafetyInv
<1>1. task[t].status = "none" => item[t][i] = NoItem
  BY DEF Blank
<1>2. LeaseStep(t)
  BY NextLease
<1>3. CASE item'[t] = item[t] /\ task'[t] = task[t]
  BY <1>1, <1>3
<1>4. ASSUME NEW u \in Task, CreateTask(u) PROVE item'[t] = item[t] /\ task'[t] = task[t]
  <2>1. task'[u].status = "queued"
    BY <1>4 DEF CreateTask, TypeOK, NoTask
  <2>2. QED
    BY <1>4, <2>1 DEF CreateTask, TypeOK
<1>5. ASSUME NEW u \in Task, Claim(u) PROVE item'[t] = item[t] /\ task'[t] = task[t]
  <2>1. task'[u].status = "running"
    BY <1>5 DEF Claim, TypeOK, TaskRow
  <2>2. QED
    BY <1>5, <2>1 DEF Claim, TypeOK
<1>6. ASSUME NEW u \in Task, Reap(u) PROVE item'[t] = item[t] /\ task'[t] = task[t]
  BY <1>6, FailTaskBlank DEF Reap, TerminalReason, Errors
<1>7. ASSUME NEW u \in Task, NEW k \in Attempt, Heartbeat(u, k)
      PROVE  item'[t] = item[t] /\ task'[t].status = task[t].status
  BY <1>7 DEF Heartbeat, TypeOK, TaskRow
<1>8. ASSUME NEW u \in Task, Commit(u) PROVE item'[t] = item[t] /\ task'[t] = task[t]
  <2>1. CASE Fail(u)
    BY <2>1, FailTaskBlank DEF Fail, Errors
  <2>2. CASE ~Fail(u)
    <3>1. PICK op : Ending(u, op)
      BY <1>8 DEF Commit, Load, StartItem, SaveScore, FinishItemReport, FinishItemError,
           Finish, CommitResult, Fail
    <3>2. LeaseStep(u) /\ session' = session /\ task[u].status = "running"
          /\ session[Owner[u]] # "gone"
      BY <3>1, NextLease, CommitFenced DEF OpenFence, Ending
    <3>3. task'[u].status # "none"
      BY <3>2 DEF LeaseStep, Forgotten, Created, Claimed, Renewed, Kept, FINISHED
    <3>4. QED
      BY <1>8, <2>2, <3>3 DEF Commit, Load, StartItem, SaveScore, FinishItemReport,
           FinishItemError, Finish, CommitResult, WriteItem, TypeOK
  <2>3. QED
    BY <2>1, <2>2
<1>9. ASSUME NEW s \in Session, Revoke(s)
      PROVE  \/ item'[t][i] = NoItem
             \/ item'[t] = item[t] /\ task'[t] = task[t]
  BY <1>9 DEF Revoke
<1>10. ASSUME NEW u \in Task, RemoveFile(u) \/ Rollback(u) PROVE UNCHANGED <<task, item>>
  BY <1>10 DEF RemoveFile, Rollback
<1>11. ASSUME NEW u \in Task, NEW k \in Attempt, NEW c \in Calls, Begin(u, k, c)
      PROVE  UNCHANGED <<task, item>>
  BY <1>11 DEF Begin
<1>12. ASSUME NEW p \in Profile, EditProfile(p) PROVE UNCHANGED <<task, item>>
  BY <1>12 DEF EditProfile
<1>13. ASSUME NEW s \in Session, Expire(s) PROVE UNCHANGED <<task, item>>
  BY <1>13 DEF Expire
<1>14. Tick \/ UNCHANGED vars => UNCHANGED <<task, item>>
  BY DEF Tick, vars
<1>15. QED
  BY <1>1, <1>3, <1>4, <1>5, <1>6, <1>7, <1>8, <1>9, <1>10, <1>11, <1>12, <1>13, <1>14 DEF Next

(*-------------------------------- Theorems ------------------------------*)

LEMMA ResultsInvHolds == Spec => []ResultsInv
<1>1. Init => ResultsInv
  BY InitLease DEF ResultsInv, Init, Blank
<1>2. ResultsInv /\ [Next]_vars => ResultsInv'
  BY NextLeaseInv, NextBlank DEF ResultsInv
<1>3. QED
  BY <1>1, <1>2, PTL DEF Spec

(* Nothing overwrites what was persisted: save_score keeps the first score,*)
(* the operations on items skip settled ones, and no operation reaches a   *)
(* finished task.                                                          *)
THEOREM PersistedStays == Spec => ResultsFrozen
<1>1. ResultsInv /\ [Next]_vars => [\A t \in Task : Frozen(t)]_vars
  <2> SUFFICES ASSUME ResultsInv, [Next]_vars, NEW t \in Task PROVE Frozen(t)
    OBVIOUS
  <2>1. task[t].status \in FINISHED => task'[t] = task[t] \/ Erased(t)
    BY NextFinished DEF ResultsInv
  <2>2. \A i \in Item : ItemKept(t, i) \/ ItemGone(t, i)
    BY NextItems
  <2>3. QED
    BY <2>1, <2>2 DEF Frozen, ItemKept, ItemGone
<1>2. QED
  BY <1>1, ResultsInvHolds, PTL DEF Spec, ResultsFrozen

(* A worker that was replaced cannot write a score: every score carries    *)
(* the token of the claim that was the latest when it was written.         *)
THEOREM ScoresByHolder == Spec => WritesByHolder
<1> DEFINE Wrote(t, i) == item'[t][i].score > item[t][i].score
                            => item'[t][i].score = task[t].attempt
<1>1. ResultsInv /\ [Next]_vars => [\A t \in Task : \A i \in Item : Wrote(t, i)]_vars
  <2> SUFFICES ASSUME ResultsInv, [Next]_vars, NEW t \in Task, NEW i \in Item
               PROVE  Wrote(t, i)
    OBVIOUS
  <2>1. ItemKept(t, i) \/ ItemGone(t, i)
    BY NextItems
  <2>2. item[t][i].score \in Nat
    BY ConstantsAssumption DEF ResultsInv, LeaseInv, SafetyInv, TypeOK, ItemRow
  <2>3. QED
    BY <2>1, <2>2 DEF ItemKept, ItemGone, NoItem
<1>2. QED
  BY <1>1, ResultsInvHolds, PTL DEF Spec, WritesByHolder
(***************************************************************************)
(*                                 Outcomes                                *)
(***************************************************************************)

(* A settled item says whether it has a score.                             *)
Explained(row) ==
  /\ row.status \in {"succeeded", "score_only"} => row.score # 0
  /\ row.status = "failed" => row.score = 0

ItemsExplained == \A t \in Task, i \in Item : Explained(item[t][i])

(*------------------------ What an item row becomes ----------------------*)

(* One of the operations on item rows, on an item of its task.             *)
RowStep(t, i) ==
  LET row == item[t][i]
  IN  \/ item'[t][i] = row
      \/ /\ i \in Jobs[t]
         /\ \/ item'[t][i] = StartRow(row)
            \/ \E k \in Attempt : item'[t][i] = ScoreRow(row, k)
            \/ \E k \in Attempt : (Settled(row) \/ row.score # 0) /\ item'[t][i] = ReportRow(row, k)
            \/ \E e \in Errors : item'[t][i] = ErrorRow(row, e)

LEMMA RowOpsExplain ==
  ASSUME NEW row \in ItemRow, Explained(row)
  PROVE  /\ Explained(StartRow(row))
         /\ \A k \in Attempt : Explained(ScoreRow(row, k))
         /\ \A k \in Attempt : Settled(row) \/ row.score # 0 => Explained(ReportRow(row, k))
         /\ \A e \in Errors : Explained(ErrorRow(row, e)) /\ Settled(ErrorRow(row, e))
<1> USE DEF ItemRow, Explained, Settled, TERMINAL_ITEMS
<1>1. Explained(StartRow(row))
  BY DEF StartRow
<1>2. ASSUME NEW k \in Attempt PROVE Explained(ScoreRow(row, k))
  BY DEF ScoreRow
<1>3. ASSUME NEW k \in Attempt, Settled(row) \/ row.score # 0 PROVE Explained(ReportRow(row, k))
  BY <1>3 DEF ReportRow
<1>4. ASSUME NEW e \in Errors PROVE Explained(ErrorRow(row, e)) /\ Settled(ErrorRow(row, e))
  BY DEF ErrorRow
<1>5. QED
  BY <1>1, <1>2, <1>3, <1>4

(* A failed diagnosis settles its items, and its status is their aggregate;*)
(* another failed task has no items to settle.                             *)
LEMMA FailTaskOutcome ==
  ASSUME TypeOK, NEW t \in Task, NEW e \in Errors, FailTask(t, e)
  PROVE  /\ \A i \in Item : RowStep(t, i)
         /\ Kind[t] = "diagnosis" =>
              /\ \A i \in Jobs[t] : item'[t][i] = ErrorRow(item[t][i], e)
              /\ \A i \in Item \ Jobs[t] : item'[t][i] = item[t][i]
              /\ task'[t] = AggregateRow(t, item'[t], e)
              /\ doc' = doc
         /\ Kind[t] # "diagnosis" => item' = item /\ task'[t].status = "failed"
<1>1. CASE Kind[t] = "diagnosis"
  <2> DEFINE rows == [i \in Item |-> IF i \in Jobs[t] THEN ErrorRow(item[t][i], e)
                                     ELSE item[t][i]]
  <2>1. item' = [item EXCEPT ![t] = rows] /\ task' = [task EXCEPT ![t] = AggregateRow(t, rows, e)]
    BY <1>1 DEF FailTask
  <2>2. item'[t] = rows
    BY <2>1 DEF TypeOK
  <2>3. task'[t] = AggregateRow(t, item'[t], e)
    BY <2>1, <2>2 DEF TypeOK
  <2>4. Jobs[t] \subseteq Item
    BY ConstantsAssumption
  <2>5. doc' = doc
    BY <1>1 DEF FailTask
  <2>6. \A i \in Item : item'[t][i] = IF i \in Jobs[t] THEN ErrorRow(item[t][i], e) ELSE item[t][i]
    BY <2>2
  <2> HIDE DEF rows
  <2>7. QED
    BY <1>1, <2>3, <2>4, <2>5, <2>6 DEF RowStep
<1>2. CASE Kind[t] # "diagnosis"
  BY <1>2, ZenonT(60) DEF FailTask, RowStep, TypeOK, TaskRow
<1>3. QED
  BY <1>1, <1>2

(* A commit that writes an item writes one of its task's.                  *)
LEMMA CommitRows ==
  ASSUME SafetyInv, NEW t \in Task, Commit(t), NEW i \in Item
  PROVE  RowStep(t, i)
<1> DEFINE j == txn[t].call.item
           row == item[t][j]
<1>0. TypeOK /\ OpenFence
  BY DEF SafetyInv
<1>1. ASSUME NEW op, NEW new, Ending(t, op), WriteItem(t, new),
             op \in {"start_item", "save_score", "finish_item_report", "finish_item_error"}
      PROVE  /\ j \in Jobs[t]
             /\ item'[t][i] = IF i = j THEN new ELSE item[t][i]
  <2>1. txn[t].call \in CallsOn(t) /\ txn[t].call.op = op
    BY <1>0, <1>1, CommitFenced
  <2>2. j \in Jobs[t]
    BY <1>1, <2>1 DEF CallsOn, ItemCall
  <2>3. QED
    BY <1>0, <1>1, <2>2 DEF WriteItem, TypeOK
<1>2. CASE Load(t) \/ Finish(t) \/ CommitResult(t)
  BY <1>2 DEF Load, Finish, CommitResult, RowStep
<1>3. CASE StartItem(t)
  BY <1>1, <1>3 DEF StartItem, RowStep
<1>4. CASE SaveScore(t)
  <2>1. txn[t].token \in Attempt
    BY <1>0, <1>4, OpenTxn DEF SaveScore, Ending
  <2>2. QED
    BY <1>1, <1>4, <2>1 DEF SaveScore, RowStep
<1>5. CASE FinishItemReport(t)
  <2>1. txn[t].call.from \in Attempt
    BY <1>0, <1>5, OpenTxn, CallFields DEF FinishItemReport, Ending
  <2>2. QED
    BY <1>1, <1>5, <2>1 DEF FinishItemReport, RowStep
<1>6. CASE FinishItemError(t)
  BY <1>1, <1>6 DEF FinishItemError, RowStep, Errors
<1>7. CASE Fail(t)
  BY <1>0, <1>7, FailTaskOutcome DEF Fail, Errors
<1>8. QED
  BY <1>2, <1>3, <1>4, <1>5, <1>6, <1>7 DEF Commit

LEMMA RowStepExplains ==
  ASSUME TypeOK, NEW t \in Task, NEW i \in Item, Explained(item[t][i]), RowStep(t, i)
  PROVE  Explained(item'[t][i])
<1>1. item[t][i] \in ItemRow
  BY DEF TypeOK
<1>2. QED
  BY <1>1, RowOpsExplain DEF RowStep

LEMMA NextExplained == SafetyInv /\ ItemsExplained /\ [Next]_vars => ItemsExplained'
<1> SUFFICES ASSUME SafetyInv, ItemsExplained, [Next]_vars, NEW t \in Task, NEW i \in Item
             PROVE  Explained(item'[t][i])
  BY DEF ItemsExplained
<1> USE DEF SafetyInv
<1>0. Explained(item[t][i]) /\ Explained(NoItem)
  BY DEF ItemsExplained, Explained, NoItem
<1>1. CASE CreateTask(t)
  BY <1>0, <1>1 DEF CreateTask, TypeOK, Explained, NoItem
<1>2. CASE Reap(t)
  <2>1. TerminalReason(t) \in Errors
    BY <1>2 DEF Reap, TerminalReason, Errors
  <2>2. QED
    BY <1>0, <1>2, <2>1, FailTaskOutcome, RowStepExplains DEF Reap
<1>3. CASE Commit(t)
  BY <1>0, <1>3, CommitRows, RowStepExplains
<1>4. CASE Claim(t) \/ Erasing(t) \/ Calm(t)
  BY <1>0, <1>4 DEF Claim, Erasing, Calm
<1>5. QED
  BY <1>1, <1>2, <1>3, <1>4, NextActs DEF Acts, Acted
(*--------------------- The status tells the outcomes --------------------*)

(* The aggregate of settled items counts their reports and their scores.   *)
LEMMA AggregateCounts ==
  ASSUME NEW t \in Task, Kind[t] = "diagnosis", NEW rows,
         \A i \in Jobs[t] : Settled(rows[i]) /\ Explained(rows[i])
  PROVE  LET done == {i \in Jobs[t] : rows[i].status = "succeeded"}
             scored == {i \in Jobs[t] : rows[i].status \in {"succeeded", "score_only"}}
         IN  /\ Aggregate(t, rows) = "succeeded" <=> done = Jobs[t]
             /\ Aggregate(t, rows) = "failed" <=> scored = {}
<1>1. Jobs[t] # {}
  BY ConstantsAssumption
<1>2. \A i \in Jobs[t] :
         /\ rows[i].status \in {"succeeded", "score_only", "failed"}
         /\ rows[i].score # 0 <=> rows[i].status \in {"succeeded", "score_only"}
  BY DEF Settled, TERMINAL_ITEMS, Explained
<1>3. QED
  BY <1>1, <1>2 DEF Aggregate

Summarised(t, row, rows) ==
  LET done == {i \in Jobs[t] : rows[i].status = "succeeded"}
      scored == {i \in Jobs[t] : rows[i].status \in {"succeeded", "score_only"}}
  IN  /\ \A i \in Jobs[t] : Settled(rows[i])
      /\ row.status = "succeeded" <=> done = Jobs[t]
      /\ row.status = "failed" <=> scored = {}

(* A diagnosis that ends with settled items tells their outcomes.          *)
LEMMA AggregateRowSummarises ==
  ASSUME NEW t \in Task, Kind[t] = "diagnosis", task[t] \in TaskRow, NEW rows, NEW e,
         \A i \in Jobs[t] : Settled(rows[i]) /\ Explained(rows[i])
  PROVE  Summarised(t, AggregateRow(t, rows, e), rows)
<1>1. AggregateRow(t, rows, e).status = Aggregate(t, rows)
  BY DEF AggregateRow, TaskRow
<1>2. QED
  BY <1>1, AggregateCounts DEF Summarised

LEMMA FailTaskSummarises ==
  ASSUME TypeOK, ItemsExplained, NEW t \in Task, NEW e \in Errors, FailTask(t, e),
         Kind[t] = "diagnosis"
  PROVE  Summarised(t, task'[t], item'[t])
<1>1. \A i \in Jobs[t] : item'[t][i] = ErrorRow(item[t][i], e)
  BY FailTaskOutcome
<1>2. \A i \in Jobs[t] : i \in Item /\ item[t][i] \in ItemRow /\ Explained(item[t][i])
  BY ConstantsAssumption DEF TypeOK, ItemsExplained
<1>3. \A i \in Jobs[t] : Settled(item'[t][i]) /\ Explained(item'[t][i])
  BY <1>1, <1>2, RowOpsExplain
<1>4. task'[t] = AggregateRow(t, item'[t], e)
  BY FailTaskOutcome
<1>5. QED
  BY <1>3, <1>4, AggregateRowSummarises DEF TypeOK

LEMMA NextSummarises ==
  SafetyInv /\ ItemsExplained /\ StatusSummarisesItems /\ [Next]_vars => StatusSummarisesItems'
<1> SUFFICES ASSUME SafetyInv, ItemsExplained, StatusSummarisesItems, [Next]_vars,
                    NEW t \in Task, Kind[t] = "diagnosis", task'[t].status \in FINISHED
             PROVE  Summarised(t, task'[t], item'[t])
  BY DEF StatusSummarisesItems, Summarised
<1> USE DEF SafetyInv
<1>1. CASE CreateTask(t)
  BY <1>1 DEF CreateTask, TypeOK, NoTask, FINISHED
<1>2. CASE Claim(t)
  BY <1>2 DEF Claim, TypeOK, TaskRow, FINISHED
<1>3. CASE Reap(t)
  <2>1. TerminalReason(t) \in Errors
    BY <1>3 DEF Reap, TerminalReason, Errors
  <2>2. QED
    BY <1>3, <2>1, FailTaskSummarises DEF Reap
<1>4. CASE Commit(t)
  <2>1. PICK op : Ending(t, op)
    BY <1>4 DEF Commit, Load, StartItem, SaveScore, FinishItemReport, FinishItemError, Finish,
         CommitResult, Fail
  <2>2. task[t].status = "running"
    BY <2>1, CommitFenced
  <2>3. CASE task' = task
    BY <2>2, <2>3 DEF FINISHED
  <2>4. CASE Finish(t)
    <3>1. task'[t] = AggregateRow(t, item'[t], "none") /\ item' = item
      BY <2>4 DEF Finish, TypeOK
    <3>2. \A i \in Jobs[t] : Settled(item[t][i]) /\ Explained(item[t][i])
      BY <2>4, ConstantsAssumption DEF Finish, ItemsExplained
    <3>3. QED
      BY <3>1, <3>2, AggregateRowSummarises DEF TypeOK
  <2>5. CASE CommitResult(t)
    BY <2>5 DEF CommitResult
  <2>6. CASE Fail(t)
    BY <2>6, FailTaskSummarises DEF Fail, Errors
  <2>7. QED
    BY <1>4, <2>3, <2>4, <2>5, <2>6
    DEF Commit, Load, StartItem, SaveScore, FinishItemReport, FinishItemError, WriteItem
<1>5. CASE Erasing(t)
  BY <1>5 DEF Erasing, NoTask, FINISHED
<1>6. CASE Calm(t)
  BY <1>6 DEF Calm, StatusSummarisesItems, Summarised
<1>7. QED
  BY <1>1, <1>2, <1>3, <1>4, <1>5, <1>6, NextActs DEF Acts, Acted

(*--------------------- Originals, deletion, busy profiles ---------------*)

LEMMA ReleaseIsDue ==
  ASSUME TypeOK, NEW t \in Task, NEW status, ReleaseDocument(t, status)
  PROVE  ~doc'[t].stored \/ doc'[t].due <= now
<1>1. doc'[t] = ReleasedRow(doc[t], status) /\ doc[t] \in DocRow /\ now \in Nat
  BY DEF ReleaseDocument, TypeOK
<1>2. QED
  BY <1>1 DEF ReleasedRow, DocRow

LEMMA NextReleased == SafetyInv /\ OriginalReleased /\ [Next]_vars => OriginalReleased'
<1> SUFFICES ASSUME SafetyInv, OriginalReleased, [Next]_vars,
                    NEW t \in Task, Kind[t] = "document_parse", task'[t].status \in FINISHED
             PROVE  ~doc'[t].stored \/ doc'[t].due <= now'
  BY DEF OriginalReleased
<1> USE DEF SafetyInv
<1>1. CASE CreateTask(t)
  BY <1>1 DEF CreateTask, TypeOK, NoTask, FINISHED
<1>2. CASE Claim(t)
  BY <1>2 DEF Claim, TypeOK, TaskRow, FINISHED
<1>3. CASE Reap(t)
  BY <1>3, ReleaseIsDue DEF Reap, FailTask
<1>4. CASE Commit(t)
  <2>1. PICK op : Ending(t, op)
    BY <1>4 DEF Commit, Load, StartItem, SaveScore, FinishItemReport, FinishItemError, Finish,
         CommitResult, Fail
  <2>2. task[t].status = "running" /\ now' = now
    BY <2>1, CommitFenced DEF Ending
  <2>3. CASE task' = task
    BY <2>2, <2>3 DEF FINISHED
  <2>4. ~Finish(t)
    BY CommitFenced, FittingCalls DEF Finish
  <2>5. CASE CommitResult(t)
    BY <2>2, <2>5, ReleaseIsDue DEF CommitResult
  <2>6. CASE Fail(t)
    BY <2>2, <2>6, ReleaseIsDue DEF Fail, FailTask
  <2>7. QED
    BY <1>4, <2>3, <2>4, <2>5, <2>6
    DEF Commit, Load, StartItem, SaveScore, FinishItemReport, FinishItemError, WriteItem
<1>5. CASE Erasing(t)
  BY <1>5 DEF Erasing, NoTask, FINISHED
<1>6. CASE Calm(t)
  <2>1. ~doc[t].stored \/ doc[t].due <= now
    BY <1>6 DEF Calm, OriginalReleased
  <2>2. now \in Nat /\ now' \in Nat /\ doc[t] \in DocRow
    BY NextTypeOK DEF TypeOK
  <2>3. QED
    BY <1>6, <2>1, <2>2 DEF Calm, DocRow
<1>7. QED
  BY <1>1, <1>2, <1>3, <1>4, <1>5, <1>6, NextActs DEF Acts, Acted

LEMMA NextErased == SafetyInv /\ ErasedForGood /\ [Next]_vars => ErasedForGood'
<1> SUFFICES ASSUME SafetyInv, ErasedForGood, [Next]_vars,
                    NEW t \in Task, session'[Owner[t]] = "gone"
             PROVE  /\ task'[t] = NoTask /\ made'[t] = 0 /\ doc'[t] = NoDoc
                    /\ \A i \in Item : item'[t][i] = NoItem
  BY DEF ErasedForGood
<1>1. CASE Erasing(t)
  BY <1>1 DEF Erasing
<1>2. CASE Calm(t)
  BY <1>2 DEF Calm, ErasedForGood, NoDoc
<1>3. CASE CreateTask(t) \/ Claim(t) \/ Reap(t)
  BY <1>3 DEF CreateTask, Claim, Reap, LockCandidate, Active
<1>4. CASE Commit(t)
  BY <1>4 DEF Commit, Load, StartItem, SaveScore, FinishItemReport, FinishItemError, Finish,
       CommitResult, Fail, Ending, Live, Active
<1>5. QED
  BY <1>1, <1>2, <1>3, <1>4, NextActs DEF Acts, Acted, SafetyInv

(* Only its creation makes a task active.                                  *)
LEMMA ActiveBefore ==
  ASSUME SafetyInv, [Next]_vars, NEW t \in Task, task'[t].status \in ACTIVE
  PROVE  task[t].status \in ACTIVE \/ CreateTask(t)
<1> USE DEF SafetyInv, ACTIVE
<1>1. CASE Claim(t) \/ Reap(t)
  BY <1>1 DEF Claim, Reap, LockCandidate, Candidate
<1>2. CASE Commit(t)
  BY <1>2, CommitFenced DEF Commit, Load, StartItem, SaveScore, FinishItemReport,
     FinishItemError, Finish, CommitResult, Fail
<1>3. CASE Erasing(t)
  BY <1>3 DEF Erasing, NoTask
<1>4. CASE Calm(t)
  BY <1>4 DEF Calm
<1>5. QED
  BY <1>1, <1>2, <1>3, <1>4, NextActs DEF Acts, Acted

LEMMA NextOneChat == SafetyInv /\ OneChatPerProfile /\ [Next]_vars => OneChatPerProfile'
<1> SUFFICES ASSUME SafetyInv, OneChatPerProfile, [Next]_vars,
                    NEW t \in Task, NEW u \in Task, t # u,
                    Kind[t] = "profile_chat", Kind[u] = "profile_chat", About[t] = About[u],
                    task'[t].status \in ACTIVE, task'[u].status \in ACTIVE
             PROVE  FALSE
  BY DEF OneChatPerProfile
<1>1. ASSUME NEW a \in Task, NEW b \in Task, a # b, CreateTask(a),
             Kind[a] = "profile_chat", Kind[b] = "profile_chat", About[a] = About[b],
             task'[b].status \in ACTIVE
      PROVE  FALSE
  <2>1. task'[b] = task[b]
    BY <1>1 DEF CreateTask, SafetyInv, TypeOK
  <2>2. QED
    BY <1>1, <2>1 DEF CreateTask, ProfileBusy
<1>2. CASE CreateTask(t) \/ CreateTask(u)
  BY <1>1, <1>2
<1>3. CASE ~CreateTask(t) /\ ~CreateTask(u)
  BY <1>3, ActiveBefore DEF OneChatPerProfile
<1>4. QED
  BY <1>2, <1>3
(*-------------------------- Writes within the lease ---------------------*)

(* No operation but a commit gives an item a score or a report.            *)
LEMMA ErrorRowKeeps ==
  ASSUME NEW row \in ItemRow, NEW e
  PROVE  ErrorRow(row, e).score = row.score /\ ErrorRow(row, e).report = row.report
  BY DEF ErrorRow, ItemRow

LEMMA WriterIsLive ==
  ASSUME SafetyInv, [Next]_vars, NEW t \in Task, Writes(t)
  PROVE  Live(t)
<1> USE DEF SafetyInv
<1>0. /\ made[t] \in Nat
      /\ \A i \in Item : item[t][i] \in ItemRow /\ item[t][i].score \in Nat
  BY ConstantsAssumption DEF TypeOK, ItemRow
<1>1. CASE Commit(t)
  BY <1>1 DEF Commit, Load, StartItem, SaveScore, FinishItemReport, FinishItemError, Finish,
     CommitResult, Fail, Ending
<1>2. ~CreateTask(t)
  <2> SUFFICES ASSUME CreateTask(t) PROVE FALSE
    OBVIOUS
  <2>1. made' = made /\ \A i \in Item : item'[t][i].score = 0 /\ item'[t][i].report = 0
    BY DEF CreateTask, TypeOK, NoItem
  <2>2. QED
    BY <1>0, <2>1 DEF Writes
<1>3. ~Reap(t)
  <2> SUFFICES ASSUME Reap(t) PROVE FALSE
    OBVIOUS
  <2>1. PICK e \in Errors : FailTask(t, e)
    BY DEF Reap, TerminalReason, Errors
  <2>2. \A i \in Item : item'[t][i] = item[t][i] \/ item'[t][i] = ErrorRow(item[t][i], e)
    BY <2>1, FailTaskOutcome
  <2>3. \A i \in Item : item'[t][i].score = item[t][i].score /\ item'[t][i].report = item[t][i].report
    BY <1>0, <2>2, ErrorRowKeeps
  <2>4. made' = made
    BY DEF Reap
  <2>5. QED
    BY <1>0, <2>3, <2>4 DEF Writes
<1>4. ~Claim(t) /\ ~Calm(t)
  BY <1>0 DEF Claim, Calm, Writes
<1>5. ~Erasing(t)
  BY <1>0 DEF Erasing, Writes, NoItem
<1>6. QED
  BY <1>1, <1>2, <1>3, <1>4, <1>5, NextActs DEF Acts, Acted

(*-------------------------------- Theorems ------------------------------*)

OutcomeInv ==
  /\ SafetyInv /\ ItemsExplained
  /\ StatusSummarisesItems /\ OriginalReleased /\ ErasedForGood /\ OneChatPerProfile

LEMMA InitOutcome == Init => OutcomeInv
<1> SUFFICES ASSUME Init PROVE OutcomeInv
  OBVIOUS
<1>1. ItemsExplained
  BY DEF Init, ItemsExplained, Explained, NoItem
<1>2. StatusSummarisesItems /\ OriginalReleased /\ OneChatPerProfile
  BY DEF Init, StatusSummarisesItems, OriginalReleased, OneChatPerProfile, NoTask, FINISHED, ACTIVE
<1>3. ErasedForGood
  BY ConstantsAssumption DEF Init, ErasedForGood
<1>4. QED
  BY <1>1, <1>2, <1>3, InitSafety DEF OutcomeInv

LEMMA NextOutcome == OutcomeInv /\ [Next]_vars => OutcomeInv'
  BY NextSafety, NextExplained, NextSummarises, NextReleased, NextErased, NextOneChat DEF OutcomeInv

LEMMA OutcomesHold == Spec => []OutcomeInv
  BY InitOutcome, NextOutcome, PTL DEF Spec

(* The public status of a finished diagnosis tells the outcomes of its     *)
(* items on every path to the end: _aggregate counts scores, and no row    *)
(* says "score_only" without one.                                          *)
THEOREM StatusTellsOutcomes == Spec => []StatusSummarisesItems
<1>1. OutcomeInv => StatusSummarisesItems
  BY DEF OutcomeInv
<1>2. QED
  BY <1>1, OutcomesHold, PTL

(* create_task keeps a profile to one conversation at a time, however many *)
(* sessions, tabs and workers there are.                                   *)
THEOREM OneConversation == Spec => []OneChatPerProfile
<1>1. OutcomeInv => OneChatPerProfile
  BY DEF OutcomeInv
<1>2. QED
  BY <1>1, OutcomesHold, PTL

(* However a document task ends, its original is due for removal at once.  *)
THEOREM OriginalsReleased == Spec => []OriginalReleased
<1>1. OutcomeInv => OriginalReleased
  BY DEF OutcomeInv
<1>2. QED
  BY <1>1, OutcomesHold, PTL

(* Nothing of a deleted session is left, and no client with an old token   *)
(* brings any of it back.                                                  *)
THEOREM ErasedStaysErased == Spec => []ErasedForGood
<1>1. OutcomeInv => ErasedForGood
  BY DEF OutcomeInv
<1>2. QED
  BY <1>1, OutcomesHold, PTL

(* The second check of the lease in _transaction: a version, a score or a  *)
(* report is only ever written while session, lease and deadline hold.     *)
THEOREM WrittenWithinLease == Spec => WritesWithinLease
<1> DEFINE Within(t) == Writes(t) =>
       /\ session[Owner[t]] = "active"
       /\ now < task[t].lease_until /\ now < task[t].deadline_at
<1>1. OutcomeInv /\ [Next]_vars => [\A t \in Task : Within(t)]_vars
  BY WriterIsLive DEF OutcomeInv, Live, Active
<1>2. QED
  BY <1>1, OutcomesHold, PTL DEF Spec, WritesWithinLease
(***************************************************************************)
(*                         The abstract life cycle                         *)
(***************************************************************************)

(* What TaskLifecycle sees of tasks and items.                             *)
Outcome(row) == IF Settled(row) THEN row.status ELSE "open"
PhaseMap == [t \in Task |-> IF session[Owner[t]] = "gone" THEN "erased" ELSE task[t].status]
OutcomeMap == [t \in Task |-> [i \in Item |-> IF Settled(item[t][i]) THEN item[t][i].status
                                              ELSE "open"]]

SameOutcomes(t) == \A i \in Item : Outcome(item'[t][i]) = Outcome(item[t][i])
Same(t) ==
  /\ PhaseMap'[t] = PhaseMap[t] /\ SameOutcomes(t) /\ made'[t] = made[t]

RefinementInv == ResultsInv /\ OutcomeInv

AbstractStep == [Lifecycle!Next]_(Lifecycle!vars)

LEMMA Maps ==
  /\ PhaseMap = [t \in Task |-> PhaseMap[t]] /\ PhaseMap' = [t \in Task |-> PhaseMap'[t]]
  /\ OutcomeMap = [t \in Task |-> [i \in Item |-> Outcome(item[t][i])]]
  /\ OutcomeMap' = [t \in Task |-> [i \in Item |-> Outcome(item'[t][i])]]
  /\ \A t \in Task :
       /\ PhaseMap[t] = IF session[Owner[t]] = "gone" THEN "erased" ELSE task[t].status
       /\ PhaseMap'[t] = IF session'[Owner[t]] = "gone" THEN "erased" ELSE task'[t].status
  BY DEF PhaseMap, OutcomeMap, Outcome

LEMMA CalmIsSame ==
  ASSUME NEW u \in Task, Calm(u)
  PROVE  Same(u)
  BY Maps DEF Calm, Same, SameOutcomes

(* How the three abstract variables change when all tasks but t stay.      *)
LEMMA MapsMove ==
  ASSUME TypeOK, TypeOK', NEW t \in Task, \A u \in Task \ {t} : Same(u)
  PROVE  /\ PhaseMap' = [PhaseMap EXCEPT ![t] = PhaseMap'[t]]
         /\ SameOutcomes(t) => OutcomeMap' = OutcomeMap
         /\ OutcomeMap' = [OutcomeMap EXCEPT ![t] = OutcomeMap'[t]]
         /\ made' = [made EXCEPT ![t] = made'[t]]
         /\ made'[t] = made[t] => made' = made
<1>1. made' = [made EXCEPT ![t] = made'[t]] /\ (made'[t] = made[t] => made' = made)
  BY DEF TypeOK, Same
<1>2. PhaseMap' = [PhaseMap EXCEPT ![t] = PhaseMap'[t]]
  <2>1. \A u \in Task \ {t} : PhaseMap'[u] = PhaseMap[u]
    BY DEF Same
  <2>2. QED
    BY <2>1, Maps
<1>3. SameOutcomes(t) => OutcomeMap' = OutcomeMap
  <2>1. SameOutcomes(t) => \A u \in Task : SameOutcomes(u)
    BY DEF Same
  <2>2. QED
    BY <2>1, Maps DEF SameOutcomes
<1>4. OutcomeMap' = [OutcomeMap EXCEPT ![t] = OutcomeMap'[t]]
  <2>1. \A u \in Task \ {t} : OutcomeMap'[u] = OutcomeMap[u]
    BY Maps DEF Same, SameOutcomes
  <2>2. QED
    BY <2>1, Maps
<1>5. QED
  BY <1>1, <1>2, <1>3, <1>4

(*----------------- Each abstract step, read off the rows ----------------*)

LEMMA AbstractStutter ==
  ASSUME TypeOK, TypeOK', \A u \in Task : Same(u)
  PROVE  AbstractStep
<1>1. made' = made
  BY DEF TypeOK, Same
<1>2. PhaseMap' = PhaseMap /\ OutcomeMap' = OutcomeMap
  BY Maps DEF Same, SameOutcomes
<1>3. QED
  BY <1>1, <1>2 DEF AbstractStep, Lifecycle!vars, PhaseMap, OutcomeMap

LEMMA AbstractSubmit ==
  ASSUME TypeOK, TypeOK', NEW t \in Task, \A u \in Task \ {t} : Same(u),
         SameOutcomes(t), made'[t] = made[t], PhaseMap[t] = "none", PhaseMap'[t] = "queued"
  PROVE  AbstractStep
<1>1. /\ PhaseMap' = [PhaseMap EXCEPT ![t] = "queued"]
      /\ OutcomeMap' = OutcomeMap /\ made' = made
  BY MapsMove
<1>2. Lifecycle!Submit(t)
  BY <1>1 DEF Lifecycle!Submit, PhaseMap, OutcomeMap
<1>3. QED
  BY <1>2 DEF AbstractStep, Lifecycle!Next

LEMMA AbstractBegin ==
  ASSUME TypeOK, TypeOK', NEW t \in Task, \A u \in Task \ {t} : Same(u),
         SameOutcomes(t), made'[t] = made[t], PhaseMap[t] = "queued", PhaseMap'[t] = "running"
  PROVE  AbstractStep
<1>1. /\ PhaseMap' = [PhaseMap EXCEPT ![t] = "running"]
      /\ OutcomeMap' = OutcomeMap /\ made' = made
  BY MapsMove
<1>2. Lifecycle!Begin(t)
  BY <1>1 DEF Lifecycle!Begin, PhaseMap, OutcomeMap
<1>3. QED
  BY <1>2 DEF AbstractStep, Lifecycle!Next

LEMMA AbstractGiveUp ==
  ASSUME TypeOK, TypeOK', NEW t \in Task, \A u \in Task \ {t} : Same(u),
         SameOutcomes(t), made'[t] = made[t], Kind[t] # "diagnosis",
         PhaseMap[t] \in ACTIVE, PhaseMap'[t] = "failed"
  PROVE  AbstractStep
<1>1. /\ PhaseMap' = [PhaseMap EXCEPT ![t] = "failed"]
      /\ OutcomeMap' = OutcomeMap /\ made' = made
  BY MapsMove
<1>2. Lifecycle!GiveUp(t)
  BY <1>1 DEF Lifecycle!GiveUp, PhaseMap, OutcomeMap, ACTIVE
<1>3. QED
  BY <1>2 DEF AbstractStep, Lifecycle!Next

LEMMA AbstractSucceed ==
  ASSUME TypeOK, TypeOK', NEW t \in Task, \A u \in Task \ {t} : Same(u),
         SameOutcomes(t), made'[t] = 1, Kind[t] # "diagnosis",
         PhaseMap[t] = "running", PhaseMap'[t] = "succeeded"
  PROVE  AbstractStep
<1>1. /\ PhaseMap' = [PhaseMap EXCEPT ![t] = "succeeded"]
      /\ OutcomeMap' = OutcomeMap /\ made' = [made EXCEPT ![t] = 1]
  BY MapsMove
<1>2. Lifecycle!Succeed(t)
  BY <1>1 DEF Lifecycle!Succeed, PhaseMap, OutcomeMap
<1>3. QED
  BY <1>2 DEF AbstractStep, Lifecycle!Next

LEMMA AbstractSettle ==
  ASSUME TypeOK, TypeOK', NEW t \in Task, \A u \in Task \ {t} : Same(u),
         NEW j \in Item, j \in Jobs[t],
         \A i \in Item \ {j} : Outcome(item'[t][i]) = Outcome(item[t][i]),
         Outcome(item[t][j]) = "open", Outcome(item'[t][j]) \in TERMINAL_ITEMS,
         made'[t] = made[t], PhaseMap[t] = "running", PhaseMap'[t] = "running"
  PROVE  AbstractStep
<1>0. PICK o : o = Outcome(item'[t][j])
  OBVIOUS
<1>1. PhaseMap' = PhaseMap /\ made' = made
  <2>1. PhaseMap' = [PhaseMap EXCEPT ![t] = PhaseMap[t]] /\ made' = made
    BY MapsMove
  <2>2. QED
    BY <2>1, Maps
<1>2. OutcomeMap' = [OutcomeMap EXCEPT ![t][j] = o]
  <2>1. OutcomeMap' = [OutcomeMap EXCEPT ![t] = OutcomeMap'[t]]
    BY MapsMove
  <2>2. /\ OutcomeMap[t] = [i \in Item |-> Outcome(item[t][i])]
        /\ OutcomeMap'[t] = [i \in Item |-> Outcome(item'[t][i])]
    BY Maps
  <2>3. OutcomeMap'[t] = [OutcomeMap[t] EXCEPT ![j] = o]
    BY <1>0, <2>2
  <2>4. QED
    BY <2>1, <2>3
<1>3. OutcomeMap[t][j] = "open"
  BY Maps
<1>4. o \in Lifecycle!Outcomes
  BY <1>0 DEF Lifecycle!Outcomes, TERMINAL_ITEMS
<1>5. Kind[t] = "diagnosis"
  BY ConstantsAssumption
<1>6. Lifecycle!Settle(t, j, o)
  BY <1>1, <1>2, <1>3, <1>5 DEF Lifecycle!Settle, Lifecycle!Open, PhaseMap, OutcomeMap
<1>7. QED
  BY <1>4, <1>6 DEF AbstractStep, Lifecycle!Next

LEMMA AbstractComplete ==
  ASSUME TypeOK, TypeOK', NEW t \in Task, \A u \in Task \ {t} : Same(u),
         Kind[t] = "diagnosis", made'[t] = made[t], PhaseMap[t] \in ACTIVE,
         Summarised(t, task'[t], item'[t]), PhaseMap'[t] = task'[t].status,
         task'[t].status \in FINISHED,
         \A i \in Item :
           IF i \in Jobs[t] /\ Outcome(item[t][i]) = "open"
           THEN Outcome(item'[t][i]) = "succeeded" => PhaseMap[t] = "running"
           ELSE Outcome(item'[t][i]) = Outcome(item[t][i])
  PROVE  AbstractStep
<1> DEFINE o == [i \in Item |-> Outcome(item'[t][i])]
<1>1. o \in [Item -> Lifecycle!Outcomes \cup {Lifecycle!Open}]
  BY DEF Lifecycle!Outcomes, Lifecycle!Open, Outcome, Settled, TERMINAL_ITEMS
<1>2. \A i \in Jobs[t] : o[i] = item'[t][i].status /\ o[i] \in Lifecycle!Outcomes
  BY ConstantsAssumption DEF Summarised, Settled, Outcome, Lifecycle!Outcomes, TERMINAL_ITEMS
<1>3. PhaseMap'[t] = Lifecycle!Summary(t, o)
  <2>1. Jobs[t] # {}
    BY ConstantsAssumption
  <2>2. (\A i \in Jobs[t] : o[i] = "succeeded") <=> task'[t].status = "succeeded"
    BY <1>2 DEF Summarised
  <2>3. (\A i \in Jobs[t] : o[i] = "failed") <=> task'[t].status = "failed"
    BY <1>2 DEF Summarised, Lifecycle!Outcomes
  <2> HIDE DEF o
  <2>4. QED
    BY <2>1, <2>2, <2>3 DEF Lifecycle!Summary, FINISHED
<1>4. /\ PhaseMap' = [PhaseMap EXCEPT ![t] = Lifecycle!Summary(t, o)]
      /\ OutcomeMap' = [OutcomeMap EXCEPT ![t] = o]
      /\ made' = made
  <2>1. OutcomeMap'[t] = o
    BY Maps
  <2>2. QED
    BY <1>3, <2>1, MapsMove
<1>5. \A i \in Item :
        IF i \in Jobs[t] /\ OutcomeMap[t][i] = "open"
        THEN o[i] \in Lifecycle!Outcomes /\ (o[i] = "succeeded" => PhaseMap[t] = "running")
        ELSE o[i] = OutcomeMap[t][i]
  BY <1>2, Maps
<1> HIDE DEF o
<1>6. Lifecycle!CompleteDiagnosis(t)
  BY <1>1, <1>4, <1>5
  DEF Lifecycle!CompleteDiagnosis, Lifecycle!Open, PhaseMap, OutcomeMap, ACTIVE
<1>7. QED
  BY <1>6 DEF AbstractStep, Lifecycle!Next

LEMMA AbstractErase ==
  ASSUME TypeOK, TypeOK', NEW s \in Session, OfSession(s)
  PROVE  AbstractStep
<1> DEFINE T == {t \in Task : Owner[t] = s}
<1>1. \A u \in Task : u \notin T => Same(u)
  BY CalmIsSame DEF OfSession
<1>2. \A u \in T : /\ PhaseMap'[u] = "erased" /\ made'[u] = 0
                  /\ \A i \in Item : Outcome(item'[u][i]) = "open"
  BY Maps DEF OfSession, Erasing, Outcome, Settled, TERMINAL_ITEMS, NoItem
<1>3. T \in SUBSET Task
  OBVIOUS
<1> HIDE DEF T
<1>4. made' = [t \in Task |-> IF t \in T THEN 0 ELSE made[t]]
  BY <1>1, <1>2, <1>3 DEF Same, TypeOK
<1>5. PhaseMap' = [t \in Task |-> IF t \in T THEN "erased" ELSE PhaseMap[t]]
  BY <1>1, <1>2, <1>3, Maps DEF Same
<1>6. OutcomeMap' = [t \in Task |-> IF t \in T THEN [i \in Item |-> "open"] ELSE OutcomeMap[t]]
  <2>1. \A t \in Task : OutcomeMap'[t] = IF t \in T THEN [i \in Item |-> "open"] ELSE OutcomeMap[t]
    BY <1>1, <1>2, <1>3, Maps DEF Same, SameOutcomes
  <2>2. QED
    BY <2>1, Maps
<1>7. Lifecycle!Erase(T)
  BY <1>4, <1>5, <1>6 DEF Lifecycle!Erase, Lifecycle!Open, PhaseMap, OutcomeMap
<1>8. QED
  BY <1>3, <1>7 DEF AbstractStep, Lifecycle!Next

(*------------------------ Every step maps to one ------------------------*)

(* A step that leaves the rest of the platform alone.                      *)
OnlyTask(t) ==
  /\ TypeOK /\ TypeOK' /\ \A u \in Task \ {t} : Same(u)
  /\ session' = session /\ session[Owner[t]] # "gone"

LEMMA ShownStatus ==
  ASSUME NEW t \in Task, OnlyTask(t)
  PROVE  PhaseMap[t] = task[t].status /\ PhaseMap'[t] = task'[t].status
  BY Maps DEF OnlyTask

LEMMA BlankOutcome == Outcome(NoItem) = "open" /\ \A row : row.status = "pending" => Outcome(row) = "open"
  BY DEF Outcome, Settled, TERMINAL_ITEMS, NoItem

(* An open item is left open or settled, a settled one is left alone.      *)
LEMMA RowOutcome ==
  ASSUME NEW row \in ItemRow
  PROVE  /\ Outcome(StartRow(row)) = Outcome(row)
         /\ \A k \in Attempt :
              /\ Outcome(ScoreRow(row, k)) = Outcome(row)
              /\ IF Settled(row) THEN ReportRow(row, k) = row
                 ELSE Outcome(row) = "open" /\ Outcome(ReportRow(row, k)) = "succeeded"
         /\ \A e \in Errors :
              IF Settled(row) THEN ErrorRow(row, e) = row
              ELSE Outcome(row) = "open" /\ Outcome(ErrorRow(row, e)) \in {"score_only", "failed"}
<1> USE DEF ItemRow, Outcome, Settled, TERMINAL_ITEMS
<1>1. Outcome(StartRow(row)) = Outcome(row)
  BY DEF StartRow
<1>2. ASSUME NEW k \in Attempt PROVE Outcome(ScoreRow(row, k)) = Outcome(row)
  BY DEF ScoreRow
<1>3. ASSUME NEW k \in Attempt
      PROVE  IF Settled(row) THEN ReportRow(row, k) = row
             ELSE Outcome(row) = "open" /\ Outcome(ReportRow(row, k)) = "succeeded"
  BY DEF ReportRow
<1>4. ASSUME NEW e \in Errors
      PROVE  IF Settled(row) THEN ErrorRow(row, e) = row
             ELSE Outcome(row) = "open" /\ Outcome(ErrorRow(row, e)) \in {"score_only", "failed"}
  BY DEF ErrorRow
<1>5. QED
  BY <1>1, <1>2, <1>3, <1>4

LEMMA SubmitMaps ==
  ASSUME RefinementInv, NEW t \in Task, OnlyTask(t), CreateTask(t)
  PROVE  AbstractStep
<1>1. task[t].status = "none" /\ task'[t].status = "queued" /\ made' = made
  BY DEF CreateTask, OnlyTask, TypeOK, NoTask
<1>2. \A i \in Item : item[t][i] = NoItem
  BY <1>1 DEF RefinementInv, ResultsInv, Blank
<1>3. \A i \in Item : item'[t][i] = NoItem \/ item'[t][i].status = "pending"
  BY DEF CreateTask, OnlyTask, TypeOK, NoItem
<1>4. SameOutcomes(t)
  BY <1>2, <1>3, BlankOutcome DEF SameOutcomes
<1>5. QED
  BY <1>1, <1>4, ShownStatus, AbstractSubmit DEF OnlyTask

LEMMA ClaimMaps ==
  ASSUME NEW t \in Task, OnlyTask(t), Claim(t)
  PROVE  AbstractStep
<1>1. /\ task[t].status \in {"queued", "running"} /\ task'[t].status = "running"
      /\ made' = made /\ SameOutcomes(t)
  BY DEF Claim, LockCandidate, Candidate, OnlyTask, TypeOK, TaskRow, SameOutcomes
<1>2. CASE task[t].status = "queued"
  BY <1>1, <1>2, ShownStatus, AbstractBegin DEF OnlyTask
<1>3. CASE task[t].status = "running"
  <2>1. Same(t)
    BY <1>1, <1>3, ShownStatus DEF Same
  <2>2. QED
    BY <2>1, AbstractStutter DEF OnlyTask
<1>4. QED
  BY <1>1, <1>2, <1>3

LEMMA FailTaskMaps ==
  ASSUME RefinementInv, NEW t \in Task, OnlyTask(t), NEW e \in Errors, FailTask(t, e),
         task[t].status \in ACTIVE, made' = made
  PROVE  AbstractStep
<1>0. TypeOK /\ ItemsExplained
  BY DEF OnlyTask, RefinementInv, OutcomeInv
<1>1. CASE Kind[t] = "diagnosis"
  <2>1. Summarised(t, task'[t], item'[t])
    BY <1>0, <1>1, FailTaskSummarises
  <2>2. task'[t].status \in FINISHED
    <3>1. PICK row \in TaskRow : task' = [task EXCEPT ![t] = row] /\ row.status \in FINISHED
      BY <1>0, FailTaskRow
    <3>2. QED
      BY <1>0, <3>1 DEF TypeOK
  <2>3. ASSUME NEW i \in Item
        PROVE  IF i \in Jobs[t] /\ Outcome(item[t][i]) = "open"
               THEN Outcome(item'[t][i]) = "succeeded" => PhaseMap[t] = "running"
               ELSE Outcome(item'[t][i]) = Outcome(item[t][i])
    <3>1. item[t][i] \in ItemRow
      BY <1>0 DEF TypeOK
    <3>2. item'[t][i] = IF i \in Jobs[t] THEN ErrorRow(item[t][i], e) ELSE item[t][i]
      BY <1>0, <1>1, FailTaskOutcome
    <3>3. QED
      BY <3>1, <3>2, RowOutcome DEF Outcome, Settled, TERMINAL_ITEMS
  <2>4. QED
    BY <1>1, <2>1, <2>2, <2>3, ShownStatus, AbstractComplete DEF OnlyTask
<1>2. CASE Kind[t] # "diagnosis"
  <2>1. item' = item /\ task'[t].status = "failed"
    BY <1>0, <1>2, FailTaskOutcome
  <2>2. SameOutcomes(t)
    BY <2>1 DEF SameOutcomes
  <2>3. QED
    BY <1>2, <2>1, <2>2, ShownStatus, AbstractGiveUp DEF OnlyTask
<1>3. QED
  BY <1>1, <1>2

LEMMA ReapMaps ==
  ASSUME RefinementInv, NEW t \in Task, OnlyTask(t), Reap(t)
  PROVE  AbstractStep
<1>1. PICK e \in Errors : FailTask(t, e)
  BY DEF Reap, TerminalReason, Errors
<1>2. task[t].status \in ACTIVE /\ made' = made
  BY DEF Reap, LockCandidate, Candidate, ACTIVE
<1>3. QED
  BY <1>1, <1>2, FailTaskMaps

(* An operation on one item leaves it alone, or settles it.                *)
LEMMA WriteItemMaps ==
  ASSUME NEW t \in Task, OnlyTask(t), NEW j \in Jobs[t], NEW row,
         task[t].status = "running", txn[t].call.item = j, WriteItem(t, row),
         \/ Outcome(row) = Outcome(item[t][j])
         \/ Outcome(item[t][j]) = "open" /\ Outcome(row) \in TERMINAL_ITEMS
  PROVE  AbstractStep
<1>1. task' = task /\ made' = made /\ j \in Item
  BY ConstantsAssumption DEF WriteItem
<1>2. \A i \in Item : item'[t][i] = IF i = j THEN row ELSE item[t][i]
  BY <1>1 DEF WriteItem, OnlyTask, TypeOK
<1>3. PhaseMap'[t] = "running" /\ PhaseMap[t] = "running"
  BY <1>1, ShownStatus
<1>4. CASE Outcome(row) = Outcome(item[t][j])
  <2>1. Same(t)
    BY <1>1, <1>2, <1>3, <1>4 DEF Same, SameOutcomes
  <2>2. QED
    BY <2>1, AbstractStutter DEF OnlyTask
<1>5. CASE Outcome(item[t][j]) = "open" /\ Outcome(row) \in TERMINAL_ITEMS
  BY <1>1, <1>2, <1>3, <1>5, AbstractSettle DEF OnlyTask
<1>6. QED
  BY <1>4, <1>5

LEMMA CommitMaps ==
  ASSUME RefinementInv, NEW t \in Task, OnlyTask(t), Commit(t)
  PROVE  AbstractStep
<1> DEFINE j == txn[t].call.item
           row == item[t][j]
<1>0. /\ TypeOK /\ OpenFence /\ OneResult
      /\ task[t].status = "running" /\ made[t] = 0
  <2>1. TypeOK /\ OpenFence /\ OneResult
    BY DEF RefinementInv, OutcomeInv, SafetyInv
  <2>2. task[t].status = "running"
    BY <2>1, CommitFenced DEF Commit, Load, StartItem, SaveScore, FinishItemReport,
       FinishItemError, Finish, CommitResult, Fail
  <2>3. QED
    BY <2>1, <2>2 DEF OneResult
<1>1. ASSUME NEW op, Ending(t, op),
             op \in {"start_item", "save_score", "finish_item_report", "finish_item_error"}
      PROVE  j \in Jobs[t] /\ row \in ItemRow
  <2>1. txn[t].call \in CallsOn(t) /\ txn[t].call.op = op
    BY <1>0, <1>1, CommitFenced
  <2>2. j \in Jobs[t]
    BY <1>1, <2>1 DEF CallsOn, ItemCall
  <2>3. QED
    BY <1>0, <2>2, ConstantsAssumption DEF TypeOK
<1>2. CASE Load(t)
  <2>1. Same(t)
    BY <1>0, <1>2, ShownStatus DEF Load, Same, SameOutcomes
  <2>2. QED
    BY <2>1, AbstractStutter DEF OnlyTask
<1>3. CASE StartItem(t)
  <2>1. Ending(t, "start_item") /\ WriteItem(t, StartRow(row))
    BY <1>3 DEF StartItem
  <2>2. Outcome(StartRow(row)) = Outcome(row)
    BY <1>1, <2>1, RowOutcome
  <2>3. QED
    BY <1>0, <1>1, <2>1, <2>2, WriteItemMaps
<1>4. CASE SaveScore(t)
  <2>1. Ending(t, "save_score") /\ WriteItem(t, ScoreRow(row, txn[t].token))
    BY <1>4 DEF SaveScore
  <2>2. txn[t].token \in Attempt
    BY <1>0, <2>1, OpenTxn DEF Ending
  <2>3. Outcome(ScoreRow(row, txn[t].token)) = Outcome(row)
    BY <1>1, <2>1, <2>2, RowOutcome
  <2>4. QED
    BY <1>0, <1>1, <2>1, <2>3, WriteItemMaps
<1>5. CASE FinishItemReport(t)
  <2> DEFINE new == ReportRow(row, txn[t].call.from)
  <2>1. Ending(t, "finish_item_report") /\ WriteItem(t, new)
    BY <1>5 DEF FinishItemReport
  <2>2. txn[t].call.from \in Attempt
    BY <1>0, <2>1, OpenTxn, CallFields DEF Ending
  <2>3. \/ Outcome(new) = Outcome(row)
        \/ Outcome(row) = "open" /\ Outcome(new) \in TERMINAL_ITEMS
    BY <1>1, <2>1, <2>2, RowOutcome DEF TERMINAL_ITEMS
  <2>4. QED
    BY <1>0, <1>1, <2>1, <2>3, WriteItemMaps
<1>6. CASE FinishItemError(t)
  <2> DEFINE new == ErrorRow(row, "REPORTED")
  <2>1. Ending(t, "finish_item_error") /\ WriteItem(t, new)
    BY <1>6 DEF FinishItemError
  <2>2. \/ Outcome(new) = Outcome(row)
        \/ Outcome(row) = "open" /\ Outcome(new) \in TERMINAL_ITEMS
    BY <1>1, <2>1, RowOutcome DEF TERMINAL_ITEMS, Errors
  <2>3. QED
    BY <1>0, <1>1, <2>1, <2>2, WriteItemMaps
<1>7. CASE Finish(t)
  <2>1. Kind[t] = "diagnosis"
    BY <1>0, <1>7, CommitFenced, FittingCalls DEF Finish
  <2>2. \A i \in Jobs[t] : Settled(item[t][i]) /\ Explained(item[t][i])
    BY <1>7, ConstantsAssumption DEF Finish, RefinementInv, OutcomeInv, ItemsExplained
  <2>3. task'[t] = AggregateRow(t, item'[t], "none") /\ item' = item /\ made' = made
    BY <1>0, <1>7 DEF Finish, TypeOK
  <2>4. Summarised(t, task'[t], item'[t])
    BY <1>0, <2>1, <2>2, <2>3, AggregateRowSummarises DEF TypeOK
  <2>5. task'[t].status \in FINISHED
    BY <1>0, <2>3 DEF AggregateRow, Aggregate, FINISHED, TypeOK, TaskRow
  <2>6. \A i \in Jobs[t] : Outcome(item[t][i]) # "open"
    BY <2>2 DEF Outcome, Settled, TERMINAL_ITEMS
  <2>7. QED
    BY <1>0, <2>1, <2>3, <2>4, <2>5, <2>6, ShownStatus, AbstractComplete DEF OnlyTask, ACTIVE
<1>8. CASE CommitResult(t)
  <2>1. made'[t] = 1 /\ task'[t].status = "succeeded" /\ item' = item
    BY <1>0, <1>8 DEF CommitResult, TypeOK, TaskRow
  <2>2. Kind[t] # "diagnosis"
    BY <1>8 DEF CommitResult
  <2>3. SameOutcomes(t)
    BY <2>1 DEF SameOutcomes
  <2>4. QED
    BY <1>0, <2>1, <2>2, <2>3, ShownStatus, AbstractSucceed DEF OnlyTask
<1>9. CASE Fail(t)
  BY <1>0, <1>9, FailTaskMaps DEF Fail, Errors, ACTIVE
<1>10. QED
  BY <1>2, <1>3, <1>4, <1>5, <1>6, <1>7, <1>8, <1>9 DEF Commit

LEMMA NextMaps == RefinementInv /\ [Next]_vars => AbstractStep
<1> SUFFICES ASSUME RefinementInv, [Next]_vars PROVE AbstractStep
  OBVIOUS
<1>1. TypeOK /\ TypeOK' /\ OpenFence
  BY NextTypeOK DEF RefinementInv, OutcomeInv, SafetyInv
<1>2. ASSUME NEW t \in Task, OfTask(t) PROVE AbstractStep
  <2>1. session' = session /\ session[Owner[t]] # "gone"
    BY <1>2 DEF OfTask, Acted, CreateTask, Claim, Reap, LockCandidate, Active, Commit, Load,
       StartItem, SaveScore, FinishItemReport, FinishItemError, Finish, CommitResult, Fail,
       Ending, Live
  <2>2. OnlyTask(t)
    BY <1>1, <1>2, <2>1, CalmIsSame DEF OfTask, OnlyTask
  <2>3. QED
    BY <1>2, <2>2, SubmitMaps, ClaimMaps, ReapMaps, CommitMaps DEF OfTask, Acted
<1>3. ASSUME NEW s \in Session, OfSession(s) PROVE AbstractStep
  BY <1>1, <1>3, AbstractErase
<1>4. CASE OfNone
  BY <1>1, <1>4, CalmIsSame, AbstractStutter DEF OfNone
<1>5. QED
  BY <1>1, <1>2, <1>3, <1>4, NextKind DEF StepKind

LEMMA InitMaps == Init => Lifecycle!Init
<1> SUFFICES ASSUME Init PROVE Lifecycle!Init
  OBVIOUS
<1>1. \A t \in Task : session[Owner[t]] = "active" /\ task[t].status = "none"
  BY ConstantsAssumption DEF Init, NoTask
<1>2. \A t \in Task, i \in Item : ~Settled(item[t][i])
  BY DEF Init, NoItem, Settled, TERMINAL_ITEMS
<1>3. made = [t \in Task |-> 0]
  BY DEF Init
<1>4. QED
  BY <1>1, <1>2, <1>3 DEF Lifecycle!Init, Lifecycle!Open

(* The store implements the life cycle a client of the API sees: whatever  *)
(* workers, leases, retries, deadlines and deletions do, each step submits,*)
(* begins, settles, completes or erases as TaskLifecycle allows, or changes*)
(* nothing that a client sees.                                             *)
THEOREM StoreImplementsLifecycle == Spec => ImplementsLifecycle
<1>1. RefinementInv /\ [Next]_vars => [Lifecycle!Next]_(Lifecycle!vars)
  BY NextMaps DEF AbstractStep
<1>2. Spec => []RefinementInv
  BY ResultsInvHolds, OutcomesHold, PTL DEF RefinementInv
<1>3. QED
  BY <1>1, <1>2, InitMaps, PTL DEF Spec, ImplementsLifecycle, Lifecycle!Spec
=============================================================================
