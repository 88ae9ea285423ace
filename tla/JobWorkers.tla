----------------------------- MODULE JobWorkers -----------------------------
(***************************************************************************)
(* The worker processes of jobs/worker.py and jobs/__main__.py at work on  *)
(* a JobStore.  A worker polls, claims a task, and runs two coroutines for *)
(* it: the work and the heartbeat.  Every database call runs in a thread   *)
(* (asyncio.to_thread), which cancelling the coroutine does not stop: the  *)
(* call is orphaned and may still open, and commit, its transaction when   *)
(* the worker has long gone on to something else, or the process is gone.  *)
(***************************************************************************)
EXTENDS JobStore

CONSTANTS Worker,
          Nobody,       \* the runner of a transaction no coroutine awaits
          MaxFaults,    \* bound: crashes, shutdowns and database errors
          MaxRows       \* bound: tasks that are ever created

(* A worker between two tasks still has some task and item in its row.     *)
ASSUME WorkersAssumption ==
  /\ Nobody \notin Worker /\ Task # {} /\ Item # {}
  /\ MaxFaults \in Nat /\ MaxRows \in Nat

VARIABLES
  worker,     \* local state of each worker
  runner,     \* the worker that awaits the open transaction of a task
  orphans,    \* calls of cancelled coroutines, still to reach the database
  faults

workerVars == <<worker, runner, orphans, faults>>
allVars == <<vars, workerVars>>

(* Where a worker is: between tasks ("idle"), leaving one ("leave"), in    *)
(* the loops of reap() and claim() ("reap", "claim"), waiting for a        *)
(* database call ("call"), or for the model ("model").                     *)
WorkerRow == [pc : {"idle", "leave", "reap", "claim", "call", "model"},
              then : {"idle", "claim"},         \* what follows the reap loop
              scan : SUBSET Task,               \* candidates left in the loop
              task : Task, token : 0..MAX_ATTEMPTS, call : Calls,
              todo : SUBSET Item,               \* items of the loaded snapshot
              loaded : [Item -> 0..MAX_ATTEMPTS],  \* and their scores
              item : Item,
              score : 0..MAX_ATTEMPTS]          \* score at hand, by its claim

Call(op) == [op |-> op]
ItemOp(op, i) == [op |-> op, item |-> i]

Resting == [pc |-> "idle", then |-> "idle", scan |-> {},
            task |-> CHOOSE t \in Task : TRUE, token |-> 0, call |-> Call("load"),
            todo |-> {}, loaded |-> [i \in Item |-> 0],
            item |-> CHOOSE i \in Item : TRUE, score |-> 0]

WorkersInit ==
  /\ Init
  /\ worker = [w \in Worker |-> Resting]
  /\ runner = [t \in Task |-> Nobody]
  /\ orphans = {}
  /\ faults = 0

(*------------------ The coroutine of _perform, as data ------------------*)

Issue(row, call) == [row EXCEPT !.pc = "call", !.call = call]
Leave == [Resting EXCEPT !.pc = "leave"]

(* The head of the loop over the items: a settled item was left out, one   *)
(* with a persisted score goes straight to its report.                     *)
NextItem_Rescores(row) ==
  IF row.todo = {} THEN {Issue(row, Call("finish"))}
  ELSE {Issue([row EXCEPT !.item = i, !.todo = @ \ {i}], ItemOp("start_item", i)) : i \in row.todo}
NextItem_NoFinish(row) ==
  IF row.todo = {} THEN {Leave}
  ELSE {Issue([row EXCEPT !.item = i, !.todo = @ \ {i}], ItemOp("start_item", i)) : i \in row.todo}
NextItem(row) ==
  IF row.todo = {} THEN {Issue(row, Call("finish"))}
  ELSE {LET at == [row EXCEPT !.item = i, !.todo = @ \ {i}]
        IN  IF row.loaded[i] = 0 THEN Issue(at, ItemOp("start_item", i))
            ELSE [at EXCEPT !.pc = "model", !.score = row.loaded[i]] : i \in row.todo}

Unsettled(t) == {i \in Jobs[t] : ~Settled(item[t][i])}

(* What the coroutine may do next when its call returned.                  *)
Returned(row) ==
  LET t == row.task
  IN  CASE row.call.op = "load" /\ Kind[t] = "diagnosis" ->
             NextItem([row EXCEPT !.todo = Unsettled(t),
                                  !.loaded = [i \in Item |-> item[t][i].score]])
        [] row.call.op = "load" /\ Kind[t] # "diagnosis" -> {[row EXCEPT !.pc = "model"]}
        [] row.call.op = "start_item" ->     \* _score may fail
             {Issue(row, ItemOp(op, row.item)) : op \in {"save_score", "finish_item_error"}}
        [] row.call.op = "save_score" -> {[row EXCEPT !.pc = "model", !.score = row.token]}
        [] row.call.op \in {"finish_item_report", "finish_item_error"} -> NextItem(row)
        [] OTHER -> {Leave}

(* What it does when the call raised anything but LeaseLost: the loop body *)
(* turns it into the item's error, execute into the task's failure.        *)
Raised_SkipsItem(row) ==
  IF row.call.op \in {"start_item", "save_score", "finish_item_report", "finish_item_error"}
  THEN CHOOSE next \in NextItem(row) : TRUE
  ELSE IF row.call.op = "fail" THEN Leave ELSE Issue(row, Call("fail"))
Raised(row) ==
  CASE row.call.op \in {"start_item", "save_score", "finish_item_report"} ->
         Issue(row, ItemOp("finish_item_error", row.item))
    [] row.call.op = "fail" -> Leave
    [] OTHER -> Issue(row, Call("fail"))

(* The model answered, or did not, or its answer was refused.              *)
Answered(row) ==
  IF Kind[row.task] = "diagnosis"
  THEN {Issue(row, [op |-> "finish_item_report", item |-> row.item, from |-> row.score]),
        Issue(row, ItemOp("finish_item_error", row.item))}
  ELSE {Issue(row, Call("commit_result")), Issue(row, Call("fail"))}

(*--------------------------- Polling for work ---------------------------*)

Become(w, row) == worker' = [worker EXCEPT ![w] = row]
Only(w, row) == Become(w, row) /\ UNCHANGED <<vars, runner, orphans, faults>>
Candidates == {t \in Task : Candidate(t)}

(* reap() reads its candidates; claim() begins with a reap() of its own.   *)
Poll(w) ==
  /\ worker[w].pc \in {"idle", "leave"}
  /\ Only(w, [Resting EXCEPT !.pc = "reap", !.scan = Candidates,
                             !.then = IF worker[w].pc = "idle" THEN "claim" ELSE "idle"])

(* The loops go through their snapshot in the order of creation.           *)
First(S) == {t \in S : \A u \in S : task[t].deadline_at <= task[u].deadline_at}
Drop(w, t) == [worker[w] EXCEPT !.scan = @ \ {t}]

ReapNext(w) ==
  /\ worker[w].pc = "reap"
  /\ \E t \in First(worker[w].scan) :
       /\ Become(w, Drop(w, t))
       /\ IF LockCandidate(t) /\ TerminalReason(t) # "none" THEN Reap(t) ELSE UNCHANGED vars
  /\ UNCHANGED <<runner, orphans, faults>>

ReapDone(w) ==
  /\ worker[w].pc = "reap" /\ worker[w].scan = {}
  /\ Only(w, IF worker[w].then = "idle" THEN Resting
             ELSE [Resting EXCEPT !.pc = "claim", !.scan = Candidates])

(* The coroutine starts on the new lease: it loads the snapshot, unless    *)
(* the model frozen in the task is not offered any more.                   *)
Started(t) ==
  {Issue([Resting EXCEPT !.task = t, !.token = task[t].attempt + 1], Call(op)) :
     op \in {"load", "fail"}}

ClaimNext(w) ==
  /\ worker[w].pc = "claim"
  /\ \E t \in First(worker[w].scan) :
       \/ LockCandidate(t) /\ TerminalReason(t) = "none"
          /\ Claim(t) /\ \E row \in Started(t) : Become(w, row)
       \/ LockCandidate(t) /\ TerminalReason(t) # "none"
          /\ Reap(t) /\ Become(w, Drop(w, t))
       \/ ~LockCandidate(t) /\ UNCHANGED vars /\ Become(w, Drop(w, t))
  /\ UNCHANGED <<runner, orphans, faults>>

NothingToClaim(w) ==
  /\ worker[w].pc = "claim" /\ worker[w].scan = {}
  /\ Only(w, Resting)

(*--------------------------- The work of a task -------------------------*)

Executing(w) == worker[w].pc \in {"call", "model"}
Awaits(w) == worker[w].pc = "call" /\ runner[worker[w].task] = w
Closed(w) == runner' = [runner EXCEPT ![worker[w].task] = Nobody]

(* The thread of the call gets the row locks and passes the fence.         *)
OpenCall(w) ==
  /\ worker[w].pc = "call"
  /\ Begin(worker[w].task, worker[w].token, worker[w].call)
  /\ runner' = [runner EXCEPT ![worker[w].task] = w]
  /\ UNCHANGED <<worker, orphans, faults>>

(* It gets the locks and the fence raises LeaseLost.                       *)
FenceLost(w) ==
  /\ worker[w].pc = "call"
  /\ txn[worker[w].task] = NoTxn /\ ~Fenced(worker[w].task, worker[w].token)
  /\ Only(w, Leave)

CallReturns(w) ==
  /\ Awaits(w)
  /\ Commit(worker[w].task)
  /\ \E row \in Returned(worker[w]) : Become(w, row)
  /\ Closed(w) /\ UNCHANGED <<orphans, faults>>

(* The second check of the lease fails.                                    *)
CallLost(w) ==
  /\ Awaits(w)
  /\ ~Live(worker[w].task)
  /\ Rollback(worker[w].task)
  /\ Become(w, Leave)
  /\ Closed(w) /\ UNCHANGED <<orphans, faults>>

(* The body raises: what it read does not admit the write.                 *)
Missing(t) == txn[t].call.op = "load" /\ Kind[t] = "document_parse" /\ ~doc[t].stored
Unfinished(t) == txn[t].call.op = "finish" /\ Unsettled(t) # {}
Unscored(t) ==
  /\ txn[t].call.op = "finish_item_report"
  /\ ~Settled(item[t][txn[t].call.item]) /\ item[t][txn[t].call.item].score = 0
Conflict(t) ==
  /\ txn[t].call.op = "commit_result" /\ Kind[t] = "profile_chat"
  /\ latest[About[t]] # task[t].base_version

CallRefused(w) ==
  LET t == worker[w].task
  IN  /\ Awaits(w)
      /\ Missing(t) \/ Unfinished(t) \/ Unscored(t) \/ Conflict(t)
      /\ Rollback(t)
      /\ Become(w, Raised(worker[w]))
      /\ Closed(w) /\ UNCHANGED <<orphans, faults>>

ModelAnswers(w) ==
  /\ worker[w].pc = "model"
  /\ \E row \in Answered(worker[w]) : Only(w, row)

(*------------------------- Heartbeat and deadline -----------------------*)

(* The heartbeat runs beside the work, not beside the final fail().        *)
Beating(w) == Executing(w) /\ worker[w].call.op # "fail"

HeartbeatOk_Unfenced(w) ==
  /\ Beating(w)
  /\ task' = [task EXCEPT ![worker[w].task].lease_until = LeaseEnd(task[worker[w].task].deadline_at)]
  /\ UNCHANGED <<now, session, item, doc, latest, made, txn, workerVars>>
HeartbeatOk(w) ==
  /\ Beating(w)
  /\ Heartbeat(worker[w].task, worker[w].token)
  /\ UNCHANGED workerVars

(* Cancelling the work leaves its call to its thread.                      *)
Orphan(w) == [task |-> worker[w].task, token |-> worker[w].token, call |-> worker[w].call]
Abandon(w) ==
  /\ orphans' = IF worker[w].pc = "call" /\ ~Awaits(w) THEN orphans \cup {Orphan(w)} ELSE orphans
  /\ runner' = [t \in Task |-> IF runner[t] = w THEN Nobody ELSE runner[t]]
  /\ UNCHANGED vars

HeartbeatLost(w) ==
  /\ Beating(w)
  /\ txn[worker[w].task] = NoTxn /\ ~Fenced(worker[w].task, worker[w].token)
  /\ Abandon(w) /\ Become(w, Leave)
  /\ UNCHANGED faults

(* asyncio.wait times out, or the heartbeat raises TimeoutError: the work  *)
(* is cancelled before the failure is written.                             *)
Timeout(w) ==
  /\ Beating(w)
  /\ task[worker[w].task].deadline_at <= now
  /\ Abandon(w) /\ Become(w, Issue(worker[w], Call("fail")))
  /\ UNCHANGED faults

(*-------------------------------- Faults --------------------------------*)

Fault == faults < MaxFaults /\ faults' = faults + 1

(* The database rejects the call, or loses the connection before or after  *)
(* it committed.                                                           *)
CallBreaks(w) ==
  /\ Fault /\ Awaits(w)
  /\ Rollback(worker[w].task) \/ Commit(worker[w].task)
  /\ Become(w, Raised(worker[w]))
  /\ Closed(w) /\ UNCHANGED orphans

HeartbeatBreaks(w) ==
  /\ Fault /\ Beating(w)
  /\ Abandon(w) /\ Become(w, Issue(worker[w], Call("fail")))

(* SIGTERM cancels run_once: the lease is left for recovery, the threads   *)
(* of the executor are joined, and the process is started again.           *)
Shutdown(w) ==
  /\ Fault /\ Executing(w)
  /\ Abandon(w) /\ Become(w, Leave)

(* A killed process takes its threads along; what it sent last may still   *)
(* be applied.                                                             *)
Crash(w) ==
  /\ Fault /\ worker[w] # Resting
  /\ runner' = [t \in Task |-> IF runner[t] = w THEN Nobody ELSE runner[t]]
  /\ Become(w, Resting)
  /\ UNCHANGED <<vars, orphans>>

OrphanOpens(o) ==
  /\ Begin(o.task, o.token, o.call)
  /\ orphans' = orphans \ {o}
  /\ UNCHANGED <<worker, runner, faults>>

OrphanDies(o) ==
  /\ orphans' = orphans \ {o}
  /\ UNCHANGED <<vars, worker, runner, faults>>

UnawaitedEnds(t) ==
  /\ txn[t] # NoTxn /\ runner[t] = Nobody
  /\ Commit(t) \/ Rollback(t)
  /\ UNCHANGED workerVars

(*------------------------------ Specification ---------------------------*)

Existing == {t \in Task : task[t].status # "none"}

(* Everything that happens to the rows without a worker.                   *)
Environment ==
  /\ \/ \E t \in Task : CreateTask(t) /\ Cardinality(Existing) < MaxRows
     \/ \E t \in Task : RemoveFile(t)
     \/ \E p \in Profile : EditProfile(p)
     \/ \E s \in Session : Expire(s) \/ Revoke(s)
     \/ Tick
  /\ UNCHANGED workerVars

Polls(w) == Poll(w) \/ ReapNext(w) \/ ReapDone(w) \/ ClaimNext(w) \/ NothingToClaim(w)
Works(w) == OpenCall(w) \/ FenceLost(w) \/ CallReturns(w) \/ CallLost(w) \/ CallRefused(w)

WorkersNext ==
  \/ \E w \in Worker :
       \/ Polls(w) \/ Works(w) \/ ModelAnswers(w)
       \/ HeartbeatOk(w) \/ HeartbeatLost(w) \/ Timeout(w)
       \/ CallBreaks(w) \/ HeartbeatBreaks(w) \/ Shutdown(w) \/ Crash(w)
  \/ \E o \in orphans : OrphanOpens(o) \/ OrphanDies(o)
  \/ \E t \in Task : UnawaitedEnds(t)
  \/ Environment

WorkersSpec == WorkersInit /\ [][WorkersNext]_allVars

(* Polling loops and database calls go on, timers fire, the clock runs.    *)
(* The model may never answer, and nobody else is assumed fair.            *)
WorkersFairness ==
  /\ \A w \in Worker : WF_allVars(Polls(w) \/ Works(w)) /\ WF_allVars(Timeout(w))
  /\ \A t \in Task : WF_allVars(UnawaitedEnds(t))
  /\ WF_allVars(Tick /\ UNCHANGED workerVars)
  /\ \A s \in Session : WF_allVars(CleanupExpired(s) /\ UNCHANGED workerVars)

WorkersFairSpec == WorkersSpec /\ WorkersFairness

(*-------------------------------- Properties ----------------------------*)

(* Workers hold the local state their coroutines can hold.                 *)
WorkersTypeOK ==
  /\ worker \in [Worker -> WorkerRow]
  /\ runner \in [Task -> Worker \cup {Nobody}]
  /\ orphans \subseteq [task : Task, token : Attempt, call : Calls]
  /\ faults \in 0..MaxFaults

(* The workers are clients of the store: every step of theirs is one the   *)
(* store admits, so that whatever holds of the store holds here.           *)
WorkersUseStore == Spec

(* The report that is published with an item was written from the very     *)
(* score that is published with it, also when one claim scored the item    *)
(* and a later one reported it.                                            *)
ReportRestsOnScore ==
  \A t \in Task : \A i \in Item :
    item[t][i].status = "succeeded" => item[t][i].report = item[t][i].score

(* The store's two guards against a disordered worker, finishing a task    *)
(* with open items and reporting on an unsaved score, are never needed,    *)
(* whatever was retried, cancelled or lost before.                         *)
GuardsUnneeded ==
  \A t \in Task : txn[t] # NoTxn => ~Unfinished(t) /\ ~Unscored(t)

(* As long as nothing broke, a running task with a running lease has a     *)
(* worker at work on it: no path through a coroutine walks away from it.   *)
NoAbandonedLease ==
  \A t \in Task : faults = 0 /\ task[t].status = "running" /\ Live(t) =>
    \E w \in Worker :
      Executing(w) /\ worker[w].task = t /\ worker[w].token = task[t].token
=============================================================================
