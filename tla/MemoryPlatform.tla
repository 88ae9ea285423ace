--------------------------- MODULE MemoryPlatform ---------------------------
(***************************************************************************)
(* The single-process platform of platform/service.py over the in-memory   *)
(* repository: tasks are coroutines of one event loop, which interleave    *)
(* only where they await.  Between two awaits a coroutine is one step, and *)
(* so is every request.  What a coroutine knew before an await may be gone *)
(* after it: the session deleted or expired, the profile edited.           *)
(***************************************************************************)
EXTENDS Naturals, FiniteSets

CONSTANTS
  Session, Task, Item, Profile,
  Kind,          \* Kind[t]: what the task does
  Owner,         \* Owner[t]: the session that creates it
  Jobs,          \* Jobs[t]: the items of a diagnosis
  About,         \* About[t]: the profile a profile_chat continues
  Holder,        \* Holder[p]: the session a profile belongs to
  Nobody,        \* no task
  MAX_ACTIVE,    \* unfinished tasks a session may have
  MAX_ROUNDS,    \* messages of the user a session may hold
  MaxVersion     \* bound: manual edits stop at this profile version

ASSUME MemoryAssumption ==
  /\ Kind \in [Task -> {"profile_chat", "document_parse", "job_parse", "diagnosis"}]
  /\ Owner \in [Task -> Session] /\ Holder \in [Profile -> Session]
  /\ Jobs \in [Task -> SUBSET Item]
  /\ \A t \in Task : Jobs[t] # {} <=> Kind[t] = "diagnosis"
  /\ About \in [Task -> Profile] /\ Nobody \notin Task
  /\ \A t \in Task : Kind[t] = "profile_chat" => Holder[About[t]] = Owner[t]
  /\ MAX_ACTIVE \in Nat /\ MAX_ROUNDS \in Nat /\ MaxVersion \in Nat

VARIABLES
  session,    \* "live", "expired" (past expires_at, not noticed yet) or "gone"
  status,     \* of each task, "none" where the repository has no such task
  item,       \* items of each diagnosis
  made,       \* resource versions a task has stored
  latest,     \* latest version of each profile
  rounds,     \* user_rounds of each session
  busy,       \* profile_tasks: the task that holds a profile, or Nobody
  co          \* the coroutine of each task: where it awaits, with what

vars == <<session, status, item, made, latest, rounds, busy, co>>

ACTIVE == {"queued", "running"}
Open == {"pending", "scoring", "reporting"}

(* at: "scheduled" before its first step, then the await it is suspended   *)
(* in; "cancelled" once its session cancelled it; "lost" when that was     *)
(* before its first step, which then never runs, nor does its finally.     *)
NoCo == [at |-> "none", base |-> 0, todo |-> {}, on |-> {}]
Awaits == {"before", "intake", "scoring", "reporting"}
NoItem == [status |-> "none", scored |-> FALSE]

Init ==
  /\ session = [s \in Session |-> "live"]
  /\ status = [t \in Task |-> "none"]
  /\ item = [t \in Task |-> [i \in Item |-> NoItem]]
  /\ made = [t \in Task |-> 0]
  /\ latest = [p \in Profile |-> 1]
  /\ rounds = [s \in Session |-> 0]
  /\ busy = [p \in Profile |-> Nobody]
  /\ co = [t \in Task |-> NoCo]

(*------------------------------ Repository ------------------------------*)

(* Definitions named X_How state a plausible mistake in X; nothing uses    *)
(* them but the experiments that show which property each mistake breaks.  *)

(* repo.revoke: every table loses the rows of the session.                 *)
Erase(s) ==
  /\ session' = [session EXCEPT ![s] = "gone"]
  /\ status' = [t \in Task |-> IF Owner[t] = s THEN "none" ELSE status[t]]
  /\ item' = [t \in Task |-> IF Owner[t] = s THEN [i \in Item |-> NoItem] ELSE item[t]]
  /\ made' = [t \in Task |-> IF Owner[t] = s THEN 0 ELSE made[t]]
  /\ latest' = [p \in Profile |-> IF Holder[p] = s THEN 0 ELSE latest[p]]
  /\ rounds' = [rounds EXCEPT ![s] = 0]

(* repo.active: a session past its time is erased by whoever asks first.   *)
StillActive_Unchecked(t) == TRUE
StillActive(t) == session[Owner[t]] = "live"

Pending(s) == {t \in Task : Owner[t] = s /\ status[t] \in ACTIVE}
Chats(s) == {t \in Pending(s) : Kind[t] = "profile_chat"}

(*------------------------------- Coroutines -----------------------------*)

Await(t, at) == co' = [co EXCEPT ![t].at = at]

(* The finally clause of _run.                                             *)
Freed_Keeps(t) == busy
Freed(t) == [p \in Profile |-> IF busy[p] = t THEN Nobody ELSE busy[p]]
Ends(t) == co' = [co EXCEPT ![t] = [NoCo EXCEPT !.at = "done"]] /\ busy' = Freed(t)

(* The session was deleted, or is found to be expired, and active() raises:*)
(* there is nothing left to write the failure to.                          *)
Gone(t) ==
  /\ co[t].at \in Awaits \cup {"scheduled"}
  /\ session[Owner[t]] # "live"
  /\ Ends(t)
  /\ \/ session[Owner[t]] = "expired" /\ Erase(Owner[t])
     \/ session[Owner[t]] = "gone" /\ UNCHANGED <<session, status, item, made, latest, rounds>>

Start(t) ==
  /\ co[t].at = "scheduled" /\ session[Owner[t]] = "live"
  /\ status' = [status EXCEPT ![t] = "running"]
  /\ Await(t, "before")
  /\ UNCHANGED <<session, item, made, latest, rounds, busy>>

(* The head of the loop over the jobs of a diagnosis: the next item, or    *)
(* the summary of all of them.                                             *)
Summary(t, rows) ==
  IF \A i \in Jobs[t] : rows[i].status = "succeeded" THEN "succeeded"
  ELSE IF \E i \in Jobs[t] : rows[i].scored THEN "partial"
  ELSE "failed"

NextItem(t, rows) ==
  \/ /\ co[t].todo = {}
     /\ item' = [item EXCEPT ![t] = rows]
     /\ status' = [status EXCEPT ![t] = Summary(t, rows)]
     /\ Ends(t)
     /\ UNCHANGED <<session, made, latest, rounds>>
  \/ \E i \in co[t].todo :
     /\ item' = [item EXCEPT ![t] = [rows EXCEPT ![i].status = "scoring"]]
     /\ co' = [co EXCEPT ![t] = [at |-> "scoring", base |-> co[t].base,
                                 todo |-> co[t].todo \ {i}, on |-> {i}]]
     /\ UNCHANGED <<session, status, made, latest, rounds, busy>>

(* executor.before returns and the model is still offered.                 *)
Proceed(t) ==
  /\ co[t].at = "before" /\ session[Owner[t]] = "live"
  /\ \/ Kind[t] = "diagnosis" /\ NextItem(t, item[t])
     \/ /\ Kind[t] # "diagnosis" /\ Await(t, "intake")
        /\ UNCHANGED <<session, status, item, made, latest, rounds, busy>>

(* The intake answered with something valid: it is stored and the task     *)
(* succeeds in the same step.                                              *)
Stores(t) ==
  /\ co[t].at = "intake" /\ StillActive(t)
  /\ Kind[t] = "profile_chat" => latest[About[t]] = co[t].base
  /\ latest' = IF Kind[t] = "profile_chat" THEN [latest EXCEPT ![About[t]] = @ + 1] ELSE latest
  /\ rounds' = IF Kind[t] = "profile_chat" THEN [rounds EXCEPT ![Owner[t]] = @ + 1] ELSE rounds
  /\ made' = [made EXCEPT ![t] = @ + 1]
  /\ status' = [status EXCEPT ![t] = "succeeded"]
  /\ Ends(t)
  /\ UNCHANGED <<session, item>>

(* The current item of a diagnosis with a new status.                      *)
Current(t, outcome, scored) ==
  [i \in Item |-> IF i \in co[t].on THEN [status |-> outcome, scored |-> scored] ELSE item[t][i]]

Scored(t) ==
  /\ co[t].at = "scoring" /\ session[Owner[t]] = "live"
  /\ item' = [item EXCEPT ![t] = Current(t, "reporting", TRUE)]
  /\ Await(t, "reporting")
  /\ UNCHANGED <<session, status, made, latest, rounds, busy>>

Reported(t) ==
  /\ co[t].at = "reporting" /\ session[Owner[t]] = "live"
  /\ NextItem(t, Current(t, "succeeded", TRUE))

(* Scoring or reporting raises: the item fails and the loop goes on.       *)
ItemFails(t) ==
  /\ session[Owner[t]] = "live"
  /\ \/ co[t].at = "scoring" /\ NextItem(t, Current(t, "failed", FALSE))
     \/ co[t].at = "reporting" /\ NextItem(t, Current(t, "score_only", TRUE))

(* The exception handler of _run while the task still exists.              *)
GivenUp_NotPending(row) ==
  IF row.status \in {"scoring", "reporting"}
  THEN [row EXCEPT !.status = IF row.scored THEN "score_only" ELSE "failed"] ELSE row
GivenUp(row) ==
  IF row.status \in Open
  THEN [row EXCEPT !.status = IF row.scored THEN "score_only" ELSE "failed"] ELSE row

Raise(t) ==
  LET rows == [i \in Item |-> GivenUp(item[t][i])]
  IN  /\ item' = [item EXCEPT ![t] = rows]
      /\ status' = [status EXCEPT ![t] =
           IF \E i \in Jobs[t] : rows[i].scored THEN "partial" ELSE "failed"]
      /\ Ends(t)
      /\ UNCHANGED <<session, made, latest, rounds>>

(* The model is withdrawn, the intake fails, its answer is invalid, or the *)
(* profile was edited meanwhile.                                           *)
WorkFails(t) ==
  /\ co[t].at \in {"before", "intake"} /\ session[Owner[t]] = "live"
  /\ Raise(t)

(* wait_for cancels the work wherever it awaits.                           *)
Timed_ModelOnly == Awaits \ {"before"}
Timed == Awaits
Timeout(t) ==
  /\ co[t].at \in Timed /\ session[Owner[t]] # "gone"
  /\ Raise(t)

(* CancelledError is delivered.                                            *)
Cancelled(t) ==
  /\ co[t].at = "cancelled" /\ Ends(t)
  /\ UNCHANGED <<session, status, item, made, latest, rounds>>

(*-------------------------------- Requests ------------------------------*)

(* chat, job_create, document and diagnosis_create, down to enqueue.       *)
Create(t) ==
  LET chat == Kind[t] = "profile_chat"
  IN  /\ session[Owner[t]] = "live" /\ co[t].at = "none"
      /\ chat => Cardinality(Chats(Owner[t])) + rounds[Owner[t]] < MAX_ROUNDS
      /\ Cardinality(Pending(Owner[t])) < MAX_ACTIVE
      /\ chat => busy[About[t]] = Nobody
      /\ busy' = IF chat THEN [busy EXCEPT ![About[t]] = t] ELSE busy
      /\ status' = [status EXCEPT ![t] = "queued"]
      /\ item' = [item EXCEPT ![t] = [i \in Item |-> IF i \in Jobs[t]
                                        THEN [NoItem EXCEPT !.status = "pending"] ELSE NoItem]]
      /\ co' = [co EXCEPT ![t] = [at |-> "scheduled", base |-> latest[About[t]],
                                  todo |-> Jobs[t], on |-> {}]]
      /\ UNCHANGED <<session, made, latest, rounds>>

(* profile_update, by hand.                                                *)
Edit(p) ==
  /\ session[Holder[p]] = "live" /\ latest[p] < MaxVersion
  /\ latest' = [latest EXCEPT ![p] = @ + 1]
  /\ UNCHANGED <<session, status, item, made, rounds, busy, co>>

(* Platform.revoke, for a user or for prune, which finds expired sessions: *)
(* first the rows go, then the coroutines are cancelled.                   *)
Revoke(s) ==
  /\ session[s] # "gone" /\ Erase(s)
  /\ co' = [t \in Task |->
       IF Owner[t] = s /\ co[t].at \in Awaits THEN [NoCo EXCEPT !.at = "cancelled"]
       ELSE IF Owner[t] = s /\ co[t].at = "scheduled" THEN [NoCo EXCEPT !.at = "lost"]
       ELSE co[t]]
  /\ UNCHANGED busy

(* Any request of an expired session: its rows go, its coroutines run on.  *)
Notice(s) ==
  /\ session[s] = "expired" /\ Erase(s)
  /\ UNCHANGED <<busy, co>>

Expire(s) ==
  /\ session[s] = "live"
  /\ session' = [session EXCEPT ![s] = "expired"]
  /\ UNCHANGED <<status, item, made, latest, rounds, busy, co>>

(*------------------------------ Specification ---------------------------*)

Step(t) ==
  \/ Start(t) \/ Proceed(t) \/ Gone(t)
  \/ Stores(t) \/ Scored(t) \/ Reported(t) \/ ItemFails(t) \/ WorkFails(t)
  \/ Timeout(t) \/ Cancelled(t)

Next ==
  \/ \E t \in Task : Create(t) \/ Step(t)
  \/ \E p \in Profile : Edit(p)
  \/ \E s \in Session : Revoke(s) \/ Notice(s) \/ Expire(s)

(* The event loop runs what is ready; what awaits may never become ready,  *)
(* but its timer fires.                                                    *)
Fairness ==
  \A t \in Task :
    WF_vars(Start(t)) /\ WF_vars(Timeout(t)) /\ WF_vars(Gone(t)) /\ WF_vars(Cancelled(t))

Spec == Init /\ [][Next]_vars /\ Fairness

(*-------------------------------- Properties ----------------------------*)

Talking(p) == {t \in Task : Kind[t] = "profile_chat" /\ About[t] = p /\ status[t] \in ACTIVE}

(* A profile of a live session is reserved by exactly the conversation     *)
(* that is under way on it: two never run at once, and none that ended,    *)
(* however it ended, leaves the profile locked.                            *)
ProfileReserved ==
  \A p \in Profile : session[Holder[p]] # "gone" =>
    Talking(p) = {busy[p]} \ {Nobody}

(* No coroutine that outlives its session puts anything of it back.        *)
NothingReappears ==
  \A t \in Task : session[Owner[t]] = "gone" =>
    /\ status[t] = "none" /\ made[t] = 0 /\ \A i \in Item : item[t][i] = NoItem
    /\ \A p \in Profile : Holder[p] = Owner[t] => latest[p] = 0

(* Every task ends, or is deleted with its session: also one whose model   *)
(* never answers.                                                          *)
EveryTaskEnds ==
  \A t \in Task : (status[t] \in ACTIVE) ~> (status[t] \notin ACTIVE)

(* The platform without a database keeps the promises of TaskLifecycle     *)
(* that the job store keeps: outcomes settle once, the status summarises   *)
(* them, one result per task, nothing after the session.                   *)
Lifecycle == INSTANCE TaskLifecycle WITH
  Diagnosis <- {t \in Task : Kind[t] = "diagnosis"},
  Selected <- Jobs,
  phase <- [t \in Task |-> IF session[Owner[t]] = "gone" THEN "erased" ELSE status[t]],
  outcome <- [t \in Task |-> [i \in Item |->
                IF item[t][i].status \in Open \cup {"none"} THEN "open" ELSE item[t][i].status]],
  results <- made

ImplementsLifecycle == Lifecycle!Spec
=============================================================================
