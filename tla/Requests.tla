------------------------------ MODULE Requests ------------------------------
(***************************************************************************)
(* The first message of a conversation, from the intake page to the task:  *)
(* useAction, which keeps an idempotency key and the request body it goes  *)
(* with over retries; the submit() of IntakePage, which sends up to three  *)
(* requests for one click; a network that loses and delays; and the        *)
(* server's idempotency keys, versions and tasks.  Another tab may edit    *)
(* the profile at any time.                                                *)
(*                                                                         *)
(* An idempotency key is kept for 24 hours, a session lives 7 days: a retry *)
(* may come when its key has been forgotten.                               *)
(*                                                                         *)
(* Each handler of the server is one transaction under the lock of the     *)
(* session, so it is one step.  The look-up before it (replay) is repeated *)
(* inside it (_claim) and is left out.                                     *)
(***************************************************************************)
EXTENDS Naturals, FiniteSets

CONSTANTS
  Text,          \* what the user may write
  MaxKeys,       \* bound: operations, each with a key of its own
  MaxTries,      \* bound: requests on their way at one time
  MaxProfiles,   \* bound: profiles the server creates
  MaxTasks,      \* bound: tasks the server creates
  MaxVersion,    \* bound: edits of the other tab stop at this version
  MaxFaults      \* bound: requests lost, answers lost or late, keys run out

ASSUME RequestsAssumption ==
  /\ MaxKeys \in Nat /\ MaxTries \in Nat /\ MaxProfiles \in Nat /\ MaxTasks \in Nat
  /\ MaxVersion \in Nat /\ MaxFaults \in Nat

VARIABLES
  tab,       \* the intake page: the form, useAction's refs, ?task=, and the wait
  wire,      \* requests on their way to the server
  answers,   \* the answer on its way back to the waiting page
  profile,   \* latest_version of each profile, 0: not created
  tasks,     \* conversation tasks, with the key each was created under
  rows,      \* rows of idempotency_keys that are not 24 hours old
  faults

vars == <<tab, wire, answers, profile, tasks, rows, faults>>

Keys == 1..MaxKeys
Profiles == 1..MaxProfiles
TaskIds == 1..MaxTasks
Errors == {"NETWORK_ERROR", "VERSION_CONFLICT", "PROFILE_BUSY", "RATE_LIMITED",
           "IDEMPOTENCY_CONFLICT"}

(* The signature of an operation of the intake page is the form itself;    *)
(* key 0 stands for the empty key, base 0 for an operation without a       *)
(* frozen payload.                                                         *)
Operation == [sig : Text \cup {"none"}, key : 0..MaxKeys, profile : 0..MaxProfiles,
              base : Nat, text : Text \cup {"none"}]
NoOperation == [sig |-> "none", key |-> 0, profile |-> 0, base |-> 0, text |-> "none"]

Message == [kind : {"message"}, try : 1..MaxTries, key : Keys, profile : Profiles,
            base : Nat, text : Text]
Request == [kind : {"profile"}, try : 1..MaxTries, key : Keys]
             \cup [kind : {"read"}, try : 1..MaxTries, profile : Profiles] \cup Message

TaskRow == [id : TaskIds, key : Keys, profile : Profiles, base : Nat, text : Text,
            status : {"active", "succeeded", "failed"}]

(* A row names the profile or the task its key was used to create.         *)
KeyRow == [kind : {"profile"}, key : Keys, id : Profiles]
            \cup [kind : {"message"}, key : Keys, id : TaskIds]

(* text: the form; op: the refs of useAction, kept for retries; created and *)
(* task: what the page was answered; try and wait: the fetch under way.    *)
Tab == [text : Text, op : Operation, created : 0..MaxProfiles, keys : 0..MaxKeys,
        try : 0..MaxTries, task : 0..MaxTasks,
        wait : {"no", "profile", "read", "message"}, shown : Errors \cup {"none"},
        acked : SUBSET [text : Text, task : TaskIds]]

Init ==
  /\ tab \in [text : Text, op : {NoOperation}, created : {0}, keys : {0}, try : {0},
              task : {0}, wait : {"no"}, shown : {"none"}, acked : {{}}]
  /\ wire = {} /\ answers = {}
  /\ profile = [p \in Profiles |-> 0]
  /\ tasks = {} /\ rows = {}
  /\ faults = 0

(*-------------------------------- Browser -------------------------------*)

Unsent == UNCHANGED <<wire, answers>>
ServerUnchanged == UNCHANGED <<profile, tasks, rows>>

(* fetch: page t waits for the answer to this request and to no other.     *)
(* Tries are told apart while they are on the wire; any free number does.  *)
Send(t, request) ==
  /\ \A r \in wire : r.try # request.try
  /\ \A n \in 1..(request.try - 1) : \E r \in wire : r.try = n
  /\ wire' = wire \cup {request}
  /\ answers' = {}
  /\ tab' = [t EXCEPT !.try = request.try, !.wait = request.kind]

(* The request the operation of page t sends, as its try n: prepare        *)
(* creates the profile unless the page already has one, and reads its      *)
(* version; the payload it returns is frozen with the operation.           *)
NextRequest(t, n) ==
  IF t.op.base # 0 THEN
    [kind |-> "message", try |-> n, key |-> t.op.key,
     profile |-> t.op.profile, base |-> t.op.base, text |-> t.op.text]
  ELSE IF t.created = 0 THEN [kind |-> "profile", try |-> n, key |-> t.op.key]
  ELSE [kind |-> "read", try |-> n, profile |-> t.created]

NewOperation_KeepsPayload(t) == [t.op EXCEPT !.sig = t.text, !.key = t.keys + 1]
NewOperation(t) == [NoOperation EXCEPT !.sig = t.text, !.key = t.keys + 1]

(* The form is disabled while a request or a task is under way.            *)
Enabled == tab.wait = "no" /\ tab.task = 0

(* run: a new signature starts a new operation, the same one retries.      *)
Submit ==
  /\ Enabled
  /\ LET fresh == tab.op.sig # tab.text \/ tab.op.key = 0
         t == IF fresh THEN [tab EXCEPT !.op = NewOperation(tab), !.keys = @ + 1] ELSE tab
     IN  /\ t.keys <= MaxKeys
         /\ \E n \in 1..MaxTries : Send([t EXCEPT !.shown = "none"], NextRequest(t, n))
  /\ ServerUnchanged /\ UNCHANGED faults

EditForm(text) ==
  /\ Enabled /\ text # tab.text
  /\ tab' = [tab EXCEPT !.text = text]
  /\ Unsent /\ ServerUnchanged /\ UNCHANGED faults

Awaited(r) == tab.wait # "no" /\ r.try = tab.try

(* The answer continues prepare, or ends the operation.                    *)
Continue(a) ==
  /\ a \in answers /\ a.error = "none" /\ tab.wait # "message"
  /\ LET t == IF tab.wait = "profile" THEN [tab EXCEPT !.created = a.value]
              ELSE [tab EXCEPT !.op.profile = tab.created, !.op.base = a.value,
                               !.op.text = tab.op.sig]
     IN  \E n \in 1..MaxTries : Send(t, NextRequest(t, n))
  /\ ServerUnchanged /\ UNCHANGED faults

Accept(a) ==
  /\ a \in answers /\ a.error = "none" /\ tab.wait = "message"
  /\ tab' = [tab EXCEPT !.wait = "no", !.op = NoOperation, !.task = a.value,
                        !.acked = @ \cup {[text |-> tab.op.sig, task |-> a.value]}]
  /\ answers' = {} /\ UNCHANGED wire /\ ServerUnchanged /\ UNCHANGED faults

(* The catch clause keeps the operation for a retry.                       *)
Failed_DropsPayload(error) == [tab EXCEPT !.wait = "no", !.shown = error, !.op.base = 0]
Failed(error) == [tab EXCEPT !.wait = "no", !.shown = error]

Refuse(a) ==
  /\ a \in answers /\ a.error # "none"
  /\ tab' = Failed(a.error)
  /\ answers' = {} /\ UNCHANGED wire /\ ServerUnchanged /\ UNCHANGED faults

(* TaskProgress polls the task: a failed one can be dismissed, after a     *)
(* successful one the page is left, and may be opened anew.                *)
Ended(status) == \E t \in tasks : t.id = tab.task /\ t.status = status

Dismiss ==
  /\ Ended("failed")
  /\ tab' = [tab EXCEPT !.task = 0]
  /\ Unsent /\ ServerUnchanged /\ UNCHANGED faults

Leave ==
  /\ Ended("succeeded")
  /\ tab' = [tab EXCEPT !.task = 0, !.created = 0]
  /\ Unsent /\ ServerUnchanged /\ UNCHANGED faults

Fault == faults < MaxFaults /\ faults' = faults + 1

(* The timeout of the client, while nothing is lost and when something is. *)
(* A request given up may still reach the server, its answer reaches nobody*)
Pending == answers # {} \/ \E r \in wire : Awaited(r)
GiveUp ==
  /\ tab.wait # "no"
  /\ IF Pending THEN Fault ELSE UNCHANGED faults
  /\ tab' = Failed("NETWORK_ERROR")
  /\ answers' = {}
  /\ UNCHANGED wire /\ ServerUnchanged

LoseRequest(r) ==
  /\ r \in wire /\ Fault
  /\ wire' = wire \ {r}
  /\ UNCHANGED <<tab, answers>> /\ ServerUnchanged

LoseAnswer(a) ==
  /\ a \in answers /\ Fault
  /\ answers' = answers \ {a}
  /\ UNCHANGED <<tab, wire>> /\ ServerUnchanged

(*-------------------------------- Server --------------------------------*)

Answer(r, value, error) ==
  /\ wire' = wire \ {r}
  /\ answers' = IF Awaited(r) THEN {[value |-> value, error |-> error]} ELSE answers
  /\ UNCHANGED tab

(* _key and _claim: what the key of a request stands for, a row 24 hours   *)
(* old being deleted and forgotten.                                        *)
Replayed(r) == {row.id : row \in {x \in rows : x.kind = r.kind /\ x.key = r.key}}
Claimed_Never(r) == FALSE
Claimed_ChecksFirst(r) ==
  Replayed(r) # {} /\ (r.kind = "message" => profile[r.profile] = r.base)
Claimed(r) == Replayed(r) # {}
Claim(r, id) == rows' = rows \cup {[kind |-> r.kind, key |-> r.key, id |-> id]}

ReplayProfile(r) ==
  /\ r \in wire /\ r.kind = "profile" /\ Claimed(r)
  /\ \E p \in Replayed(r) : Answer(r, p, "none")
  /\ ServerUnchanged /\ UNCHANGED faults

(* new_id draws an id that nothing has.                                    *)
NewProfile == CHOOSE p \in Profiles : profile[p] = 0
CreateProfile(r) ==
  /\ r \in wire /\ r.kind = "profile" /\ ~Claimed(r)
  /\ \E p \in Profiles : profile[p] = 0
  /\ profile' = [profile EXCEPT ![NewProfile] = 1]
  /\ Claim(r, NewProfile)
  /\ Answer(r, NewProfile, "none")
  /\ UNCHANGED <<tasks, faults>>

ReadProfile(r) ==
  /\ r \in wire /\ r.kind = "read"
  /\ Answer(r, profile[r.profile], "none")
  /\ ServerUnchanged /\ UNCHANGED faults

(* The task of a key is the answer if the request is the same.             *)
SameBody(t, r) == t.profile = r.profile /\ t.base = r.base /\ t.text = r.text
ReplayMessage(r) ==
  /\ r \in wire /\ r.kind = "message" /\ Claimed(r)
  /\ \E t \in tasks :
       /\ t.id \in Replayed(r)
       /\ IF SameBody(t, r) THEN Answer(r, t.id, "none")
          ELSE Answer(r, 0, "IDEMPOTENCY_CONFLICT")
  /\ ServerUnchanged /\ UNCHANGED faults

Busy(p) == \E t \in tasks : t.profile = p /\ t.status = "active"

FreeIds == TaskIds \ {t.id : t \in tasks}
NewTask == CHOOSE id \in FreeIds : TRUE
CreateTask(r) ==
  /\ r \in wire /\ r.kind = "message" /\ ~Claimed(r)
  /\ profile[r.profile] = r.base /\ ~Busy(r.profile)
  /\ FreeIds # {}
  /\ tasks' = tasks \cup {[id |-> NewTask, key |-> r.key, profile |-> r.profile,
                           base |-> r.base, text |-> r.text, status |-> "active"]}
  /\ Claim(r, NewTask)
  /\ Answer(r, NewTask, "none")
  /\ UNCHANGED <<profile, faults>>

RejectMessage(r) ==
  /\ r \in wire /\ r.kind = "message" /\ ~Claimed(r)
  /\ \/ profile[r.profile] # r.base /\ Answer(r, 0, "VERSION_CONFLICT")
     \/ /\ profile[r.profile] = r.base /\ Busy(r.profile)
        /\ Answer(r, 0, "PROFILE_BUSY")
  /\ ServerUnchanged /\ UNCHANGED faults

(* The session wrote too often, or has two active tasks.                   *)
Limit(r) ==
  /\ r \in wire /\ r.kind # "read" /\ Fault
  /\ Answer(r, 0, "RATE_LIMITED")
  /\ ServerUnchanged

(* The worker: a result is committed on the version the task began with.   *)
EndTask(t) ==
  /\ t \in tasks /\ t.status = "active"
  /\ \/ /\ profile[t.profile] = t.base
        /\ profile' = [profile EXCEPT ![t.profile] = @ + 1]
        /\ tasks' = (tasks \ {t}) \cup {[t EXCEPT !.status = "succeeded"]}
     \/ /\ tasks' = (tasks \ {t}) \cup {[t EXCEPT !.status = "failed"]}
        /\ UNCHANGED profile
  /\ UNCHANGED <<tab, wire, answers, rows, faults>>

EditElsewhere(p) ==
  /\ profile[p] # 0 /\ profile[p] < MaxVersion
  /\ profile' = [profile EXCEPT ![p] = @ + 1]
  /\ UNCHANGED <<tab, wire, answers, tasks, rows, faults>>

(* A key gets 24 hours old, maybe while a retry with it is on its way.     *)
Expire(row) ==
  /\ row \in rows /\ Fault
  /\ rows' = rows \ {row}
  /\ UNCHANGED <<tab, wire, answers, profile, tasks>>

(*------------------------------ Specification ---------------------------*)

Page == Submit \/ GiveUp \/ \E a \in answers : Continue(a) \/ Accept(a) \/ Refuse(a)
Handle(r) ==
  \/ ReplayProfile(r) \/ CreateProfile(r) \/ ReadProfile(r)
  \/ ReplayMessage(r) \/ CreateTask(r) \/ RejectMessage(r)

Next ==
  \/ Page \/ Dismiss \/ Leave \/ \E text \in Text : EditForm(text)
  \/ \E r \in wire : Handle(r) \/ Limit(r) \/ LoseRequest(r)
  \/ \E a \in answers : LoseAnswer(a)
  \/ \E t \in tasks : EndTask(t)
  \/ \E p \in Profiles : EditElsewhere(p)
  \/ \E row \in rows : Expire(row)

Spec == Init /\ [][Next]_vars

(* Requests that are not lost are handled, tasks end, the page reacts, and *)
(* the user submits again whenever the page lets her.                      *)
FairSpec ==
  /\ Spec
  /\ WF_vars(Page)
  /\ WF_vars(\E r \in wire : Handle(r))
  /\ WF_vars(\E t \in tasks : EndTask(t))

(*-------------------------------- Properties ----------------------------*)

(* Every operation, request and task is well-formed.                       *)
TypeOK ==
  /\ tab \in Tab
  /\ wire \subseteq Request
  /\ answers \subseteq [value : Nat, error : Errors \cup {"none"}]
  /\ profile \in [Profiles -> Nat]
  /\ tasks \subseteq TaskRow /\ rows \subseteq KeyRow
  /\ faults \in 0..MaxFaults

(* However often an operation is retried, and whichever of its requests    *)
(* arrive late or twice, it creates one task while its key is kept; and a  *)
(* retry more than 24 hours later creates another only if the one before   *)
(* has failed: no message is ever taken in twice.                          *)
Remembered(t) == [kind |-> "message", key |-> t.key, id |-> t.id] \in rows
OneTaskPerOperation ==
  \A t, u \in tasks : t.key = u.key /\ t # u =>
    /\ t.status = "failed" \/ u.status = "failed"
    /\ ~(Remembered(t) /\ Remembered(u))

(* A retry never carries another body than the first try: the server never *)
(* answers that the key was used for a different request.                  *)
NoKeyConflict ==
  /\ tab.shown # "IDEMPOTENCY_CONFLICT"
  /\ \A a \in answers : a.error # "IDEMPOTENCY_CONFLICT"

(* What the page takes as accepted is a task about the very text that was  *)
(* submitted.                                                              *)
AcceptedIsSubmitted ==
  \A a \in tab.acked : \E t \in tasks : t.id = a.task /\ t.text = a.text

(* A user who retries a message whose answer was lost gets the task it has *)
(* created, however far that task and the profile have gone since, if her  *)
(* key is not 24 hours old by then.                                        *)
Kept(k) == \E t \in tasks : t.key = k /\ Remembered(t)
LostAnswerRecovered ==
  \A k \in Keys :
    tab.op.key = k /\ Kept(k) ~> tab.op.key # k \/ tab.text # tab.op.sig \/ ~Kept(k)

(* docs/team/api-01.md:115 answers a busy profile with a new submission    *)
(* once its task has ended: a user who goes on retrying gets through.      *)
BusyGetsThrough ==
  \A k \in Keys :
    tab.op.key = k /\ tab.shown = "PROFILE_BUSY"
      ~> tab.op.key # k \/ tab.text # tab.op.sig
=============================================================================
