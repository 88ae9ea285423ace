---------------------------- MODULE RequestsProofs ----------------------------
(***************************************************************************)
(* Proofs about Requests: a key stands for one request body from the click *)
(* that drew it to the tasks it created, so a retry is never refused as    *)
(* another request, is answered by a task about the text that was          *)
(* submitted, and creates a second task only when its key has run out and  *)
(* the first task has failed.                                              *)
(***************************************************************************)
EXTENDS Requests, TLAPS

(*---------------------------- The invariant -----------------------------*)

(* What a message, a task or a frozen operation says.                      *)
Body(m) == [key |-> m.key, profile |-> m.profile, base |-> m.base, text |-> m.text]

Sent == {Body(m) : m \in {r \in wire : r.kind = "message"} \cup tasks}

(* An operation is frozen with the text it was started for.                *)
OperationOK(t) ==
  /\ t.op.key <= t.keys
  /\ t.op.key # 0 => t.op.sig \in Text
  /\ t.op.base # 0 => t.op.key # 0 /\ t.op.profile # 0 /\ t.op.text = t.op.sig

(* The page waits for the next step of its operation, and the request it   *)
(* waits for is that step.                                                 *)
WaitOK ==
  /\ tab.wait # "no" => tab.op.key # 0 /\ tab.task = 0
  /\ tab.wait \in {"profile", "read"} => tab.op.base = 0
  /\ tab.wait = "read" => tab.created # 0
  /\ tab.wait = "message" => tab.op.base # 0
  /\ \A r \in wire : Awaited(r) =>
       r.kind = tab.wait /\ (r.kind = "message" => r.key = tab.op.key)

(* An answer on its way back is to the request that is waited for.         *)
AnswerOK(a) ==
  /\ a.error # "IDEMPOTENCY_CONFLICT"
  /\ a.error = "none" =>
       /\ tab.wait = "profile" => a.value \in Profiles
       /\ tab.wait = "message" => \E t \in tasks : t.id = a.value /\ t.key = tab.op.key
AnswersOK == \A a \in answers : tab.wait # "no" /\ AnswerOK(a)

(* A key stands for one body, and a frozen operation is about to send the  *)
(* body its key already stands for.                                        *)
OneBodyPerKey ==
  /\ \A b \in Sent : b.key <= tab.keys
  /\ \A b, c \in Sent : b.key = c.key => b = c
  /\ \A b \in Sent : b.key = tab.op.key => tab.op.base # 0 /\ b = Body(tab.op)

(* A key has one row, and a row of a message names a task of its key.      *)
RowsOK ==
  /\ \A t, u \in tasks : t.id = u.id => t = u
  /\ \A x, y \in rows : x.kind = y.kind /\ x.key = y.key => x = y
  /\ \A x \in rows : x.kind = "message" => \E t \in tasks : t.id = x.id /\ t.key = x.key

(* A task that succeeded left its base version behind, so its message can  *)
(* be taken in no more; of the tasks of a key one at most has not failed.  *)
TasksOK ==
  /\ \A t \in tasks : t.status = "succeeded" => t.base < profile[t.profile]
  /\ \A t, u \in tasks : t.key = u.key /\ t # u => t.status = "failed" \/ u.status = "failed"

ShownOK == tab.shown # "IDEMPOTENCY_CONFLICT"

RequestsInv ==
  /\ TypeOK /\ OperationOK(tab) /\ WaitOK /\ AnswersOK /\ OneBodyPerKey /\ ShownOK
  /\ RowsOK /\ TasksOK /\ AcceptedIsSubmitted

(*------------------------------- Requests -------------------------------*)

(* The next request of an operation says what the operation says.          *)
LEMMA NextRequestIs ==
  ASSUME NEW t \in Tab, OperationOK(t), t.op.key # 0, NEW n \in 1..MaxTries
  PROVE  LET r == NextRequest(t, n) IN
         /\ r \in Request /\ r.try = n
         /\ r.kind = "message" => t.op.base # 0 /\ Body(r) = Body(t.op) /\ r.key = t.op.key
         /\ r.kind \in {"profile", "read"} => t.op.base = 0
         /\ r.kind = "read" => t.created # 0
         /\ r.kind \in {"profile", "read", "message"}
<1>1. /\ t.op.key \in Keys /\ t.op.base \in Nat /\ t.created \in 0..MaxProfiles
      /\ t.op.base # 0 => t.op.profile \in Profiles /\ t.op.text \in Text
  BY RequestsAssumption DEF Tab, Operation, OperationOK, Keys, Profiles
<1>2. CASE t.op.base # 0
  <2>1. NextRequest(t, n) = [kind |-> "message", try |-> n, key |-> t.op.key,
             profile |-> t.op.profile, base |-> t.op.base, text |-> t.op.text]
    BY <1>2 DEF NextRequest
  <2>2. NextRequest(t, n) \in Message
    BY <1>1, <1>2, <2>1 DEF Message
  <2>3. QED
    BY <1>2, <2>1, <2>2 DEF Request, Body
<1>3. CASE t.op.base = 0 /\ t.created = 0
  BY <1>1, <1>3 DEF NextRequest, Request
<1>4. CASE t.op.base = 0 /\ t.created # 0
  <2>1. t.created \in Profiles
    BY <1>1, <1>4, RequestsAssumption DEF Profiles
  <2>2. QED
    BY <1>4, <2>1 DEF NextRequest, Request
<1>5. QED
  BY <1>2, <1>3, <1>4

(* What is on its way is well-formed.                                      *)
LEMMA RequestFields ==
  ASSUME NEW r \in Request
  PROVE  /\ r.kind \in {"profile", "read", "message"} /\ r.try \in 1..MaxTries
         /\ r.kind = "profile" => r.key \in Keys
         /\ r.kind = "read" => r.profile \in Profiles
         /\ r.kind = "message" => /\ r.key \in Keys /\ r.profile \in Profiles
                                  /\ r.base \in Nat /\ r.text \in Text
  BY DEF Request, Message

(*------------------------- What steps keep ------------------------------*)

(* The bodies that were sent shrink to those still on their way or stored. *)
LEMMA FewerBodies ==
  ASSUME OneBodyPerKey, Sent' \subseteq Sent, tab'.keys = tab.keys,
         tab'.op = tab.op \/ tab'.op = NoOperation, \A b \in Sent : b.key \in Keys
  PROVE  OneBodyPerKey'
<1>1. \A b \in Sent' : b \in Sent /\ b.key \in Keys
  OBVIOUS
<1>2. NoOperation.key \notin Keys
  BY DEF NoOperation, Keys
<1>3. ASSUME NEW b \in Sent', b.key = tab'.op.key PROVE tab'.op.base # 0 /\ b = Body(tab'.op)
  BY <1>1, <1>2, <1>3 DEF OneBodyPerKey
<1>4. QED
  BY <1>1, <1>3 DEF OneBodyPerKey

LEMMA SentKeys == TypeOK => \A b \in Sent : b.key \in Keys
  BY RequestFields DEF TypeOK, Sent, Body, TaskRow

LEMMA ServerUnchangedKeeps ==
  ASSUME RowsOK, TasksOK, ServerUnchanged
  PROVE  RowsOK' /\ TasksOK'
  BY DEF ServerUnchanged, RowsOK, TasksOK

(* Sending the next request of an operation whose key stands for nothing   *)
(* else keeps everything.                                                  *)
LEMMA SendKeeps ==
  ASSUME RequestsInv, NEW t \in Tab, OperationOK(t), t.op.key # 0, t.task = 0,
         NEW n \in 1..MaxTries, Send(t, NextRequest(t, n)), ServerUnchanged, UNCHANGED faults,
         tab.keys <= t.keys, t.acked = tab.acked, t.shown # "IDEMPOTENCY_CONFLICT",
         \A b \in Sent : b.key = t.op.key => t.op.base # 0 /\ b = Body(t.op)
  PROVE  RequestsInv'
<1> DEFINE r == NextRequest(t, n)
<1>1. /\ r \in Request /\ r.try = n
      /\ r.kind = "message" => t.op.base # 0 /\ Body(r) = Body(t.op) /\ r.key = t.op.key
      /\ r.kind \in {"profile", "read"} => t.op.base = 0
      /\ r.kind = "read" => t.created # 0
      /\ r.kind \in {"profile", "read", "message"}
  BY NextRequestIs
<1> HIDE DEF r
<1>2. /\ wire' = wire \cup {r} /\ answers' = {} /\ tasks' = tasks
      /\ tab' = [t EXCEPT !.try = n, !.wait = r.kind]
      /\ \A q \in wire : q.try # n
  BY <1>1 DEF Send, ServerUnchanged, r
<1>3. /\ tab' \in Tab /\ tab'.try = n /\ tab'.wait = r.kind /\ tab'.op = t.op
      /\ tab'.created = t.created /\ tab'.keys = t.keys /\ tab'.task = t.task
      /\ tab'.acked = t.acked /\ tab'.shown = t.shown
  <2>1. PICK k \in {"no", "profile", "read", "message"} : k = r.kind
    BY <1>1
  <2>2. tab' = [t EXCEPT !.try = n, !.wait = k]
    BY <1>2, <2>1
  <2>3. n \in 0..MaxTries
    BY RequestsAssumption
  <2>4. QED
    BY <2>1, <2>2, <2>3 DEF Tab
<1>4. TypeOK'
  BY <1>1, <1>2, <1>3 DEF RequestsInv, TypeOK, ServerUnchanged
<1>5. OperationOK(tab)'
  BY <1>3 DEF OperationOK
<1>6. WaitOK'
  <2>1. ASSUME NEW q \in wire', q.try = n PROVE q = r
    BY <1>2, <2>1
  <2>2. \A q \in wire' : Awaited(q)' => q = r
    BY <1>3, <2>1 DEF Awaited
  <2>3. QED
    BY <1>1, <1>3, <2>2 DEF WaitOK
<1>7. OneBodyPerKey'
  <2>1. \A b \in Sent' : b \in Sent \/ (b = Body(t.op) /\ t.op.base # 0)
    BY <1>1, <1>2 DEF Sent
  <2>2. \A b \in Sent : b.key <= tab.keys /\ b.key \in Keys
    BY SentKeys DEF RequestsInv, OneBodyPerKey
  <2>3. Body(t.op).key = t.op.key /\ t.op.key <= t.keys
    BY DEF Body, OperationOK
  <2>4. \A b \in Sent' : b.key <= t.keys
    BY <2>1, <2>2, <2>3, RequestsAssumption, SMTT(60) DEF Tab, Keys, RequestsInv, TypeOK
  <2>5. \A b \in Sent' : b.key = t.op.key => t.op.base # 0 /\ b = Body(t.op)
    BY <2>1
  <2>6. \A b, c \in Sent' : b.key = c.key => b = c
    BY <2>1, <2>3 DEF RequestsInv, OneBodyPerKey
  <2>7. QED
    BY <1>3, <2>4, <2>5, <2>6 DEF OneBodyPerKey
<1>8. AnswersOK' /\ ShownOK' /\ RowsOK' /\ TasksOK' /\ AcceptedIsSubmitted'
  BY <1>2, <1>3, ServerUnchangedKeeps DEF RequestsInv, AnswersOK, ShownOK, AcceptedIsSubmitted
<1>9. QED
  BY <1>4, <1>5, <1>6, <1>7, <1>8 DEF RequestsInv

(* The page stops waiting: an answer was taken, or the page gave up.       *)
LEMMA EndWaitKeeps ==
  ASSUME RequestsInv, tab' \in Tab, tab'.wait = "no", tab'.keys = tab.keys,
         tab'.op = tab.op \/ tab'.op = NoOperation, tab'.shown # "IDEMPOTENCY_CONFLICT",
         wire' \subseteq wire, answers' = {}, ServerUnchanged, faults' \in 0..MaxFaults,
         \A a \in tab'.acked : a \in tab.acked
            \/ \E t \in tasks : t.id = a.task /\ t.text = a.text
  PROVE  RequestsInv'
<1>1. TypeOK'
  BY DEF RequestsInv, TypeOK, ServerUnchanged
<1>2. OperationOK(tab)'
  <2>1. tab.keys \in Nat /\ tab'.keys \in Nat
    BY RequestsAssumption DEF RequestsInv, TypeOK, Tab
  <2>2. CASE tab'.op = tab.op
    BY <2>2 DEF OperationOK, RequestsInv
  <2>3. CASE tab'.op = NoOperation
    BY <2>1, <2>3 DEF OperationOK, NoOperation
  <2>4. QED
    BY <2>2, <2>3
<1>3. WaitOK' /\ AnswersOK' /\ ShownOK'
  BY DEF WaitOK, Awaited, AnswersOK, ShownOK
<1>4. OneBodyPerKey'
  <2>1. Sent' \subseteq Sent
    BY DEF Sent, ServerUnchanged
  <2>2. QED
    BY <2>1, FewerBodies, SentKeys DEF RequestsInv
<1>5. RowsOK' /\ TasksOK' /\ AcceptedIsSubmitted'
  BY ServerUnchangedKeeps DEF RequestsInv, ServerUnchanged, AcceptedIsSubmitted
<1>6. QED
  BY <1>1, <1>2, <1>3, <1>4, <1>5 DEF RequestsInv

(* The page is as it was but for the form and the task it shows.           *)
LEMMA IdleKeeps ==
  ASSUME RequestsInv, tab' \in Tab, tab.wait = "no", tab'.wait = "no", tab'.keys = tab.keys,
         tab'.op = tab.op, tab'.shown = tab.shown, tab'.acked = tab.acked, Unsent,
         ServerUnchanged, UNCHANGED faults
  PROVE  RequestsInv'
<1>1. answers = {}
  BY DEF RequestsInv, AnswersOK
<1>2. faults' \in 0..MaxFaults
  BY DEF RequestsInv, TypeOK
<1>3. QED
  BY <1>1, <1>2, EndWaitKeeps DEF Unsent, RequestsInv, ShownOK, AcceptedIsSubmitted

(* A request or an answer leaves the wire, or the server stores: the page  *)
(* does not notice before it takes an answer.                              *)
LEMMA ServerKeeps ==
  ASSUME RequestsInv, tab' = tab, TypeOK', wire' \subseteq wire, Sent' \subseteq Sent,
         \A a \in answers' : a \in answers \/ (tab.wait # "no" /\ AnswerOK(a)'),
         \A t \in tasks : \E u \in tasks' : u.id = t.id /\ u.key = t.key /\ u.text = t.text,
         RowsOK', TasksOK'
  PROVE  RequestsInv'
<1>1. OperationOK(tab)' /\ ShownOK'
  BY DEF RequestsInv, OperationOK, ShownOK
<1>2. WaitOK'
  BY DEF RequestsInv, WaitOK, Awaited
<1>3. AnswersOK'
  BY DEF RequestsInv, AnswersOK, AnswerOK
<1>4. OneBodyPerKey'
  BY FewerBodies, SentKeys DEF RequestsInv
<1>5. AcceptedIsSubmitted'
  BY DEF RequestsInv, AcceptedIsSubmitted
<1>6. QED
  BY <1>1, <1>2, <1>3, <1>4, <1>5 DEF RequestsInv

(*---------------------------- The browser's steps -----------------------*)

LEMMA SubmitKeeps == RequestsInv /\ Submit => RequestsInv'
<1> SUFFICES ASSUME RequestsInv, Submit PROVE RequestsInv'
  OBVIOUS
<1> DEFINE fresh == tab.op.sig # tab.text \/ tab.op.key = 0
           page == IF fresh THEN [tab EXCEPT !.op = NewOperation(tab), !.keys = @ + 1] ELSE tab
           t == [page EXCEPT !.shown = "none"]
<1>1. PICK n \in 1..MaxTries : Send(t, NextRequest(page, n))
  BY DEF Submit
<1>2. /\ tab.wait = "no" /\ tab.task = 0 /\ page.keys <= MaxKeys
      /\ ServerUnchanged /\ UNCHANGED faults
  BY DEF Submit, Enabled
<1>3. tab \in Tab /\ tab.keys \in Nat
  BY RequestsAssumption DEF RequestsInv, TypeOK, Tab
<1>4. CASE fresh
  <2> DEFINE op == NewOperation(tab)
  <2>1. page = [tab EXCEPT !.op = op, !.keys = tab.keys + 1]
    BY <1>4
  <2>2. page.keys = tab.keys + 1 /\ page.op = op
    BY <1>3, <2>1 DEF Tab
  <2>3. tab.keys + 1 \in 0..MaxKeys /\ tab.text \in Text
    BY <1>2, <1>3, <2>2, RequestsAssumption DEF Tab
  <2>4. op \in Operation /\ op.sig = tab.text /\ op.key = tab.keys + 1 /\ op.base = 0
    <3>1. NoOperation \in Operation /\ NoOperation.base = 0
      BY RequestsAssumption DEF NoOperation, Operation
    <3>2. QED
      BY <2>3, <3>1 DEF NewOperation, Operation
  <2> HIDE DEF op
  <2>5. /\ t \in Tab /\ t.op = op /\ t.keys = tab.keys + 1 /\ t.task = tab.task
        /\ t.acked = tab.acked /\ t.shown = "none" /\ t.created = page.created
    <3>1. t = [tab EXCEPT !.op = op, !.keys = tab.keys + 1, !.shown = "none"]
      BY <2>1
    <3>2. page.created = tab.created
      BY <1>3, <2>1 DEF Tab
    <3> HIDE DEF t
    <3>3. QED
      BY <1>3, <2>3, <2>4, <3>1, <3>2 DEF Tab
  <2>6. NextRequest(t, n) = NextRequest(page, n)
    BY <2>2, <2>5 DEF NextRequest
  <2>7. OperationOK(t) /\ t.op.key # 0
    BY <1>3, <2>3, <2>4, <2>5 DEF OperationOK
  <2>8. \A b \in Sent : b.key # t.op.key
    <3>1. \A b \in Sent : b.key <= tab.keys /\ b.key \in Nat
      BY SentKeys DEF RequestsInv, OneBodyPerKey, Keys
    <3>2. QED
      BY <1>3, <2>4, <2>5, <3>1
  <2>9. tab.keys <= t.keys
    BY <1>3, <2>5
  <2>10. Send(t, NextRequest(t, n)) /\ t.task = 0 /\ t.shown # "IDEMPOTENCY_CONFLICT"
    BY <1>1, <1>2, <2>5, <2>6
  <2> HIDE DEF t
  <2>11. QED
    BY <1>2, <2>5, <2>7, <2>8, <2>9, <2>10, SendKeeps
<1>5. CASE ~fresh
  <2>1. page = tab
    BY <1>5
  <2>2. /\ t \in Tab /\ t.op = tab.op /\ t.keys = tab.keys /\ t.task = tab.task
        /\ t.acked = tab.acked /\ t.shown = "none" /\ t.created = tab.created
    BY <1>3, <2>1 DEF Tab
  <2>3. NextRequest(t, n) = NextRequest(page, n)
    BY <2>1, <2>2 DEF NextRequest
  <2>4. OperationOK(t) /\ t.op.key # 0
    BY <1>5, <2>2 DEF OperationOK, RequestsInv
  <2>5. \A b \in Sent : b.key = t.op.key => t.op.base # 0 /\ b = Body(t.op)
    BY <2>2 DEF RequestsInv, OneBodyPerKey
  <2>6. Send(t, NextRequest(t, n)) /\ t.task = 0 /\ tab.keys <= t.keys
        /\ t.shown # "IDEMPOTENCY_CONFLICT"
    BY <1>1, <1>2, <1>3, <2>2, <2>3
  <2> HIDE DEF t
  <2>7. QED
    BY <1>2, <2>2, <2>4, <2>5, <2>6, SendKeeps
<1>6. QED
  BY <1>4, <1>5

LEMMA ContinueKeeps ==
  ASSUME RequestsInv, NEW a \in answers, Continue(a)
  PROVE  RequestsInv'
<1> DEFINE t == IF tab.wait = "profile" THEN [tab EXCEPT !.created = a.value]
                ELSE [tab EXCEPT !.op.profile = tab.created, !.op.base = a.value,
                                 !.op.text = tab.op.sig]
<1>1. PICK n \in 1..MaxTries : Send(t, NextRequest(t, n))
  BY DEF Continue
<1>2. /\ tab \in Tab /\ a.value \in Nat /\ tab.wait \in {"profile", "read"}
      /\ tab.op.key # 0 /\ tab.task = 0 /\ tab.op.base = 0 /\ tab.op.sig \in Text
      /\ tab.wait = "read" => tab.created # 0
      /\ tab.wait = "profile" => a.value \in Profiles
      /\ ServerUnchanged /\ UNCHANGED faults
  BY DEF Continue, RequestsInv, TypeOK, Tab, WaitOK, OperationOK, AnswersOK, AnswerOK
<1>3. /\ t \in Tab /\ t.op.key = tab.op.key /\ t.op.sig = tab.op.sig /\ t.keys = tab.keys
      /\ t.task = tab.task /\ t.acked = tab.acked /\ t.shown = tab.shown
      /\ t.op.base # 0 => t.op.profile # 0 /\ t.op.text = t.op.sig
  <2>1. CASE tab.wait = "profile"
    <3>1. a.value \in 0..MaxProfiles
      BY <1>2, <2>1 DEF Profiles
    <3>2. QED
      BY <1>2, <2>1, <3>1 DEF Tab, RequestsInv, OperationOK
  <2>2. CASE tab.wait = "read"
    <3> DEFINE op == [tab.op EXCEPT !.profile = tab.created, !.base = a.value, !.text = tab.op.sig]
    <3>1. /\ op \in Operation /\ op.key = tab.op.key /\ op.sig = tab.op.sig
          /\ op.profile = tab.created /\ op.text = tab.op.sig
      BY <1>2 DEF Tab, Operation
    <3>2. t = [tab EXCEPT !.op = op]
      BY <1>2, <2>2 DEF Tab, Operation
    <3> HIDE DEF op, t
    <3>3. QED
      BY <1>2, <2>2, <3>1, <3>2 DEF Tab
  <2>3. QED
    BY <1>2, <2>1, <2>2
<1>4. OperationOK(t)
  BY <1>2, <1>3 DEF RequestsInv, OperationOK
<1>5. \A b \in Sent : b.key # t.op.key
  BY <1>2, <1>3 DEF RequestsInv, OneBodyPerKey
<1>6. t.shown # "IDEMPOTENCY_CONFLICT" /\ tab.keys <= t.keys
  BY <1>3, RequestsAssumption DEF RequestsInv, ShownOK, TypeOK, Tab
<1> HIDE DEF t
<1>7. QED
  BY <1>1, <1>2, <1>3, <1>4, <1>5, <1>6, SendKeeps

(* An accepted message is the task the server made of the frozen operation.*)
LEMMA AcceptKeeps ==
  ASSUME RequestsInv, NEW a \in answers, Accept(a)
  PROVE  RequestsInv'
<1> DEFINE ack == [text |-> tab.op.sig, task |-> a.value]
<1>1. /\ tab \in Tab /\ tab.op.key # 0 /\ tab.op.sig \in Text /\ tab.op.base # 0
      /\ tab.op.text = tab.op.sig
      /\ \E u \in tasks : u.id = a.value /\ u.key = tab.op.key
  BY RequestsAssumption, SMTT(60) DEF Accept, RequestsInv, TypeOK, Tab, Operation, WaitOK, OperationOK,
     AnswersOK, AnswerOK
<1>2. PICK u \in tasks : u.id = a.value /\ u.key = tab.op.key
  BY <1>1
<1>3. u.text = tab.op.sig
  <2>1. Body(u) \in Sent /\ Body(u).key = tab.op.key
    BY <1>1, <1>2 DEF Sent, Body
  <2>2. Body(u) = Body(tab.op)
    BY <2>1 DEF RequestsInv, OneBodyPerKey
  <2>3. QED
    BY <1>1, <2>2 DEF Body
<1>4. ack \in [text : Text, task : TaskIds] /\ NoOperation \in Operation /\ a.value \in 0..MaxTasks
  <2>1. a.value \in TaskIds
    BY <1>2 DEF RequestsInv, TypeOK, TaskRow
  <2>2. QED
    BY <1>1, <2>1, RequestsAssumption DEF TaskIds, NoOperation, Operation
<1>5. tab' = [tab EXCEPT !.wait = "no", !.op = NoOperation, !.task = a.value,
                         !.acked = tab.acked \cup {ack}]
  BY DEF Accept
<1> HIDE DEF ack
<1>6. /\ tab' \in Tab /\ tab'.wait = "no" /\ tab'.keys = tab.keys /\ tab'.op = NoOperation
      /\ tab'.shown = tab.shown /\ tab'.acked = tab.acked \cup {ack}
  BY <1>1, <1>4, <1>5 DEF Tab
<1>7. \E v \in tasks : v.id = ack.task /\ v.text = ack.text
  BY <1>2, <1>3 DEF ack
<1>8. answers' = {} /\ wire' = wire /\ ServerUnchanged /\ faults' \in 0..MaxFaults
  BY DEF Accept, RequestsInv, TypeOK
<1>9. QED
  BY <1>6, <1>7, <1>8, EndWaitKeeps DEF RequestsInv, ShownOK

(* A refusal and a time-out keep the operation for the next try.           *)
LEMMA FailedKeeps ==
  ASSUME RequestsInv, NEW e \in Errors, e # "IDEMPOTENCY_CONFLICT", tab' = Failed(e),
         answers' = {}, wire' = wire, ServerUnchanged, faults' \in 0..MaxFaults
  PROVE  RequestsInv'
<1>1. /\ tab' \in Tab /\ tab'.wait = "no" /\ tab'.keys = tab.keys /\ tab'.op = tab.op
      /\ tab'.shown = e /\ tab'.acked = tab.acked
  BY DEF RequestsInv, TypeOK, Tab, Failed
<1>2. QED
  BY <1>1, EndWaitKeeps

LEMMA RefuseKeeps ==
  ASSUME RequestsInv, NEW a \in answers, Refuse(a)
  PROVE  RequestsInv'
<1>1. a.error \in Errors /\ a.error # "IDEMPOTENCY_CONFLICT" /\ faults' \in 0..MaxFaults
  BY DEF Refuse, RequestsInv, TypeOK, AnswersOK, AnswerOK
<1>2. QED
  BY <1>1, FailedKeeps DEF Refuse

LEMMA FaultCounts == TypeOK /\ (Fault \/ UNCHANGED faults) => faults' \in 0..MaxFaults
  BY RequestsAssumption DEF TypeOK, Fault

LEMMA GiveUpKeeps == RequestsInv /\ GiveUp => RequestsInv'
<1>1. RequestsInv /\ GiveUp => faults' \in 0..MaxFaults
  BY FaultCounts DEF GiveUp, RequestsInv
<1>2. QED
  BY <1>1, FailedKeeps DEF GiveUp, Errors

(* The form changes and tasks are left only while nothing is waited for.   *)
LEMMA FormKeeps ==
  ASSUME RequestsInv, Dismiss \/ Leave \/ \E text \in Text : EditForm(text)
  PROVE  RequestsInv'
<1> USE DEF Tab, RequestsInv, TypeOK
<1>1. CASE Dismiss \/ Leave
  <2>1. tab.task # 0 /\ tab.wait = "no"
    <3>1. PICK t \in tasks : t.id = tab.task
      BY <1>1 DEF Dismiss, Leave, Ended
    <3>2. t.id # 0
      BY <3>1 DEF TaskRow, TaskIds
    <3>3. QED
      BY <3>1, <3>2 DEF WaitOK
  <2>2. tab' = [tab EXCEPT !.task = 0] \/ tab' = [tab EXCEPT !.task = 0, !.created = 0]
    BY <1>1 DEF Dismiss, Leave
  <2>3. 0 \in 0..MaxTasks /\ 0 \in 0..MaxProfiles
    BY RequestsAssumption
  <2>4. /\ tab' \in Tab /\ tab'.wait = "no" /\ tab'.keys = tab.keys /\ tab'.op = tab.op
        /\ tab'.shown = tab.shown /\ tab'.acked = tab.acked
    BY <2>1, <2>2, <2>3
  <2>5. Unsent /\ ServerUnchanged /\ UNCHANGED faults
    BY <1>1 DEF Dismiss, Leave
  <2>6. QED
    BY <2>1, <2>4, <2>5, IdleKeeps
<1>2. ASSUME NEW text \in Text, EditForm(text) PROVE RequestsInv'
  <2>1. /\ tab' \in Tab /\ tab.wait = "no" /\ tab'.wait = "no" /\ tab'.keys = tab.keys
        /\ tab'.op = tab.op /\ tab'.shown = tab.shown /\ tab'.acked = tab.acked
    BY <1>2 DEF EditForm, Enabled
  <2>2. QED
    BY <1>2, <2>1, IdleKeeps DEF EditForm
<1>3. QED
  BY <1>1, <1>2

(*-------------------------- The wire and the server ---------------------*)

LEMMA LossKeeps ==
  ASSUME RequestsInv,
         (\E r \in wire : LoseRequest(r)) \/ (\E a \in answers : LoseAnswer(a))
  PROVE  RequestsInv'
<1>1. /\ tab' = tab /\ wire' \subseteq wire /\ answers' \subseteq answers
      /\ ServerUnchanged /\ faults' \in 0..MaxFaults
  BY FaultCounts DEF LoseRequest, LoseAnswer, RequestsInv
<1>2. TypeOK' /\ RowsOK' /\ TasksOK' /\ tasks' = tasks
  BY <1>1, ServerUnchangedKeeps DEF RequestsInv, TypeOK, ServerUnchanged
<1>3. Sent' \subseteq Sent
  BY <1>1, <1>2 DEF Sent
<1>4. QED
  BY <1>1, <1>2, <1>3, ServerKeeps

(* A handler answers request r: what it answers must be true of the page   *)
(* that waits for it.                                                      *)
LEMMA HandlerKeeps ==
  ASSUME RequestsInv, NEW r \in wire, NEW value \in Nat, NEW error \in Errors \cup {"none"},
         Answer(r, value, error), profile' \in [Profiles -> Nat], tasks' \subseteq TaskRow,
         rows' \subseteq KeyRow, faults' \in 0..MaxFaults, tasks \subseteq tasks',
         Sent' \subseteq Sent, RowsOK', TasksOK', error # "IDEMPOTENCY_CONFLICT",
         error = "none" /\ r.kind = "profile" => value \in Profiles,
         error = "none" /\ r.kind = "message" => \E t \in tasks' : t.id = value /\ t.key = r.key
  PROVE  RequestsInv'
<1> DEFINE a == [value |-> value, error |-> error]
<1>1. tab' = tab /\ wire' \subseteq wire
  BY DEF Answer
<1>2. \A b \in answers' : b \in answers \/ (Awaited(r) /\ b = a)
  BY DEF Answer
<1>3. TypeOK'
  <2>1. a \in [value : Nat, error : Errors \cup {"none"}]
    OBVIOUS
  <2>2. QED
    BY <1>1, <1>2, <2>1 DEF RequestsInv, TypeOK
<1>4. ASSUME Awaited(r) PROVE tab.wait # "no" /\ AnswerOK(a)'
  <2>1. /\ tab.wait # "no" /\ r.kind = tab.wait
        /\ r.kind = "message" => r.key = tab.op.key
    BY <1>4 DEF RequestsInv, WaitOK, Awaited
  <2>2. QED
    BY <1>1, <2>1 DEF AnswerOK
<1> HIDE DEF a
<1>5. QED
  BY <1>1, <1>2, <1>3, <1>4, ServerKeeps

(* Answering a request without storing a task leaves its body behind.      *)
LEMMA AnsweredBodies ==
  ASSUME NEW r \in wire, wire' = wire \ {r}, tasks' = tasks
  PROVE  Sent' \subseteq Sent
  BY DEF Sent

(* Whatever a handler answers without storing anything is fine, if it is   *)
(* true of the page that waits for it.                                     *)
LEMMA ReplyKeeps ==
  ASSUME RequestsInv, NEW r \in wire, NEW value \in Nat, NEW error \in Errors \cup {"none"},
         Answer(r, value, error), ServerUnchanged, faults' \in 0..MaxFaults,
         error # "IDEMPOTENCY_CONFLICT",
         error = "none" /\ r.kind = "profile" => value \in Profiles,
         error = "none" /\ r.kind = "message" => \E t \in tasks : t.id = value /\ t.key = r.key
  PROVE  RequestsInv'
<1>1. wire' = wire \ {r} /\ profile' = profile /\ tasks' = tasks /\ rows' = rows
  BY DEF Answer, ServerUnchanged
<1>2. Sent' \subseteq Sent /\ RowsOK' /\ TasksOK'
  BY <1>1, AnsweredBodies, ServerUnchangedKeeps DEF RequestsInv
<1>3. profile' \in [Profiles -> Nat] /\ tasks' \subseteq TaskRow /\ rows' \subseteq KeyRow
  BY <1>1 DEF RequestsInv, TypeOK
<1>4. QED
  BY <1>1, <1>2, <1>3, HandlerKeeps

(* What a key stands for is a profile, or a task of that key.              *)
LEMMA ReplayedIs ==
  ASSUME RequestsInv, NEW r \in wire, NEW id \in Replayed(r)
  PROVE  /\ r.kind = "profile" => id \in Profiles
         /\ r.kind = "message" => \E t \in tasks : t.id = id /\ t.key = r.key
<1>1. PICK row \in rows : row.kind = r.kind /\ row.key = r.key /\ row.id = id
  BY DEF Replayed
<1>2. row \in KeyRow
  BY DEF RequestsInv, TypeOK
<1>3. QED
  BY <1>1, <1>2 DEF KeyRow, RequestsInv, RowsOK

LEMMA CreateProfileKeeps ==
  ASSUME RequestsInv, NEW r \in wire, CreateProfile(r)
  PROVE  RequestsInv'
<1> DEFINE row == [kind |-> "profile", key |-> r.key, id |-> NewProfile]
<1>1. r.kind = "profile" /\ r.key \in Keys
  BY RequestFields DEF CreateProfile, RequestsInv, TypeOK
<1>2. NewProfile \in Profiles /\ profile[NewProfile] = 0 /\ NewProfile \in Nat
  <2>1. NewProfile \in Profiles /\ profile[NewProfile] = 0
    BY DEF CreateProfile, NewProfile
  <2>2. QED
    BY <2>1, RequestsAssumption DEF Profiles
<1>3. /\ profile' = [profile EXCEPT ![NewProfile] = 1] /\ rows' = rows \cup {row}
      /\ Answer(r, NewProfile, "none") /\ tasks' = tasks /\ faults' = faults
      /\ \A x \in rows : ~(x.kind = "profile" /\ x.key = r.key)
  BY <1>1 DEF CreateProfile, Claim, Claimed, Replayed
<1>4. /\ row \in KeyRow /\ row.kind = "profile" /\ row.key = r.key
      /\ profile \in [Profiles -> Nat] /\ tasks \subseteq TaskRow /\ rows \subseteq KeyRow
      /\ faults \in 0..MaxFaults
  BY <1>1, <1>2 DEF KeyRow, RequestsInv, TypeOK
<1> HIDE DEF row
<1>5. profile' \in [Profiles -> Nat] /\ rows' \subseteq KeyRow
  BY <1>2, <1>3, <1>4
<1>6. RowsOK'
  BY <1>3, <1>4 DEF RequestsInv, RowsOK
<1>7. TasksOK'
  <2>1. ASSUME NEW t \in tasks, t.status = "succeeded" PROVE t.base < profile'[t.profile]
    <3>1. t.base < profile[t.profile] /\ t.profile \in Profiles /\ t.base \in Nat
      BY <1>4, <2>1 DEF RequestsInv, TasksOK, TaskRow
    <3>2. t.profile # NewProfile
      BY <1>2, <3>1
    <3>3. QED
      BY <1>3, <1>4, <3>1, <3>2
  <2>2. QED
    BY <1>3, <2>1 DEF RequestsInv, TasksOK
<1>8. Sent' \subseteq Sent
  BY <1>3, AnsweredBodies DEF Answer
<1>9. QED
  BY <1>1, <1>2, <1>3, <1>4, <1>5, <1>6, <1>7, <1>8, HandlerKeeps

(* A second task of a key has the body of the first, so it can only begin  *)
(* where the first one did not change the profile and is no longer at work.*)
LEMMA CreateTaskKeeps ==
  ASSUME RequestsInv, NEW r \in wire, CreateTask(r)
  PROVE  RequestsInv'
<1> DEFINE new == [id |-> NewTask, key |-> r.key, profile |-> r.profile, base |-> r.base,
                   text |-> r.text, status |-> "active"]
           row == [kind |-> "message", key |-> r.key, id |-> NewTask]
<1>1. /\ r.kind = "message" /\ r.key \in Keys /\ r.profile \in Profiles
      /\ r.base \in Nat /\ r.text \in Text
  BY RequestFields DEF CreateTask, RequestsInv, TypeOK
<1>2. NewTask \in TaskIds /\ NewTask \in Nat /\ \A t \in tasks : t.id # NewTask
  <2>1. NewTask \in FreeIds
    BY DEF CreateTask, NewTask
  <2>2. QED
    BY <2>1, RequestsAssumption DEF FreeIds, TaskIds
<1>3. /\ tasks' = tasks \cup {new} /\ rows' = rows \cup {row} /\ profile' = profile
      /\ Answer(r, NewTask, "none") /\ faults' = faults /\ wire' = wire \ {r}
      /\ profile[r.profile] = r.base /\ ~Busy(r.profile)
      /\ \A x \in rows : ~(x.kind = "message" /\ x.key = r.key)
  BY <1>1 DEF CreateTask, Claim, Claimed, Replayed, Answer
<1>4. /\ row \in KeyRow /\ row.kind = "message" /\ row.key = r.key /\ row.id = NewTask
      /\ new \in TaskRow /\ Body(new) = Body(r) /\ new.key = r.key /\ new.id = NewTask
      /\ new.status = "active"
      /\ profile \in [Profiles -> Nat] /\ tasks \subseteq TaskRow /\ rows \subseteq KeyRow
      /\ faults \in 0..MaxFaults
  BY <1>1, <1>2 DEF KeyRow, TaskRow, Body, RequestsInv, TypeOK
<1> HIDE DEF new, row
<1>5. tasks' \subseteq TaskRow /\ rows' \subseteq KeyRow /\ tasks \subseteq tasks'
  BY <1>3, <1>4
<1>6. RowsOK'
  BY <1>2, <1>3, <1>4 DEF RequestsInv, RowsOK
<1>7. TasksOK'
  <2>1. ASSUME NEW t \in tasks, t.key = r.key PROVE t.status = "failed"
    <3>1. Body(t) = Body(r)
      <4>1. Body(t) \in Sent /\ Body(r) \in Sent /\ Body(t).key = Body(r).key
        BY <1>1, <2>1 DEF Sent, Body
      <4>2. QED
        BY <4>1 DEF RequestsInv, OneBodyPerKey
    <3>2. t.profile = r.profile /\ t.base = r.base
      BY <3>1 DEF Body
    <3>3. t.status # "active"
      BY <1>3, <3>2 DEF Busy
    <3>4. t.status # "succeeded"
      <4>1. ~(t.base < profile[t.profile])
        BY <1>1, <1>3, <3>2
      <4>2. QED
        BY <4>1 DEF RequestsInv, TasksOK
    <3>5. QED
      BY <1>4, <3>3, <3>4 DEF TaskRow
  <2>2. QED
    BY <1>3, <1>4, <2>1 DEF RequestsInv, TasksOK
<1>8. Sent' \subseteq Sent
  BY <1>1, <1>3, <1>4 DEF Sent
<1>9. \E t \in tasks' : t.id = NewTask /\ t.key = r.key
  BY <1>3, <1>4
<1>10. QED
  BY <1>1, <1>2, <1>3, <1>4, <1>5, <1>6, <1>7, <1>8, <1>9, HandlerKeeps

LEMMA HandleKeeps ==
  ASSUME RequestsInv, NEW r \in wire, Handle(r) \/ Limit(r)
  PROVE  RequestsInv'
<1>0. r \in Request /\ profile \in [Profiles -> Nat] /\ TypeOK
  BY DEF RequestsInv, TypeOK
<1>1. CASE ReplayProfile(r)
  <2>1. PICK p \in Replayed(r) : Answer(r, p, "none")
    BY <1>1 DEF ReplayProfile
  <2>2. r.kind = "profile" /\ ServerUnchanged /\ faults' \in 0..MaxFaults
    BY <1>0, <1>1 DEF ReplayProfile, TypeOK
  <2>3. p \in Profiles /\ p \in Nat
    BY <2>2, ReplayedIs, RequestsAssumption DEF Profiles
  <2>4. QED
    BY <2>1, <2>2, <2>3, ReplyKeeps
<1>2. CASE CreateProfile(r)
  BY <1>2, CreateProfileKeeps
<1>3. CASE ReadProfile(r)
  <2>1. profile[r.profile] \in Nat /\ r.kind = "read"
    BY <1>0, <1>3, RequestFields DEF ReadProfile
  <2>2. Answer(r, profile[r.profile], "none") /\ ServerUnchanged /\ faults' \in 0..MaxFaults
    BY <1>0, <1>3 DEF ReadProfile, TypeOK
  <2>3. QED
    BY <2>1, <2>2, ReplyKeeps
<1>4. CASE ReplayMessage(r)
  <2>1. PICK t \in tasks :
          /\ t.id \in Replayed(r)
          /\ IF SameBody(t, r) THEN Answer(r, t.id, "none")
             ELSE Answer(r, 0, "IDEMPOTENCY_CONFLICT")
    BY <1>4 DEF ReplayMessage
  <2>2. r.kind = "message" /\ ServerUnchanged /\ faults' \in 0..MaxFaults /\ t.id \in Nat
    BY <1>0, <1>4, RequestsAssumption DEF ReplayMessage, TypeOK, TaskRow, TaskIds
  <2>3. t.key = r.key
    <3>1. PICK u \in tasks : u.id = t.id /\ u.key = r.key
      BY <2>1, <2>2, ReplayedIs
    <3>2. QED
      BY <3>1 DEF RequestsInv, RowsOK
  <2>4. SameBody(t, r)
    <3>1. Body(t) \in Sent /\ Body(r) \in Sent /\ Body(t).key = Body(r).key
      BY <2>2, <2>3 DEF Sent, Body
    <3>2. Body(t) = Body(r)
      BY <3>1 DEF RequestsInv, OneBodyPerKey
    <3>3. QED
      BY <3>2 DEF Body, SameBody
  <2>5. QED
    BY <2>1, <2>2, <2>3, <2>4, ReplyKeeps
<1>5. CASE CreateTask(r)
  BY <1>5, CreateTaskKeeps
<1>6. CASE RejectMessage(r) \/ Limit(r)
  <2>1. PICK e \in {"VERSION_CONFLICT", "PROFILE_BUSY", "RATE_LIMITED"} : Answer(r, 0, e)
    BY <1>6 DEF RejectMessage, Limit
  <2>2. ServerUnchanged /\ e \in Errors /\ faults' \in 0..MaxFaults
    BY <1>0, <1>6, <2>1, FaultCounts DEF RejectMessage, Limit, Errors, TypeOK
  <2>3. QED
    BY <2>1, <2>2, ReplyKeeps
<1>7. QED
  BY <1>1, <1>2, <1>3, <1>4, <1>5, <1>6 DEF Handle

(* The end of a task changes its status only, and raises the version if it *)
(* succeeds.                                                               *)
LEMMA EndTaskKeeps ==
  ASSUME RequestsInv, NEW t \in tasks, EndTask(t)
  PROVE  RequestsInv'
<1>1. PICK s \in {"succeeded", "failed"} :
        /\ tasks' = (tasks \ {t}) \cup {[t EXCEPT !.status = s]}
        /\ s = "succeeded" => /\ profile[t.profile] = t.base
                              /\ profile' = [profile EXCEPT ![t.profile] = @ + 1]
        /\ s = "failed" => profile' = profile
  BY DEF EndTask
<1> DEFINE u == [t EXCEPT !.status = s]
<1>2. t \in TaskRow /\ t.status = "active" /\ profile \in [Profiles -> Nat] /\ tasks \subseteq TaskRow
  BY DEF EndTask, RequestsInv, TypeOK
<1>3. /\ u \in TaskRow /\ Body(u) = Body(t) /\ u.key = t.key /\ u.text = t.text /\ u.id = t.id
      /\ u.status = s /\ u.base = t.base /\ u.profile = t.profile
  BY <1>2 DEF TaskRow, Body
<1>4. profile' \in [Profiles -> Nat] /\ UNCHANGED <<tab, wire, answers, rows, faults>>
  BY <1>2 DEF EndTask, TaskRow
<1>5. tasks' = (tasks \ {t}) \cup {u}
  BY <1>1
<1> HIDE DEF u
<1>6. TypeOK'
  BY <1>3, <1>4, <1>5 DEF RequestsInv, TypeOK
<1>7. RowsOK'
  BY <1>3, <1>4, <1>5 DEF RequestsInv, RowsOK
<1>8. TasksOK'
  <2>1. \A p \in Profiles : profile[p] <= profile'[p]
    BY <1>1, <1>2 DEF TaskRow
  <2>2. ASSUME NEW v \in tasks', v.status = "succeeded" PROVE v.base < profile'[v.profile]
    <3>1. CASE v = u
      <4>1. t.profile \in Profiles /\ t.base \in Nat
        BY <1>2 DEF TaskRow
      <4>2. profile'[t.profile] = t.base + 1
        BY <1>1, <1>2, <1>3, <2>2, <3>1, <4>1
      <4>3. QED
        BY <1>3, <3>1, <4>1, <4>2
    <3>2. CASE v \in tasks
      <4>1. v.base < profile[v.profile] /\ v.profile \in Profiles /\ v.base \in Nat
        BY <1>2, <2>2, <3>2 DEF RequestsInv, TasksOK, TaskRow
      <4>2. profile[v.profile] \in Nat /\ profile'[v.profile] \in Nat
        BY <1>2, <1>4, <4>1
      <4>3. QED
        BY <2>1, <4>1, <4>2
    <3>3. QED
      BY <1>5, <3>1, <3>2
  <2>3. ASSUME NEW v \in tasks', NEW w \in tasks', v.key = w.key, v # w
        PROVE  v.status = "failed" \/ w.status = "failed"
    BY <1>2, <1>3, <1>5, <2>3 DEF RequestsInv, TasksOK
  <2>4. QED
    BY <2>2, <2>3 DEF TasksOK
<1>9. Sent' \subseteq Sent
  BY <1>3, <1>4, <1>5 DEF Sent
<1>10. QED
  BY <1>3, <1>4, <1>5, <1>6, <1>7, <1>8, <1>9, ServerKeeps

LEMMA EditElsewhereKeeps ==
  ASSUME RequestsInv, NEW p \in Profiles, EditElsewhere(p)
  PROVE  RequestsInv'
<1>1. /\ profile \in [Profiles -> Nat] /\ profile' = [profile EXCEPT ![p] = profile[p] + 1]
      /\ UNCHANGED <<tab, wire, answers, tasks, rows, faults>> /\ tasks \subseteq TaskRow
  BY DEF EditElsewhere, RequestsInv, TypeOK
<1>2. profile' \in [Profiles -> Nat] /\ \A q \in Profiles : profile[q] <= profile'[q]
  BY <1>1
<1>3. TypeOK' /\ RowsOK'
  BY <1>1, <1>2 DEF RequestsInv, TypeOK, RowsOK
<1>4. TasksOK'
  <2>1. ASSUME NEW t \in tasks, t.status = "succeeded" PROVE t.base < profile'[t.profile]
    <3>1. t.base < profile[t.profile] /\ t.profile \in Profiles /\ t.base \in Nat
      BY <1>1, <2>1 DEF RequestsInv, TasksOK, TaskRow
    <3>2. profile[t.profile] \in Nat /\ profile'[t.profile] \in Nat
      BY <1>1, <1>2, <3>1
    <3>3. QED
      BY <1>2, <3>1, <3>2
  <2>2. QED
    BY <1>1, <2>1 DEF RequestsInv, TasksOK
<1>5. Sent' \subseteq Sent
  BY <1>1 DEF Sent
<1>6. QED
  BY <1>1, <1>3, <1>4, <1>5, ServerKeeps

(* A key that has run out is forgotten; its task, and what was sent under  *)
(* it, is not.                                                             *)
LEMMA ExpireKeeps ==
  ASSUME RequestsInv, NEW row \in rows, Expire(row)
  PROVE  RequestsInv'
<1>1. /\ UNCHANGED <<tab, wire, answers, profile, tasks>> /\ rows' \subseteq rows
      /\ faults' \in 0..MaxFaults
  BY FaultCounts DEF Expire, RequestsInv
<1>2. TypeOK' /\ RowsOK' /\ TasksOK'
  BY <1>1 DEF RequestsInv, TypeOK, RowsOK, TasksOK
<1>3. Sent' \subseteq Sent
  BY <1>1 DEF Sent
<1>4. QED
  BY <1>1, <1>2, <1>3, ServerKeeps

(*-------------------------------- Theorems ------------------------------*)

LEMMA InitRequests == Init => RequestsInv
<1> SUFFICES ASSUME Init PROVE RequestsInv
  OBVIOUS
<1>1. /\ tab \in Tab /\ tab.op = NoOperation /\ tab.wait = "no" /\ tab.acked = {}
      /\ tab.shown = "none" /\ tab.keys = 0
  <2>1. /\ NoOperation \in Operation /\ 0 \in 0..MaxKeys /\ 0 \in 0..MaxTries
        /\ 0 \in 0..MaxProfiles /\ 0 \in 0..MaxTasks
    BY RequestsAssumption DEF NoOperation, Operation
  <2>2. QED
    BY <2>1 DEF Init, Tab
<1>2. TypeOK
  BY <1>1, RequestsAssumption DEF Init, TypeOK
<1>3. OperationOK(tab)
  BY <1>1 DEF OperationOK, NoOperation
<1>4. Sent = {}
  BY DEF Init, Sent
<1>5. QED
  BY <1>1, <1>2, <1>3, <1>4 DEF Init, RequestsInv, WaitOK, AnswersOK, OneBodyPerKey, ShownOK,
     RowsOK, TasksOK, AcceptedIsSubmitted

LEMMA NextRequests == RequestsInv /\ [Next]_vars => RequestsInv'
<1> SUFFICES ASSUME RequestsInv, [Next]_vars PROVE RequestsInv'
  OBVIOUS
<1>1. CASE Page
  BY <1>1, SubmitKeeps, GiveUpKeeps, ContinueKeeps, AcceptKeeps, RefuseKeeps DEF Page
<1>2. CASE Dismiss \/ Leave \/ \E text \in Text : EditForm(text)
  BY <1>2, FormKeeps
<1>3. CASE (\E r \in wire : LoseRequest(r)) \/ (\E a \in answers : LoseAnswer(a))
  BY <1>3, LossKeeps
<1>4. CASE \E r \in wire : Handle(r) \/ Limit(r)
  BY <1>4, HandleKeeps
<1>5. CASE \E t \in tasks : EndTask(t)
  BY <1>5, EndTaskKeeps
<1>6. CASE (\E p \in Profiles : EditElsewhere(p)) \/ (\E row \in rows : Expire(row))
  BY <1>6, EditElsewhereKeeps, ExpireKeeps
<1>7. CASE UNCHANGED vars
  <2>1. TypeOK' /\ RowsOK' /\ TasksOK' /\ Sent' \subseteq Sent
    BY <1>7 DEF vars, RequestsInv, TypeOK, RowsOK, TasksOK, Sent
  <2>2. QED
    BY <1>7, <2>1, ServerKeeps DEF vars
<1>8. QED
  BY <1>1, <1>2, <1>3, <1>4, <1>5, <1>6, <1>7 DEF Next

LEMMA RequestsInvHolds == Spec => []RequestsInv
  BY InitRequests, NextRequests, PTL DEF Spec

(* Every page, request, answer and task is well-formed.                    *)
THEOREM RequestsTyped == Spec => []TypeOK
<1>1. RequestsInv => TypeOK
  BY DEF RequestsInv
<1>2. QED
  BY <1>1, RequestsInvHolds, PTL

(* However many requests of a click reach the server, and however late:    *)
(* while its key is kept there is one task of it, and after the 24 hours a *)
(* retry creates another only if all before it have failed.                *)
THEOREM OneTask == Spec => []OneTaskPerOperation
<1>1. RequestsInv => OneTaskPerOperation
  <2> SUFFICES ASSUME RequestsInv, NEW t \in tasks, NEW u \in tasks, t.key = u.key, t # u
               PROVE  /\ t.status = "failed" \/ u.status = "failed"
                      /\ ~(Remembered(t) /\ Remembered(u))
    BY DEF OneTaskPerOperation
  <2>1. ~(Remembered(t) /\ Remembered(u))
    BY DEF Remembered, RequestsInv, RowsOK
  <2>2. QED
    BY <2>1 DEF RequestsInv, TasksOK
<1>2. QED
  BY <1>1, RequestsInvHolds, PTL

(* useAction freezes the body with the key, so no retry is ever refused as *)
(* another request under a used key.                                       *)
THEOREM RetriesFit == Spec => []NoKeyConflict
<1>1. RequestsInv => NoKeyConflict
  BY DEF RequestsInv, ShownOK, AnswersOK, AnswerOK, NoKeyConflict
<1>2. QED
  BY <1>1, RequestsInvHolds, PTL

(* An accepted message is a task about the text that was submitted, also   *)
(* when the answer belongs to an earlier try of the operation.             *)
THEOREM AcceptedTaskFits == Spec => []AcceptedIsSubmitted
<1>1. RequestsInv => AcceptedIsSubmitted
  BY DEF RequestsInv
<1>2. QED
  BY <1>1, RequestsInvHolds, PTL
=============================================================================
