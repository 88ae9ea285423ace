--------------------------- MODULE JobWorkersProofs -------------------------
(***************************************************************************)
(* Proofs about the worker processes, for any number of workers, tasks and *)
(* items, and any crashes, shutdowns and database errors at any moment.    *)
(*                                                                         *)
(* Every step of a worker is a step the store admits, so what holds of the *)
(* store holds here.  The rest follows what a coroutine knows: which items *)
(* were settled, which scores were saved, when it was told so.  All that   *)
(* stays true while the session is there, because nothing takes back a     *)
(* settled item or a score; and an item it found without a score can only  *)
(* have got one from the claim the coroutine itself holds.                 *)
(***************************************************************************)
EXTENDS JobWorkers, JobStoreProofs


(*------------------------------ Coroutine rows --------------------------*)

AtWork(row) == row.pc \in {"call", "model"}
ItemOps == {"start_item", "save_score", "finish_item_report", "finish_item_error"}

(* A row that a coroutine may have once it holds a lease.                  *)
Typed(row) ==
  /\ row \in WorkerRow
  /\ AtWork(row) => row.token \in Attempt
  /\ row.pc = "model" /\ Kind[row.task] = "diagnosis" => row.score \in Attempt
SameLease(row, next) == next.task = row.task /\ next.token = row.token

LEMMA OneOfEach == (CHOOSE t \in Task : TRUE) \in Task /\ (CHOOSE i \in Item : TRUE) \in Item
  BY WorkersAssumption

LEMMA RestingTyped == Resting \in WorkerRow /\ Leave \in WorkerRow /\ ~AtWork(Resting) /\ ~AtWork(Leave)
<1>1. Call("load") \in Calls
  BY DEF Call, Calls, TaskCall
<1>2. Resting \in WorkerRow
  BY <1>1, OneOfEach, ConstantsAssumption DEF Resting, WorkerRow
<1>3. QED
  BY <1>2 DEF Leave, Resting, WorkerRow, AtWork

LEMMA CallsTyped ==
  /\ \A op \in {"load", "finish", "commit_result", "fail"} : Call(op) \in Calls /\ Call(op).op = op
  /\ \A op \in {"start_item", "save_score", "finish_item_error"}, i \in Item :
       ItemOp(op, i) \in Calls /\ ItemOp(op, i).op = op /\ ItemOp(op, i).item = i
  /\ \A i \in Item, k \in Attempt :
       [op |-> "finish_item_report", item |-> i, from |-> k] \in Calls
  BY DEF Call, ItemOp, Calls, TaskCall, ItemCall

LEMMA IssueTyped ==
  ASSUME NEW row \in WorkerRow, NEW call \in Calls
  PROVE  /\ Issue(row, call) \in WorkerRow /\ SameLease(row, Issue(row, call))
         /\ Issue(row, call).pc = "call" /\ Issue(row, call).call = call
         /\ Issue(row, call).todo = row.todo /\ Issue(row, call).loaded = row.loaded
         /\ Issue(row, call).item = row.item
  BY DEF Issue, WorkerRow, SameLease

(* The operations a call may ask for.                                      *)
LEMMA CallOps ==
  ASSUME NEW call \in Calls
  PROVE  /\ call.op \in ItemOps \cup {"load", "finish", "commit_result", "fail"}
         /\ call.op \in ItemOps => call.item \in Item
         /\ call.op = "finish_item_report" => call.from \in Attempt
  BY DEF Calls, ItemCall, TaskCall, ItemOps

(* The head of the loop: the summary, the next item from its start, or its *)
(* report from the score that was loaded.                                  *)
Onward(row, next) ==
  /\ next \in WorkerRow /\ SameLease(row, next) /\ AtWork(next) /\ next.loaded = row.loaded
  /\ \/ row.todo = {} /\ next.todo = {} /\ next.pc = "call" /\ next.call.op = "finish"
     \/ \E i \in row.todo :
          /\ next.item = i /\ next.todo = row.todo \ {i}
          /\ \/ row.loaded[i] = 0 /\ next.pc = "call" /\ next.call = ItemOp("start_item", i)
             \/ row.loaded[i] # 0 /\ next.pc = "model" /\ next.score = row.loaded[i]

LEMMA NextItemOnward ==
  ASSUME NEW row \in WorkerRow, NEW next \in NextItem(row)
  PROVE  Onward(row, next)
<1>1. CASE row.todo = {}
  <2>1. next = Issue(row, Call("finish"))
    BY <1>1 DEF NextItem
  <2>2. Call("finish") \in Calls /\ Call("finish").op = "finish"
    BY CallsTyped
  <2>3. QED
    BY <1>1, <2>1, <2>2, IssueTyped DEF Onward, AtWork
<1>2. CASE row.todo # {}
  <2>1. PICK i \in row.todo : \E at :
          /\ at = [row EXCEPT !.item = i, !.todo = row.todo \ {i}]
          /\ next = IF row.loaded[i] = 0 THEN Issue(at, ItemOp("start_item", i))
                    ELSE [at EXCEPT !.pc = "model", !.score = row.loaded[i]]
    BY <1>2, ZenonT(60) DEF NextItem
  <2>0. PICK at :
          /\ at = [row EXCEPT !.item = i, !.todo = row.todo \ {i}]
          /\ next = IF row.loaded[i] = 0 THEN Issue(at, ItemOp("start_item", i))
                    ELSE [at EXCEPT !.pc = "model", !.score = row.loaded[i]]
    BY <2>1
  <2>2. i \in Item /\ row.loaded[i] \in 0..MAX_ATTEMPTS
    BY DEF WorkerRow
  <2>3. /\ at \in WorkerRow /\ SameLease(row, at) /\ at.loaded = row.loaded
        /\ at.item = i /\ at.todo = row.todo \ {i}
    BY <2>0, <2>2 DEF WorkerRow, SameLease
  <2>4. CASE row.loaded[i] = 0
    <3>1. PICK call \in Calls : call = ItemOp("start_item", i)
      BY <2>2, CallsTyped
    <3>2. next = Issue(at, call)
      BY <2>0, <2>4, <3>1
    <3>3. /\ next \in WorkerRow /\ SameLease(at, next) /\ next.loaded = at.loaded
          /\ next.item = at.item /\ next.todo = at.todo
          /\ next.pc = "call" /\ next.call = call
      BY <2>3, <3>2, IssueTyped
    <3>4. QED
      BY <2>3, <2>4, <3>1, <3>3 DEF Onward, AtWork, SameLease
  <2>5. CASE row.loaded[i] # 0
    <3>1. next = [at EXCEPT !.pc = "model", !.score = row.loaded[i]]
      BY <2>0, <2>5
    <3>2. /\ next \in WorkerRow /\ SameLease(at, next) /\ next.loaded = at.loaded
          /\ next.item = at.item /\ next.todo = at.todo
          /\ next.pc = "model" /\ next.score = row.loaded[i]
      BY <2>2, <2>3, <3>1 DEF WorkerRow, SameLease
    <3>3. QED
      BY <2>3, <2>5, <3>2 DEF Onward, AtWork, SameLease
  <2>6. QED
    BY <2>4, <2>5, SMTT(60)
<1>3. QED
  BY <1>1, <1>2

(* What the loop goes on with after a snapshot was loaded.                 *)
Snapshot(row, rows, jobs) ==
  [row EXCEPT !.todo = {i \in jobs : ~Settled(rows[i])},
              !.loaded = [i \in Item |-> rows[i].score]]

LEMMA SnapshotTyped ==
  ASSUME NEW row \in WorkerRow, NEW rows \in [Item -> ItemRow], NEW jobs \in SUBSET Item
  PROVE  /\ Snapshot(row, rows, jobs) \in WorkerRow
         /\ SameLease(row, Snapshot(row, rows, jobs))
         /\ Snapshot(row, rows, jobs).todo = {i \in jobs : ~Settled(rows[i])}
         /\ \A i \in Item : Snapshot(row, rows, jobs).loaded[i] = rows[i].score
<1>1. \A i \in Item : rows[i].score \in 0..MAX_ATTEMPTS
  BY DEF ItemRow
<1>2. PICK todo \in SUBSET Item : todo = {i \in jobs : ~Settled(rows[i])}
  OBVIOUS
<1>3. PICK loaded \in [Item -> 0..MAX_ATTEMPTS] : loaded = [i \in Item |-> rows[i].score]
  BY <1>1
<1>4. PICK after : after = [row EXCEPT !.todo = todo, !.loaded = loaded]
  OBVIOUS
<1>5. Snapshot(row, rows, jobs) = after
  BY <1>2, <1>3, <1>4 DEF Snapshot
<1>6. after \in WorkerRow /\ SameLease(row, after) /\ after.todo = todo /\ after.loaded = loaded
  BY <1>4 DEF WorkerRow, SameLease
<1>7. \A i \in Item : loaded[i] = rows[i].score
  BY <1>3
<1>8. QED
  BY <1>2, <1>5, <1>6, <1>7

(* What a coroutine does when its call returns.                            *)
GoesOn(row, next) ==
  \/ /\ row.call.op = "load" /\ Kind[row.task] = "diagnosis"
     /\ Onward(Snapshot(row, item[row.task], Jobs[row.task]), next)
  \/ /\ row.call.op = "load" /\ Kind[row.task] # "diagnosis" /\ next.pc = "model"
  \/ /\ row.call.op = "start_item" /\ next.pc = "call" /\ next.todo = row.todo
     /\ next.loaded = row.loaded /\ next.item = row.item
     /\ next.call.op \in {"save_score", "finish_item_error"} /\ next.call.item = row.item
  \/ /\ row.call.op = "save_score" /\ next.pc = "model" /\ next.score = row.token
     /\ next.todo = row.todo /\ next.loaded = row.loaded /\ next.item = row.item
  \/ row.call.op \in {"finish_item_report", "finish_item_error"} /\ Onward(row, next)

LEMMA ReturnedGoesOn ==
  ASSUME TypeOK, NEW row \in WorkerRow, row.pc = "call", row.token \in Attempt,
         NEW next \in Returned(row)
  PROVE  \/ next = Leave /\ row.call.op \in {"finish", "commit_result", "fail"}
         \/ next \in WorkerRow /\ SameLease(row, next) /\ AtWork(next) /\ GoesOn(row, next)
<1> USE DEF AtWork
<1>0. /\ row.task \in Task /\ row.item \in Item /\ row.call \in Calls
      /\ item[row.task] \in [Item -> ItemRow] /\ Jobs[row.task] \in SUBSET Item
  BY ConstantsAssumption, SMTT(60) DEF WorkerRow, TypeOK
<1>1. CASE row.call.op = "load" /\ Kind[row.task] = "diagnosis"
  <2>1. PICK at : at = Snapshot(row, item[row.task], Jobs[row.task])
    OBVIOUS
  <2>2. next \in NextItem(at)
    BY <1>1, <2>1 DEF Returned, Snapshot, Unsettled
  <2>3. at \in WorkerRow /\ SameLease(row, at)
    BY <1>0, <2>1, SnapshotTyped
  <2>4. Onward(at, next)
    BY <2>2, <2>3, NextItemOnward
  <2>5. QED
    BY <1>1, <2>1, <2>3, <2>4, ZenonT(60) DEF GoesOn, Onward, SameLease
<1>2. CASE row.call.op = "load" /\ Kind[row.task] # "diagnosis"
  <2>1. next = [row EXCEPT !.pc = "model"]
    BY <1>2 DEF Returned
  <2>2. QED
    BY <1>2, <2>1 DEF GoesOn, SameLease, WorkerRow
<1>3. CASE row.call.op = "start_item"
  <2>1. PICK op \in {"save_score", "finish_item_error"} : next = Issue(row, ItemOp(op, row.item))
    BY <1>3 DEF Returned
  <2>2. PICK call \in Calls : call = ItemOp(op, row.item) /\ call.op = op /\ call.item = row.item
    BY <1>0, CallsTyped
  <2>3. QED
    BY <1>3, <2>1, <2>2, IssueTyped DEF GoesOn
<1>4. CASE row.call.op = "save_score"
  <2>1. next = [row EXCEPT !.pc = "model", !.score = row.token]
    BY <1>4 DEF Returned
  <2>2. QED
    BY <1>4, <2>1, ConstantsAssumption DEF GoesOn, SameLease, WorkerRow, Attempt
<1>5. CASE row.call.op \in {"finish_item_report", "finish_item_error"}
  <2>1. next \in NextItem(row)
    BY <1>5 DEF Returned
  <2>2. Onward(row, next)
    BY <2>1, NextItemOnward
  <2>3. QED
    BY <1>5, <2>2 DEF GoesOn, Onward
<1>6. CASE row.call.op \in {"finish", "commit_result", "fail"}
  BY <1>6 DEF Returned
<1>7. QED
  BY <1>0, <1>1, <1>2, <1>3, <1>4, <1>5, <1>6, CallOps DEF ItemOps

(* What it does when the call raised, when the model answered, and when    *)
(* its work is cut short.                                                  *)
Fails(row, next) ==
  /\ next.pc = "call" /\ next.call.op = "fail" /\ next.todo = row.todo
  /\ next.loaded = row.loaded /\ next.item = row.item
GivesUpItem(row, next) ==
  /\ next.pc = "call" /\ next.call.op = "finish_item_error" /\ next.call.item = row.item
  /\ next.todo = row.todo /\ next.loaded = row.loaded /\ next.item = row.item

LEMMA FailIssued ==
  ASSUME NEW row \in WorkerRow
  PROVE  /\ Issue(row, Call("fail")) \in WorkerRow /\ SameLease(row, Issue(row, Call("fail")))
         /\ Fails(row, Issue(row, Call("fail")))
<1>1. PICK call \in Calls : call = Call("fail") /\ call.op = "fail"
  BY CallsTyped
<1>2. QED
  BY <1>1, IssueTyped DEF Fails

LEMMA RaisedFails ==
  ASSUME NEW row \in WorkerRow, NEW next, next = Raised(row)
  PROVE  \/ next = Leave /\ row.call.op = "fail"
         \/ /\ next \in WorkerRow /\ SameLease(row, next)
            /\ \/ Fails(row, next)
               \/ GivesUpItem(row, next)
                  /\ row.call.op \in {"start_item", "save_score", "finish_item_report"}
<1>1. CASE row.call.op \in {"start_item", "save_score", "finish_item_report"}
  <2>1. PICK call \in Calls : /\ call = ItemOp("finish_item_error", row.item)
                              /\ call.op = "finish_item_error" /\ call.item = row.item
    BY CallsTyped DEF WorkerRow
  <2>2. next = Issue(row, call)
    BY <1>1, <2>1 DEF Raised
  <2>3. QED
    BY <1>1, <2>1, <2>2, IssueTyped DEF GivesUpItem
<1>2. CASE row.call.op = "fail"
  BY <1>2 DEF Raised
<1>3. CASE row.call.op \notin {"start_item", "save_score", "finish_item_report", "fail"}
  <2>1. next = Issue(row, Call("fail"))
    BY <1>3 DEF Raised
  <2>2. QED
    BY <2>1, FailIssued
<1>4. QED
  BY <1>1, <1>2, <1>3

(*------------------------- What a coroutine knows -----------------------*)

There(t) == session[Owner[t]] # "gone"

(* What the sender of a call knows of the items the call is about.         *)
Justified(call, rows, jobs) ==
  /\ call.op = "finish_item_report" =>
       Settled(rows[call.item]) \/ rows[call.item].score = call.from
  /\ call.op = "finish" => \A i \in jobs : Settled(rows[i])

(* The coroutine has loaded its snapshot; it is at work on one item.       *)
OnItem(row) == row.pc = "model" \/ row.call.op \in ItemOps
Loaded(row) == OnItem(row) \/ row.call.op = "finish"

(* The scores it loaded are the scores there are, and an item that had     *)
(* none can have got one from its own claim only.                          *)
ScoresKnown(row, rows, token) ==
  /\ \A i \in Item : row.loaded[i] # 0 => rows[i].score = row.loaded[i]
  /\ row.token = token => \A i \in Item : row.loaded[i] = 0 => rows[i].score \in {0, token}

(* Behind it all items are settled, but for the one in hand.               *)
Informed(row, rows, token, jobs) ==
  /\ ScoresKnown(row, rows, token)
  /\ \A i \in jobs \ row.todo : Settled(rows[i]) \/ (OnItem(row) /\ i = row.item)
  /\ row.pc = "model" => Settled(rows[row.item]) \/ rows[row.item].score = row.score
  /\ row.pc = "call" /\ row.call.op \in ItemOps => row.call.item = row.item
  /\ row.pc = "call" /\ row.call.op \in {"start_item", "save_score"} => row.loaded[row.item] = 0

Working(row, rows, token, t) ==
  /\ row.token <= token
  /\ row.pc = "call" => Justified(row.call, rows, Jobs[t])
  /\ Kind[t] = "diagnosis" /\ Loaded(row) => Informed(row, rows, token, Jobs[t])

(* Items only settle, and only the latest claim scores them.               *)
Evolves(rows, after, token) ==
  \A i \in Item :
    /\ Settled(rows[i]) => after[i] = rows[i]
    /\ rows[i].score # 0 => after[i].score = rows[i].score
    /\ rows[i].score = 0 => after[i].score \in {0, token}

LEMMA JustifiedStays ==
  ASSUME NEW rows, NEW after, NEW token, Evolves(rows, after, token),
         NEW call \in Calls, NEW jobs \in SUBSET Item, Justified(call, rows, jobs)
  PROVE  Justified(call, after, jobs)
<1>1. call.op = "finish_item_report" => call.item \in Item /\ call.from # 0
  BY CallOps DEF ItemOps, Attempt
<1>2. QED
  BY <1>1 DEF Justified, Evolves

LEMMA WorkingStays ==
  ASSUME NEW row, Typed(row), NEW t \in Task, row.task = t, NEW rows, NEW after,
         NEW token \in Nat, NEW later \in Nat, token <= later,
         Evolves(rows, after, token), Working(row, rows, token, t)
  PROVE  Working(row, after, later, t)
<1>1. Jobs[t] \in SUBSET Item /\ row.call \in Calls /\ row.token \in Nat /\ row.item \in Item
  BY ConstantsAssumption DEF Typed, WorkerRow
<1>2. row.pc = "call" => Justified(row.call, after, Jobs[t])
  BY <1>1, JustifiedStays DEF Working
<1>3. row.token <= later /\ row.token <= token
  BY <1>1 DEF Working
<1>4. ASSUME Kind[t] = "diagnosis", Informed(row, rows, token, Jobs[t])
      PROVE  Informed(row, after, later, Jobs[t])
  <2>1. row.token = later => token = row.token
    BY <1>1, <1>3
  <2>2. ScoresKnown(row, after, later)
    BY <1>4, <2>1 DEF Informed, ScoresKnown, Evolves
  <2>3. \A i \in Jobs[t] \ row.todo : Settled(after[i]) \/ (OnItem(row) /\ i = row.item)
    BY <1>1, <1>4 DEF Informed, Evolves
  <2>4. row.pc = "model" => Settled(after[row.item]) \/ after[row.item].score = row.score
    <3>1. row.pc = "model" => row.score # 0
      BY <1>4 DEF Typed, Attempt
    <3>2. QED
      BY <1>1, <1>4, <3>1 DEF Informed, Evolves
  <2>5. /\ row.pc = "call" /\ row.call.op \in ItemOps => row.call.item = row.item
        /\ row.pc = "call" /\ row.call.op \in {"start_item", "save_score"} => row.loaded[row.item] = 0
    BY <1>4 DEF Informed
  <2>6. QED
    BY <2>2, <2>3, <2>4, <2>5, Zenon DEF Informed
<1>5. QED
  BY <1>2, <1>3, <1>4 DEF Working

(* The loop goes on when all it has behind it is settled.                  *)
LEMMA OnwardWorks ==
  ASSUME NEW row \in WorkerRow, NEW t \in Task, NEW rows, NEW token, NEW next,
         row.token <= token, ScoresKnown(row, rows, token),
         \A i \in Jobs[t] \ row.todo : Settled(rows[i]), Onward(row, next)
  PROVE  Working(next, rows, token, t)
<1>1. /\ next \in WorkerRow /\ next.token = row.token /\ next.loaded = row.loaded
      /\ row.todo \subseteq Item /\ Jobs[t] \subseteq Item
  BY ConstantsAssumption DEF Onward, SameLease, WorkerRow
<1>2. ScoresKnown(next, rows, token)
  BY <1>1 DEF ScoresKnown
<1>3. CASE next.pc = "call" /\ next.call.op = "finish" /\ row.todo = {} /\ next.todo = {}
  BY <1>1, <1>2, <1>3 DEF Working, Justified, Informed, OnItem, ItemOps
<1>4. ASSUME NEW i \in row.todo, next.item = i, next.todo = row.todo \ {i},
             row.loaded[i] = 0, next.pc = "call", next.call = ItemOp("start_item", i)
      PROVE  Working(next, rows, token, t)
  <2>1. next.call.op = "start_item" /\ next.call.item = i
    BY <1>4 DEF ItemOp
  <2>2. OnItem(next)
    BY <2>1 DEF OnItem, ItemOps
  <2>3. Informed(next, rows, token, Jobs[t])
    BY <1>1, <1>2, <1>4, <2>1, <2>2 DEF Informed
  <2>4. QED
    BY <1>1, <2>1, <2>3 DEF Working, Justified
<1>5. ASSUME NEW i \in row.todo, next.item = i, next.todo = row.todo \ {i},
             row.loaded[i] # 0, next.pc = "model", next.score = row.loaded[i]
      PROVE  Working(next, rows, token, t)
  <2>1. OnItem(next) /\ rows[i].score = next.score /\ next.score # 0
    BY <1>1, <1>5 DEF OnItem, ScoresKnown
  <2>2. Informed(next, rows, token, Jobs[t])
    BY <1>1, <1>2, <1>5, <2>1 DEF Informed
  <2>3. QED
    BY <1>1, <1>5, <2>2 DEF Working
<1>6. QED
  BY <1>3, <1>4, <1>5 DEF Onward

LEMMA FailsWorks ==
  ASSUME NEW row, NEW next, NEW rows, NEW token, NEW t,
         row.token <= token, SameLease(row, next), Fails(row, next)
  PROVE  Working(next, rows, token, t)
  BY DEF Fails, SameLease, Working, Justified, Loaded, OnItem, ItemOps

LEMMA GivesUpWorks ==
  ASSUME NEW row, NEW next, NEW rows, NEW token, NEW t,
         row.pc = "model" \/ (row.pc = "call" /\ row.call.op \in ItemOps),
         Working(row, rows, token, t), SameLease(row, next), GivesUpItem(row, next)
  PROVE  Working(next, rows, token, t)
<1>1. /\ next.token = row.token /\ next.loaded = row.loaded /\ next.todo = row.todo
      /\ next.item = row.item /\ next.pc = "call"
      /\ next.call.op = "finish_item_error" /\ next.call.item = row.item
  BY DEF SameLease, GivesUpItem
<1>2. OnItem(next) /\ OnItem(row) /\ Loaded(row)
  BY <1>1 DEF OnItem, Loaded, ItemOps
<1>3. Informed(row, rows, token, Jobs[t]) => Informed(next, rows, token, Jobs[t])
  BY <1>1, <1>2 DEF Informed, ScoresKnown
<1>4. QED
  BY <1>1, <1>2, <1>3 DEF Working, Justified

(* An answer is reported from the score at hand, or given up.              *)
LEMMA AnsweredWorks ==
  ASSUME NEW row, Typed(row), row.pc = "model", NEW next \in Answered(row),
         NEW rows, NEW token
  PROVE  /\ Typed(next) /\ SameLease(row, next) /\ next.pc = "call"
         /\ Working(row, rows, token, row.task) => Working(next, rows, token, row.task)
<1>1. row \in WorkerRow /\ row.token \in Attempt /\ row.item \in Item /\ row.task \in Task
  BY DEF Typed, AtWork, WorkerRow
<1>2. CASE Kind[row.task] = "diagnosis"
  <2>1. row.score \in Attempt /\ Loaded(row)
    BY <1>2 DEF Typed, Loaded, OnItem
  <2>2. PICK report \in Calls : report = [op |-> "finish_item_report", item |-> row.item, from |-> row.score]
    BY <1>1, <2>1, CallsTyped
  <2>3. PICK error \in Calls : /\ error = ItemOp("finish_item_error", row.item)
                               /\ error.op = "finish_item_error" /\ error.item = row.item
    BY <1>1, CallsTyped
  <2>4. next = Issue(row, report) \/ next = Issue(row, error)
    BY <1>2, <2>2, <2>3 DEF Answered
  <2>5. CASE next = Issue(row, report)
    <3>1. report.op = "finish_item_report" /\ report.item = row.item /\ report.from = row.score
      BY <2>2
    <3>2. /\ next \in WorkerRow /\ SameLease(row, next) /\ next.pc = "call" /\ next.call = report
          /\ next.todo = row.todo /\ next.loaded = row.loaded /\ next.item = row.item
      BY <1>1, <2>5, IssueTyped
    <3>3. OnItem(next)
      BY <3>1, <3>2 DEF OnItem, ItemOps
    <3>4. ASSUME Working(row, rows, token, row.task) PROVE Working(next, rows, token, row.task)
      <4>1. Informed(row, rows, token, Jobs[row.task]) /\ row.token <= token
        BY <1>2, <2>1, <3>4 DEF Working
      <4>2. Informed(next, rows, token, Jobs[row.task])
        BY <3>1, <3>2, <3>3, <4>1 DEF Informed, ScoresKnown, SameLease
      <4>3. Justified(report, rows, Jobs[row.task])
        BY <3>1, <4>1 DEF Informed, Justified
      <4>4. QED
        BY <3>2, <4>1, <4>2, <4>3 DEF Working, SameLease
    <3>5. QED
      BY <1>1, <3>2, <3>4 DEF Typed, SameLease
  <2>6. CASE next = Issue(row, error)
    <3>1. /\ next \in WorkerRow /\ SameLease(row, next) /\ next.pc = "call" /\ GivesUpItem(row, next)
      BY <1>1, <2>3, <2>6, IssueTyped DEF GivesUpItem
    <3>2. QED
      BY <1>1, <3>1, GivesUpWorks DEF Typed, SameLease
  <2>7. QED
    BY <2>4, <2>5, <2>6
<1>3. CASE Kind[row.task] # "diagnosis"
  <2>1. PICK call \in Calls : next = Issue(row, call) /\ call.op \in {"commit_result", "fail"}
    BY <1>3, CallsTyped DEF Answered
  <2>2. /\ next \in WorkerRow /\ SameLease(row, next) /\ next.pc = "call" /\ next.call = call
    BY <1>1, <2>1, IssueTyped
  <2>3. QED
    BY <1>1, <1>3, <2>1, <2>2 DEF Typed, SameLease, Working, Justified
<1>4. QED
  BY <1>2, <1>3

(* A call that returned did what it was for: its items are as it left them.*)
Done(row, rows) ==
  /\ row.call.op = "load" => rows = item[row.task]
  /\ row.call.op = "save_score" => Settled(rows[row.item]) \/ rows[row.item].score = row.token
  /\ row.call.op \in {"finish_item_report", "finish_item_error"} => Settled(rows[row.item])

LEMMA GoesOnWorks ==
  ASSUME TypeOK, NEW row, Typed(row), row.pc = "call", NEW next, next \in WorkerRow,
         SameLease(row, next), AtWork(next), GoesOn(row, next),
         row.call.op \in ItemOps => Kind[row.task] = "diagnosis"
  PROVE  /\ Typed(next)
         /\ \A rows : Working(row, rows, row.token, row.task) /\ Done(row, rows)
                        => Working(next, rows, row.token, row.task)
<1> DEFINE t == row.task
<1>0. /\ row \in WorkerRow /\ row.token \in Attempt /\ row.token \in Nat /\ row.item \in Item
      /\ t \in Task /\ Jobs[t] \in SUBSET Item /\ next.task = t /\ next.token = row.token
      /\ item[t] \in [Item -> ItemRow] /\ row.loaded \in [Item -> 0..MAX_ATTEMPTS]
  BY ConstantsAssumption DEF Typed, AtWork, WorkerRow, SameLease, Attempt, TypeOK
<1>1. ASSUME NEW at \in WorkerRow, Onward(at, next), at.loaded \in [Item -> 0..MAX_ATTEMPTS]
      PROVE  Typed(next)
  <2>1. next.pc = "model" => next.score # 0
    BY <1>1 DEF Onward
  <2>2. next.score \in 0..MAX_ATTEMPTS
    BY DEF WorkerRow
  <2>3. QED
    BY <1>0, <2>1, <2>2, ConstantsAssumption DEF Typed, Attempt
<1>2. CASE row.call.op = "load" /\ Kind[t] = "diagnosis" /\ Onward(Snapshot(row, item[t], Jobs[t]), next)
  <2>1. PICK at : at = Snapshot(row, item[t], Jobs[t])
    OBVIOUS
  <2>2. /\ at \in WorkerRow /\ SameLease(row, at)
        /\ at.todo = {i \in Jobs[t] : ~Settled(item[t][i])}
        /\ \A i \in Item : at.loaded[i] = item[t][i].score
    BY <1>0, <2>1, SnapshotTyped
  <2>3. at.loaded \in [Item -> 0..MAX_ATTEMPTS]
    BY <2>2 DEF WorkerRow
  <2>4. ScoresKnown(at, item[t], row.token)
    BY <2>2 DEF ScoresKnown
  <2>5. at.token <= row.token
    BY <1>0, <2>2 DEF SameLease
  <2>6. Working(next, item[t], row.token, t)
    BY <1>0, <1>2, <2>1, <2>2, <2>4, <2>5, OnwardWorks
  <2>7. Typed(next)
    BY <1>1, <1>2, <2>1, <2>2, <2>3
  <2>8. QED
    BY <1>2, <2>6, <2>7 DEF Done
<1>3. CASE row.call.op = "load" /\ Kind[t] # "diagnosis" /\ next.pc = "model"
  BY <1>0, <1>3 DEF Typed, Working
<1>4. CASE /\ row.call.op = "start_item" /\ next.pc = "call" /\ next.todo = row.todo
           /\ next.loaded = row.loaded /\ next.item = row.item
           /\ next.call.op \in {"save_score", "finish_item_error"} /\ next.call.item = row.item
  <2>1. OnItem(row) /\ OnItem(next) /\ Loaded(row)
    BY <1>4 DEF OnItem, Loaded, ItemOps
  <2>2. ASSUME NEW rows, Working(row, rows, row.token, t) PROVE Working(next, rows, row.token, t)
    <3>1. Kind[t] = "diagnosis"
      BY <1>4 DEF ItemOps
    <3>2. Informed(row, rows, row.token, Jobs[t])
      BY <2>1, <2>2, <3>1 DEF Working
    <3>3. row.loaded[row.item] = 0
      BY <1>4, <3>2 DEF Informed
    <3>4. Informed(next, rows, row.token, Jobs[t])
      BY <1>0, <1>4, <2>1, <3>2, <3>3 DEF Informed, ScoresKnown
    <3>5. QED
      BY <1>0, <1>4, <3>4 DEF Working, Justified
  <2>3. QED
    BY <1>0, <1>4, <2>2 DEF Typed
<1>5. CASE /\ row.call.op = "save_score" /\ next.pc = "model" /\ next.score = row.token
           /\ next.todo = row.todo /\ next.loaded = row.loaded /\ next.item = row.item
  <2>1. OnItem(row) /\ OnItem(next) /\ Loaded(row)
    BY <1>5 DEF OnItem, Loaded, ItemOps
  <2>2. ASSUME NEW rows, Working(row, rows, row.token, t), Done(row, rows)
        PROVE  Working(next, rows, row.token, t)
    <3>1. Kind[t] = "diagnosis"
      BY <1>5 DEF ItemOps
    <3>2. Informed(row, rows, row.token, Jobs[t])
      BY <2>1, <2>2, <3>1 DEF Working
    <3>3. Settled(rows[next.item]) \/ rows[next.item].score = next.score
      BY <1>5, <2>2 DEF Done
    <3>4. Informed(next, rows, row.token, Jobs[t])
      BY <1>0, <1>5, <2>1, <3>2, <3>3 DEF Informed, ScoresKnown
    <3>5. QED
      BY <1>0, <1>5, <3>4 DEF Working
  <2>3. QED
    BY <1>0, <1>5, <2>2 DEF Typed
<1>6. CASE row.call.op \in {"finish_item_report", "finish_item_error"} /\ Onward(row, next)
  <2>1. OnItem(row) /\ Loaded(row)
    BY <1>6 DEF OnItem, Loaded, ItemOps
  <2>2. ASSUME NEW rows, Working(row, rows, row.token, t), Done(row, rows)
        PROVE  Working(next, rows, row.token, t)
    <3>1. Kind[t] = "diagnosis"
      BY <1>6 DEF ItemOps
    <3>2. Informed(row, rows, row.token, Jobs[t])
      BY <2>1, <2>2, <3>1 DEF Working
    <3>3. \A i \in Jobs[t] \ row.todo : Settled(rows[i])
      BY <1>6, <2>2, <3>2 DEF Informed, Done
    <3>4. ScoresKnown(row, rows, row.token)
      BY <3>2 DEF Informed
    <3>5. QED
      BY <1>0, <1>6, <3>3, <3>4, OnwardWorks
  <2>3. QED
    BY <1>0, <1>1, <1>6, <2>2
<1>7. QED
  BY <1>2, <1>3, <1>4, <1>5, <1>6 DEF GoesOn

(*--------------------- What the store does meanwhile --------------------*)

Knows(row) ==
  AtWork(row) /\ There(row.task) => Working(row, item[row.task], task[row.task].token, row.task)
KnowsAfter(row) ==
  AtWork(row) /\ session'[Owner[row.task]] # "gone" =>
    Working(row, item'[row.task], task'[row.task].token, row.task)

LEMMA StoreInvariant == RefinementInv /\ [Next]_vars => RefinementInv'
  BY NextLeaseInv, NextBlank, NextOutcome DEF RefinementInv, ResultsInv

LEMMA StoreTypes == RefinementInv => TypeOK /\ SafetyInv /\ LeaseInv /\ ResultsInv
  BY DEF RefinementInv, ResultsInv, LeaseInv, SafetyInv

LEMMA GoneForGood ==
  ASSUME RefinementInv, [Next]_vars, NEW t \in Task, session'[Owner[t]] # "gone"
  PROVE  There(t)
<1>1. CASE Acted(t)
  <2>1. session' = session
    BY <1>1 DEF Acted, CreateTask, Claim, Reap, Commit, Load, StartItem, SaveScore,
       FinishItemReport, FinishItemError, Finish, CommitResult, Fail, Ending
  <2>2. QED
    BY <2>1 DEF There
<1>2. CASE Erasing(t)
  BY <1>2 DEF Erasing
<1>3. CASE Calm(t)
  BY <1>3 DEF Calm, There
<1>4. QED
  BY <1>1, <1>2, <1>3, NextActs, StoreTypes DEF Acts

LEMMA StoreEvolves ==
  ASSUME RefinementInv, [Next]_vars, NEW t \in Task, session'[Owner[t]] # "gone"
  PROVE  /\ There(t) /\ Evolves(item[t], item'[t], task[t].token)
         /\ task[t].token \in Nat /\ task'[t].token \in Nat /\ task[t].token <= task'[t].token
<1>1. There(t)
  BY GoneForGood
<1>2. task[t] \in TaskRow /\ task'[t] \in TaskRow /\ task[t].token = task[t].attempt
  <2>1. RefinementInv'
    BY StoreInvariant
  <2>2. task'[t] \in TaskRow
    BY <2>1 DEF RefinementInv, ResultsInv, LeaseInv, SafetyInv, TypeOK
  <2>3. QED
    BY <2>2, StoreTypes DEF LeaseInv, TypeOK, TokenCurrent
<1>3. \A i \in Item : ItemKept(t, i)
  BY NextItems, StoreTypes DEF ItemGone, Erased
<1>4. Evolves(item[t], item'[t], task[t].token)
  BY <1>2, <1>3 DEF Evolves, ItemKept
<1>5. task[t].token <= task'[t].token
  <2>1. LeaseStep(t) /\ ~Forgotten(t)
    BY NextLease, StoreTypes DEF Forgotten
  <2>2. task[t].attempt \in Nat /\ (Created(t) => task[t].token = 0)
    BY <1>2, StoreTypes, ConstantsAssumption DEF TaskRow, LeaseInv, TokenCurrent, Created
  <2>3. QED
    BY <1>2, <2>1, <2>2 DEF LeaseStep, Created, Claimed, Renewed, Kept, SameClaim, TaskRow
<1>6. QED
  BY <1>1, <1>2, <1>4, <1>5, ConstantsAssumption DEF TaskRow

(* What a coroutine knows stays true whatever the store does.              *)
LEMMA KnowsStays ==
  ASSUME RefinementInv, [Next]_vars, NEW row, Typed(row), Knows(row)
  PROVE  KnowsAfter(row)
<1> SUFFICES ASSUME AtWork(row), session'[Owner[row.task]] # "gone"
             PROVE  Working(row, item'[row.task], task'[row.task].token, row.task)
  BY DEF KnowsAfter
<1>1. row.task \in Task
  BY DEF Typed, WorkerRow
<1>2. PICK t, rows, after, token, later :
        /\ t \in Task /\ t = row.task /\ rows = item[t] /\ after = item'[t]
        /\ token = task[t].token /\ later = task'[t].token
  BY <1>1
<1>3. /\ There(t) /\ Evolves(rows, after, token)
      /\ token \in Nat /\ later \in Nat /\ token <= later
  BY <1>2, StoreEvolves
<1>4. Working(row, rows, token, t)
  BY <1>2, <1>3 DEF Knows
<1>5. Working(row, after, later, t)
  BY <1>2, <1>3, <1>4, WorkingStays
<1>6. QED
  BY <1>2, <1>5
(***************************************************************************)
(*                       The workers are clients                           *)
(***************************************************************************)

CoroutinesOK == \A w \in Worker : Typed(worker[w]) /\ Knows(worker[w])

LEMMA CoroutineTyped ==
  ASSUME CoroutinesOK, NEW w \in Worker
  PROVE  /\ Typed(worker[w]) /\ Knows(worker[w]) /\ worker[w] \in WorkerRow
         /\ worker[w].task \in Task /\ worker[w].scan \subseteq Task /\ worker[w].call \in Calls
         /\ worker[w].pc = "call" \/ worker[w].pc = "model" => worker[w].token \in Attempt
<1>1. Typed(worker[w]) /\ Knows(worker[w])
  BY DEF CoroutinesOK
<1>2. QED
  BY <1>1 DEF Typed, AtWork, WorkerRow

(* Each action as what it does to the rows of the store.                   *)
LEMMA PollsOnStore ==
  ASSUME CoroutinesOK, NEW w \in Worker, Polls(w)
  PROVE  \/ UNCHANGED vars
         \/ \E t \in Task : /\ Claim(t) /\ LockCandidate(t) /\ TerminalReason(t) = "none"
                            /\ ClaimNext(w)
                            /\ \E row \in Started(t) : Become(w, row)
         \/ \E t \in Task : Reap(t)
<1>1. CASE Poll(w) \/ ReapDone(w) \/ NothingToClaim(w)
  BY <1>1 DEF Poll, ReapDone, NothingToClaim, Only
<1>2. First(worker[w].scan) \subseteq Task
  BY CoroutineTyped DEF First
<1>3. CASE ReapNext(w)
  BY <1>2, <1>3 DEF ReapNext
<1>4. CASE ClaimNext(w)
  BY <1>2, <1>4 DEF ClaimNext
<1>5. QED
  BY <1>1, <1>3, <1>4 DEF Polls

LEMMA AbandonsNothing ==
  ASSUME NEW w \in Worker, HeartbeatLost(w) \/ Timeout(w) \/ HeartbeatBreaks(w) \/ Shutdown(w) \/ Crash(w)
  PROVE  UNCHANGED vars
  BY DEF HeartbeatLost, Timeout, HeartbeatBreaks, Shutdown, Crash, Abandon

(* Every step of a worker, an orphan or the environment is a step of the   *)
(* store: a token and a call that pass the fence are ones it knows.        *)
LEMMA StepsOfStore ==
  ASSUME CoroutinesOK, orphans \subseteq [task : Task, token : Attempt, call : Calls],
         [WorkersNext]_allVars
  PROVE  [Next]_vars
<1>1. ASSUME NEW w \in Worker, Polls(w) PROVE [Next]_vars
  BY <1>1, PollsOnStore DEF Next
<1>2. ASSUME NEW w \in Worker, OpenCall(w) PROVE Next
  <2>1. worker[w].task \in Task /\ worker[w].token \in Attempt /\ worker[w].call \in Calls
    BY <1>2, CoroutineTyped DEF OpenCall
  <2>2. QED
    BY <1>2, <2>1 DEF OpenCall, Next
<1>3. ASSUME NEW w \in Worker, CallReturns(w) \/ CallLost(w) \/ CallRefused(w) \/ CallBreaks(w) PROVE Next
  <2>1. worker[w].task \in Task
    BY CoroutineTyped
  <2>2. Commit(worker[w].task) \/ Rollback(worker[w].task)
    BY <1>3 DEF CallReturns, CallLost, CallRefused, CallBreaks
  <2>3. QED
    BY <2>1, <2>2 DEF Next
<1>4. ASSUME NEW w \in Worker, FenceLost(w) \/ ModelAnswers(w) PROVE UNCHANGED vars
  BY <1>4 DEF FenceLost, ModelAnswers, Only
<1>5. ASSUME NEW w \in Worker, HeartbeatOk(w) PROVE Next
  <2>1. worker[w].task \in Task /\ worker[w].token \in Attempt
    BY <1>5, CoroutineTyped DEF HeartbeatOk, Beating, Executing
  <2>2. QED
    BY <1>5, <2>1 DEF HeartbeatOk, Next
<1>6. ASSUME NEW w \in Worker,
             HeartbeatLost(w) \/ Timeout(w) \/ HeartbeatBreaks(w) \/ Shutdown(w) \/ Crash(w)
      PROVE  UNCHANGED vars
  BY <1>6, AbandonsNothing
<1>7. ASSUME NEW o \in orphans, OrphanOpens(o) PROVE Next
  BY <1>7 DEF OrphanOpens, Next
<1>8. ASSUME NEW o \in orphans, OrphanDies(o) PROVE UNCHANGED vars
  BY <1>8 DEF OrphanDies
<1>9. ASSUME NEW t \in Task, UnawaitedEnds(t) PROVE Next
  BY <1>9 DEF UnawaitedEnds, Next
<1>10. CASE Environment
  BY <1>10 DEF Environment, Next
<1>11. CASE UNCHANGED allVars
  BY <1>11 DEF allVars, vars
<1>12. QED
  BY <1>1, <1>2, <1>3, <1>4, <1>5, <1>6, <1>7, <1>8, <1>9, <1>10, <1>11 DEF WorkersNext, Works

(*--------------------------- Calls that are open ------------------------*)

(* The transaction a worker awaits is that of its call.                    *)
RunnersOK ==
  \A t \in Task : runner[t] # Nobody =>
    /\ txn[t] # NoTxn /\ worker[runner[t]].pc = "call" /\ worker[runner[t]].task = t
    /\ worker[runner[t]].call = txn[t].call /\ worker[runner[t]].token = txn[t].token

(* Calls that are open, or under way without a coroutine, are justified.   *)
OrphansOK == \A o \in orphans : There(o.task) => Justified(o.call, item[o.task], Jobs[o.task])
TxnsOK == \A t \in Task : txn[t] # NoTxn => Justified(txn[t].call, item[t], Jobs[t])

CallsInv == RefinementInv /\ WorkersTypeOK /\ CoroutinesOK /\ RunnersOK /\ OrphansOK /\ TxnsOK

LEMMA AwaitsItsCall ==
  ASSUME CallsInv, NEW w \in Worker, Awaits(w)
  PROVE  LET t == worker[w].task
         IN  /\ worker[w].pc = "call" /\ runner[t] = w /\ t \in Task
             /\ txn[t] # NoTxn /\ txn[t].call = worker[w].call /\ txn[t].token = worker[w].token
             /\ task[t].token = worker[w].token /\ There(t) /\ worker[w].call \in CallsOn(t)
<1>1. worker[w].task \in Task /\ w # Nobody
  BY CoroutineTyped, WorkersAssumption DEF CallsInv
<1>2. OpenFence
  BY StoreTypes DEF CallsInv, SafetyInv
<1>3. QED
  BY <1>1, <1>2 DEF Awaits, CallsInv, RunnersOK, OpenFence, There

(* An operation on an item belongs to a diagnosis.                         *)
LEMMA ItemCallsOnDiagnosis ==
  ASSUME NEW t \in Task, NEW call \in CallsOn(t), call.op \in ItemOps
  PROVE  Kind[t] = "diagnosis" /\ call.item \in Jobs[t]
<1>1. call \in ItemCall /\ call.item \in Jobs[t]
  BY DEF CallsOn, ItemOps
<1>2. QED
  BY <1>1, ConstantsAssumption

LEMMA CommitKeepsToken ==
  ASSUME CallsInv, NEW t \in Task, Commit(t)
  PROVE  task'[t].token = task[t].token /\ session' = session
<1>1. TypeOK
  BY StoreTypes DEF CallsInv
<1>2. task'[t].token = task[t].token
  BY <1>1, CommitKeepsLease DEF Kept, SameClaim
<1>3. session' = session
  BY DEF Commit, Load, StartItem, SaveScore, FinishItemReport, FinishItemError, Finish,
     CommitResult, Fail, Ending
<1>4. QED
  BY <1>2, <1>3

(* What a commit leaves of the item it was about.                          *)
LEMMA CommitDoes ==
  ASSUME CallsInv, NEW t \in Task, Commit(t)
  PROVE  LET call == txn[t].call
             rows == item'[t]
         IN  /\ call.op = "load" => rows = item[t]
             /\ call.op = "save_score" =>
                  call.item \in Item /\ (Settled(rows[call.item]) \/ rows[call.item].score # 0)
             /\ call.op \in {"finish_item_report", "finish_item_error"} =>
                  call.item \in Item /\ Settled(rows[call.item])
<1> DEFINE call == txn[t].call
           row == item[t][call.item]
<1>0. TypeOK
  BY StoreTypes DEF CallsInv
<1>1. txn[t] # NoTxn
  BY DEF Commit, Load, StartItem, SaveScore, FinishItemReport, FinishItemError, Finish,
     CommitResult, Fail, Ending
<1>2. call \in Calls /\ txn[t].token \in Attempt
  BY <1>0, <1>1, OpenTxn
<1>3. call.op \in ItemOps => call.item \in Item
  BY <1>2, CallOps
<1>4. CASE call.op = "load"
  BY <1>4 DEF Commit, Load, StartItem, SaveScore, FinishItemReport, FinishItemError, Finish,
     CommitResult, Fail, Ending
<1>5. CASE call.op = "save_score"
  <2>1. SaveScore(t) /\ call.item \in Item
    BY <1>3, <1>5 DEF ItemOps, Commit, Load, StartItem, SaveScore, FinishItemReport,
       FinishItemError, Finish, CommitResult, Fail, Ending
  <2>2. PICK new : new = ScoreRow(row, txn[t].token)
    OBVIOUS
  <2>3. item'[t][call.item] = new
    BY <1>0, <2>1, <2>2 DEF SaveScore, WriteItem, TypeOK
  <2>4. Settled(new) \/ new.score # 0
    BY <1>0, <1>2, <2>1, <2>2 DEF ScoreRow, TypeOK, ItemRow, Attempt
  <2>5. QED
    BY <1>5, <2>1, <2>3, <2>4
<1>6. CASE call.op = "finish_item_report"
  <2>1. FinishItemReport(t) /\ call.item \in Item
    BY <1>3, <1>6 DEF ItemOps, Commit, Load, StartItem, SaveScore, FinishItemReport,
       FinishItemError, Finish, CommitResult, Fail, Ending
  <2>2. PICK new : new = ReportRow(row, call.from)
    OBVIOUS
  <2>3. item'[t][call.item] = new
    BY <1>0, <2>1, <2>2 DEF FinishItemReport, WriteItem, TypeOK
  <2>4. Settled(new)
    BY <1>0, <2>1, <2>2 DEF ReportRow, TypeOK, ItemRow, Settled, TERMINAL_ITEMS
  <2>5. QED
    BY <1>6, <2>1, <2>3, <2>4
<1>7. CASE call.op = "finish_item_error"
  <2>1. FinishItemError(t) /\ call.item \in Item
    BY <1>3, <1>7 DEF ItemOps, Commit, Load, StartItem, SaveScore, FinishItemReport,
       FinishItemError, Finish, CommitResult, Fail, Ending
  <2>2. PICK new : new = ErrorRow(row, "REPORTED")
    OBVIOUS
  <2>3. item'[t][call.item] = new
    BY <1>0, <2>1, <2>2 DEF FinishItemError, WriteItem, TypeOK
  <2>4. Settled(new)
    BY <1>0, <2>1, <2>2 DEF ErrorRow, TypeOK, ItemRow, Settled, TERMINAL_ITEMS
  <2>5. QED
    BY <1>7, <2>1, <2>3, <2>4
<1>8. QED
  BY <1>4, <1>5, <1>6, <1>7

(* A coroutine that goes on after its call knows what the call did.        *)
LEMMA ReturnsWork ==
  ASSUME CallsInv, [Next]_vars, NEW w \in Worker, Commit(worker[w].task), Awaits(w),
         NEW next \in Returned(worker[w])
  PROVE  Typed(next) /\ KnowsAfter(next)
<1>1. PICK row, t : row = worker[w] /\ t = row.task
  OBVIOUS
<1>2. /\ Typed(row) /\ Knows(row) /\ row \in WorkerRow /\ row.pc = "call" /\ AtWork(row)
      /\ row.token \in Attempt /\ t \in Task /\ RefinementInv /\ TypeOK
  BY <1>1, CoroutineTyped, AwaitsItsCall, StoreTypes DEF CallsInv, AtWork
<1>3. txn[t].call = row.call /\ task[t].token = row.token /\ There(t) /\ row.call \in CallsOn(t)
  BY <1>1, AwaitsItsCall
<1>4. task'[t].token = row.token /\ session' = session
  BY <1>1, <1>2, <1>3, CommitKeepsToken
<1>5. PICK rows : rows = item'[t]
  OBVIOUS
<1>6. Working(row, rows, row.token, t)
  <2>1. KnowsAfter(row)
    BY <1>2, KnowsStays
  <2>2. QED
    BY <1>1, <1>2, <1>3, <1>4, <1>5, <2>1 DEF KnowsAfter, There
<1>7. row.call.op \in ItemOps => Kind[t] = "diagnosis"
  BY <1>2, <1>3, ItemCallsOnDiagnosis
<1>8. row.call.op \in ItemOps => Informed(row, rows, row.token, Jobs[t]) /\ row.call.item = row.item
  BY <1>2, <1>6, <1>7 DEF Working, Loaded, OnItem, Informed
<1>9. Done(row, rows)
  <2>1. /\ row.call.op = "load" => rows = item[t]
        /\ row.call.op = "save_score" =>
             row.item \in Item /\ (Settled(rows[row.item]) \/ rows[row.item].score # 0)
        /\ row.call.op \in {"finish_item_report", "finish_item_error"} => Settled(rows[row.item])
    BY <1>1, <1>2, <1>3, <1>5, <1>8, CommitDoes DEF ItemOps
  <2>2. row.call.op = "save_score" => rows[row.item].score \in {0, row.token}
    BY <1>2, <1>8, <2>1 DEF Informed, ScoresKnown, ItemOps
  <2>3. QED
    BY <1>1, <2>1, <2>2 DEF Done
<1>10. CASE next = Leave
  BY <1>10, RestingTyped DEF Typed, KnowsAfter, AtWork
<1>11. CASE next \in WorkerRow /\ SameLease(row, next) /\ AtWork(next) /\ GoesOn(row, next)
  <2>1. Typed(next) /\ Working(next, rows, row.token, t)
    BY <1>1, <1>2, <1>6, <1>7, <1>9, <1>11, GoesOnWorks
  <2>2. next.task = t
    BY <1>1, <1>11 DEF SameLease
  <2>3. QED
    BY <1>4, <1>5, <2>1, <2>2 DEF KnowsAfter
<1>12. QED
  BY <1>1, <1>2, <1>10, <1>11, ReturnedGoesOn

(*------------------------- What coroutines do next ----------------------*)

LEMMA RestWorks == Typed(Leave) /\ KnowsAfter(Leave) /\ Typed(Resting) /\ KnowsAfter(Resting)
  BY RestingTyped DEF Typed, KnowsAfter, AtWork

LEMMA CutWorks ==
  ASSUME CallsInv, [Next]_vars, NEW w \in Worker, AtWork(worker[w])
  PROVE  Typed(Issue(worker[w], Call("fail"))) /\ KnowsAfter(Issue(worker[w], Call("fail")))
<1>1. PICK row, next : row = worker[w] /\ next = Issue(row, Call("fail"))
  OBVIOUS
<1>2. Typed(row) /\ KnowsAfter(row) /\ row \in WorkerRow /\ AtWork(row) /\ row.token \in Attempt
  BY <1>1, CoroutineTyped, KnowsStays DEF CallsInv, AtWork
<1>3. next \in WorkerRow /\ SameLease(row, next) /\ Fails(row, next)
  BY <1>1, <1>2, FailIssued
<1>4. Typed(next)
  BY <1>2, <1>3 DEF Typed, SameLease, Fails
<1>5. KnowsAfter(next)
  BY <1>2, <1>3, FailsWorks DEF KnowsAfter, SameLease, Working
<1>6. QED
  BY <1>1, <1>4, <1>5

LEMMA RaisesWork ==
  ASSUME CallsInv, [Next]_vars, NEW w \in Worker, worker[w].pc = "call"
  PROVE  Typed(Raised(worker[w])) /\ KnowsAfter(Raised(worker[w]))
<1>1. PICK row, next : row = worker[w] /\ next = Raised(row)
  OBVIOUS
<1>2. /\ Typed(row) /\ KnowsAfter(row) /\ row \in WorkerRow /\ AtWork(row)
      /\ row.token \in Attempt /\ row.pc = "call"
  BY <1>1, CoroutineTyped, KnowsStays DEF CallsInv, AtWork
<1>3. CASE next = Leave
  BY <1>1, <1>3, RestWorks
<1>4. CASE next \in WorkerRow /\ SameLease(row, next) /\ Fails(row, next)
  <2>1. Typed(next)
    BY <1>2, <1>4 DEF Typed, SameLease, Fails
  <2>2. KnowsAfter(next)
    BY <1>2, <1>4, FailsWorks DEF KnowsAfter, SameLease, Working
  <2>3. QED
    BY <1>1, <2>1, <2>2
<1>5. CASE /\ next \in WorkerRow /\ SameLease(row, next) /\ GivesUpItem(row, next)
           /\ row.call.op \in {"start_item", "save_score", "finish_item_report"}
  <2>1. Typed(next)
    BY <1>2, <1>5 DEF Typed, SameLease, GivesUpItem
  <2>2. row.call.op \in ItemOps
    BY <1>5 DEF ItemOps
  <2>3. KnowsAfter(next)
    BY <1>2, <1>5, <2>2, GivesUpWorks DEF KnowsAfter, SameLease
  <2>4. QED
    BY <1>1, <2>1, <2>3
<1>6. QED
  BY <1>1, <1>2, <1>3, <1>4, <1>5, RaisedFails

LEMMA AnswersWork ==
  ASSUME CallsInv, [Next]_vars, NEW w \in Worker, worker[w].pc = "model",
         NEW next \in Answered(worker[w])
  PROVE  Typed(next) /\ KnowsAfter(next)
<1>1. PICK row : row = worker[w]
  OBVIOUS
<1>2. Typed(row) /\ KnowsAfter(row) /\ AtWork(row) /\ row.pc = "model"
  BY <1>1, CoroutineTyped, KnowsStays DEF CallsInv, AtWork
<1>3. Typed(next) /\ SameLease(row, next)
  BY <1>1, <1>2, AnsweredWorks
<1>4. \A rows, token : Working(row, rows, token, row.task) => Working(next, rows, token, row.task)
  BY <1>1, <1>2, AnsweredWorks
<1>5. QED
  BY <1>2, <1>3, <1>4 DEF KnowsAfter, SameLease

(* A new lease is the latest one, and nothing is known yet.                *)
LEMMA StartsWork ==
  ASSUME CallsInv, NEW t \in Task, Claim(t), TerminalReason(t) = "none", NEW next \in Started(t)
  PROVE  /\ Typed(next) /\ KnowsAfter(next)
         /\ next.pc = "call" /\ next.task = t /\ next.token = task'[t].token
<1>1. TypeOK /\ task[t] \in TaskRow
  BY StoreTypes DEF CallsInv, TypeOK
<1>2. PICK claim : claim = task[t].attempt + 1
  OBVIOUS
<1>3. claim \in Attempt
  BY <1>1, <1>2, ConstantsAssumption DEF TerminalReason, TaskRow, Attempt
<1>4. task'[t].token = claim
  BY <1>1, <1>2 DEF Claim, TypeOK, TaskRow
<1>5. PICK at : at = [Resting EXCEPT !.task = t, !.token = claim]
  OBVIOUS
<1>6. at \in WorkerRow /\ at.task = t /\ at.token = claim
  <2>1. PICK rest \in WorkerRow : rest = Resting
    BY RestingTyped
  <2>2. claim \in 0..MAX_ATTEMPTS /\ at = [rest EXCEPT !.task = t, !.token = claim]
    BY <1>3, <1>5, <2>1, ConstantsAssumption DEF Attempt
  <2>3. QED
    BY <2>2 DEF WorkerRow
<1>7. PICK call \in Calls : next = Issue(at, call) /\ call.op \in {"load", "fail"}
  <2>1. PICK op \in {"load", "fail"} : next = Issue(at, Call(op))
    BY <1>2, <1>5, Zenon DEF Started
  <2>2. Call(op) \in Calls /\ Call(op).op = op
    BY CallsTyped
  <2>3. QED
    BY <2>1, <2>2
<1>8. next \in WorkerRow /\ next.task = t /\ next.token = claim /\ next.pc = "call" /\ next.call = call
  BY <1>6, <1>7, IssueTyped DEF SameLease
<1>9. Typed(next)
  BY <1>3, <1>8 DEF Typed
<1>10. ~Loaded(next) /\ \A rows : Justified(next.call, rows, Jobs[t])
  BY <1>7, <1>8 DEF Loaded, OnItem, ItemOps, Justified
<1>11. KnowsAfter(next)
  <2>1. next.token <= task'[next.task].token
    BY <1>3, <1>4, <1>8 DEF Attempt
  <2>2. QED
    BY <1>8, <1>10, <2>1 DEF KnowsAfter, Working
<1>12. QED
  BY <1>4, <1>8, <1>9, <1>11

LEMMA OneMoves ==
  ASSUME CallsInv, [Next]_vars, NEW w \in Worker, NEW next, Become(w, next),
         Typed(next), KnowsAfter(next)
  PROVE  CoroutinesOK' /\ worker' \in [Worker -> WorkerRow]
<1>1. worker \in [Worker -> WorkerRow]
  BY DEF CallsInv, WorkersTypeOK
<1>2. \A v \in Worker : worker'[v] = IF v = w THEN next ELSE worker[v]
  BY <1>1 DEF Become
<1>3. \A v \in Worker : Typed(worker[v]) /\ KnowsAfter(worker[v])
  BY CoroutineTyped, KnowsStays DEF CallsInv
<1>4. \A v \in Worker : Typed(worker'[v]) /\ KnowsAfter(worker'[v])
  BY <1>2, <1>3
<1>5. worker' \in [Worker -> WorkerRow]
  BY <1>1 DEF Become, Typed
<1>6. QED
  BY <1>4, <1>5 DEF CoroutinesOK, KnowsAfter, Knows, There

LEMMA NoneMoves ==
  ASSUME CallsInv, [Next]_vars, worker' = worker
  PROVE  CoroutinesOK' /\ worker' \in [Worker -> WorkerRow]
<1>1. worker \in [Worker -> WorkerRow]
  BY DEF CallsInv, WorkersTypeOK
<1>2. \A v \in Worker : Typed(worker'[v]) /\ KnowsAfter(worker'[v])
  BY CoroutineTyped, KnowsStays DEF CallsInv
<1>3. QED
  BY <1>1, <1>2 DEF CoroutinesOK, KnowsAfter, Knows, There

(* Between two leases nothing is known and nothing need be.                *)
LEMMA IdleWorks ==
  ASSUME NEW next \in WorkerRow, ~AtWork(next)
  PROVE  Typed(next) /\ KnowsAfter(next)
  BY DEF Typed, KnowsAfter, AtWork

LEMMA DroppedRows ==
  ASSUME CoroutinesOK, NEW w \in Worker, worker[w].pc \in {"reap", "claim"}, NEW t
  PROVE  Drop(w, t) \in WorkerRow /\ ~AtWork(Drop(w, t))
<1>1. PICK row \in WorkerRow : row = worker[w]
  BY CoroutineTyped
<1>2. PICK next : next = [row EXCEPT !.scan = row.scan \ {t}]
  OBVIOUS
<1>3. next \in WorkerRow /\ next.pc = row.pc
  BY <1>2 DEF WorkerRow
<1>4. QED
  BY <1>1, <1>2, <1>3 DEF AtWork, Drop

LEMMA PollsWork ==
  ASSUME CallsInv, NEW w \in Worker, Polls(w)
  PROVE  \E next : Become(w, next) /\ Typed(next) /\ KnowsAfter(next)
<1>0. CoroutinesOK
  BY DEF CallsInv
<1>a. PICK scan \in SUBSET Task : scan = Candidates
  BY DEF Candidates
<1>b. PICK rest \in WorkerRow : rest = Resting
  BY RestingTyped
<1>1. CASE Poll(w)
  <2>1. PICK then \in {"idle", "claim"} :
          then = IF worker[w].pc = "idle" THEN "claim" ELSE "idle"
    OBVIOUS
  <2>2. PICK next : next = [Resting EXCEPT !.pc = "reap", !.scan = scan, !.then = then]
    OBVIOUS
  <2>3. next \in WorkerRow /\ ~AtWork(next)
    <3>1. next = [rest EXCEPT !.pc = "reap", !.scan = scan, !.then = then]
      BY <1>b, <2>2
    <3>2. next \in WorkerRow /\ next.pc = "reap"
      BY <3>1 DEF WorkerRow
    <3>3. QED
      BY <3>2 DEF AtWork
  <2>4. Become(w, next)
    BY <1>1, <1>a, <2>1, <2>2 DEF Poll, Only
  <2>5. QED
    BY <2>3, <2>4, IdleWorks
<1>2. CASE ReapNext(w)
  <2>1. PICK t \in First(worker[w].scan) : Become(w, Drop(w, t))
    BY <1>2 DEF ReapNext
  <2>2. QED
    BY <1>0, <1>2, <2>1, DroppedRows, IdleWorks DEF ReapNext
<1>3. CASE ReapDone(w)
  <2>1. Become(w, Resting) \/ Become(w, [Resting EXCEPT !.pc = "claim", !.scan = Candidates])
    BY <1>3 DEF ReapDone, Only
  <2>2. CASE Become(w, [Resting EXCEPT !.pc = "claim", !.scan = Candidates])
    <3>1. PICK next : next = [Resting EXCEPT !.pc = "claim", !.scan = scan]
      OBVIOUS
    <3>2. next \in WorkerRow /\ ~AtWork(next)
      <4>1. next = [rest EXCEPT !.pc = "claim", !.scan = scan]
        BY <1>b, <3>1
      <4>2. next \in WorkerRow /\ next.pc = "claim"
        BY <4>1 DEF WorkerRow
      <4>3. QED
        BY <4>2 DEF AtWork
    <3>3. QED
      BY <1>a, <2>2, <3>1, <3>2, IdleWorks
  <2>3. QED
    BY <2>1, <2>2, RestWorks
<1>4. CASE ClaimNext(w)
  <2>0. First(worker[w].scan) \subseteq Task
    BY <1>0, CoroutineTyped DEF First
  <2>1. PICK t \in First(worker[w].scan) :
          \/ /\ LockCandidate(t) /\ TerminalReason(t) = "none"
             /\ Claim(t) /\ \E row \in Started(t) : Become(w, row)
          \/ Become(w, Drop(w, t))
    BY <1>4 DEF ClaimNext
  <2>2. CASE Become(w, Drop(w, t))
    BY <1>0, <1>4, <2>2, DroppedRows, IdleWorks DEF ClaimNext
  <2>3. CASE TerminalReason(t) = "none" /\ Claim(t) /\ \E row \in Started(t) : Become(w, row)
    BY <2>0, <2>3, StartsWork
  <2>4. QED
    BY <2>1, <2>2, <2>3
<1>5. CASE NothingToClaim(w)
  BY <1>5, RestWorks DEF NothingToClaim, Only
<1>6. QED
  BY <1>1, <1>2, <1>3, <1>4, <1>5 DEF Polls

(* However a coroutine goes on, or is cut short, it knows what it needs.   *)
LEMMA NextCoroutines ==
  ASSUME CallsInv, [WorkersNext]_allVars
  PROVE  CoroutinesOK' /\ worker' \in [Worker -> WorkerRow]
<1>0. [Next]_vars /\ CoroutinesOK
  BY StepsOfStore DEF CallsInv, WorkersTypeOK
<1> DEFINE Moves == \E w \in Worker : \E next : Become(w, next) /\ Typed(next) /\ KnowsAfter(next)
<1>1. ASSUME NEW w \in Worker, Polls(w) PROVE Moves
  BY <1>1, PollsWork
<1>2. ASSUME NEW w \in Worker, FenceLost(w) \/ CallLost(w) \/ HeartbeatLost(w) \/ Shutdown(w) PROVE Moves
  BY <1>2, RestWorks DEF FenceLost, CallLost, HeartbeatLost, Shutdown, Only
<1>3. ASSUME NEW w \in Worker, Crash(w) PROVE Moves
  BY <1>3, RestWorks DEF Crash
<1>4. ASSUME NEW w \in Worker, CallReturns(w) PROVE Moves
  <2>1. PICK next \in Returned(worker[w]) : Become(w, next)
    BY <1>4 DEF CallReturns
  <2>2. Typed(next) /\ KnowsAfter(next)
    BY <1>0, <1>4, ReturnsWork DEF CallReturns
  <2>3. QED
    BY <2>1, <2>2
<1>5. ASSUME NEW w \in Worker, CallRefused(w) \/ CallBreaks(w) PROVE Moves
  <2>1. Become(w, Raised(worker[w])) /\ worker[w].pc = "call"
    BY <1>5 DEF CallRefused, CallBreaks, Awaits
  <2>2. QED
    BY <1>0, <2>1, RaisesWork
<1>6. ASSUME NEW w \in Worker, ModelAnswers(w) PROVE Moves
  <2>1. PICK next \in Answered(worker[w]) : Become(w, next)
    BY <1>6 DEF ModelAnswers, Only
  <2>2. Typed(next) /\ KnowsAfter(next)
    BY <1>0, <1>6, AnswersWork DEF ModelAnswers
  <2>3. QED
    BY <2>1, <2>2
<1>7. ASSUME NEW w \in Worker, Timeout(w) \/ HeartbeatBreaks(w) PROVE Moves
  <2>1. Become(w, Issue(worker[w], Call("fail"))) /\ AtWork(worker[w])
    BY <1>7 DEF Timeout, HeartbeatBreaks, Beating, Executing, AtWork
  <2>2. QED
    BY <1>0, <2>1, CutWorks
<1>8. ASSUME NEW w \in Worker, OpenCall(w) \/ HeartbeatOk(w) PROVE worker' = worker
  BY <1>8 DEF OpenCall, HeartbeatOk, workerVars
<1>9. ASSUME NEW o \in orphans, OrphanOpens(o) \/ OrphanDies(o) PROVE worker' = worker
  BY <1>9 DEF OrphanOpens, OrphanDies
<1>10. ASSUME NEW t \in Task, UnawaitedEnds(t) PROVE worker' = worker
  BY <1>10 DEF UnawaitedEnds, workerVars
<1>11. ASSUME Environment \/ UNCHANGED allVars PROVE worker' = worker
  BY <1>11 DEF Environment, allVars, workerVars
<1>12. Moves \/ worker' = worker
  BY <1>1, <1>2, <1>3, <1>4, <1>5, <1>6, <1>7, <1>8, <1>9, <1>10, <1>11 DEF WorkersNext, Works
<1>13. QED
  BY <1>0, <1>12, OneMoves, NoneMoves

(*--------------------- Who awaits which transaction ---------------------*)

LEMMA EndsTxn ==
  ASSUME NEW t \in Task, Commit(t) \/ Rollback(t)
  PROVE  txn' = [txn EXCEPT ![t] = NoTxn]
  BY DEF Commit, Load, StartItem, SaveScore, FinishItemReport, FinishItemError, Finish,
     CommitResult, Fail, Ending, Rollback

LEMMA StoreEnds == RefinementInv => txn \in [Task -> Txn] /\ OpenFence
  BY StoreTypes DEF SafetyInv, TypeOK

LEMMA KeepsTxns ==
  ASSUME NEW t \in Task, Claim(t) \/ Reap(t) \/ UNCHANGED vars
  PROVE  txn' = txn
  BY DEF Claim, Reap, vars

(* A transaction goes on being awaited, is not awaited any longer, or is   *)
(* the one a worker just opened.                                           *)
Awaited(t) ==
  \/ runner'[t] = Nobody
  \/ runner'[t] = runner[t] /\ txn'[t] = txn[t] /\ worker'[runner[t]] = worker[runner[t]]
  \/ \E w \in Worker :
       /\ runner'[t] = w /\ worker' = worker
       /\ worker[w].pc = "call" /\ worker[w].task = t
       /\ txn'[t] = [token |-> worker[w].token, call |-> worker[w].call]

LEMMA OnlyItsOwn ==
  ASSUME CallsInv, NEW w \in Worker, NEW t \in Task, runner[t] = w
  PROVE  Awaits(w) /\ worker[w].task = t /\ worker[w].pc = "call" /\ txn[t] # NoTxn
  BY WorkersAssumption DEF CallsInv, RunnersOK, Awaits

LEMMA Elsewhere ==
  ASSUME CallsInv, NEW w \in Worker, NEW next, Become(w, next),
         NEW t \in Task, runner[t] # w, runner'[t] = runner[t], txn'[t] = txn[t]
  PROVE  Awaited(t)
<1>1. worker \in [Worker -> WorkerRow] /\ runner[t] \in Worker \cup {Nobody}
  BY DEF CallsInv, WorkersTypeOK
<1>2. CASE runner[t] \in Worker
  <2>1. worker'[runner[t]] = worker[runner[t]]
    BY <1>1, <1>2 DEF Become
  <2>2. QED
    BY <2>1 DEF Awaited
<1>3. QED
  BY <1>1, <1>2 DEF Awaited

LEMMA PollsAwaited ==
  ASSUME CallsInv, NEW w \in Worker, Polls(w)
  PROVE  runner' = runner /\ \A t \in Task : Awaited(t)
<1>1. PICK next : Become(w, next)
  BY PollsWork
<1>2. worker[w].pc # "call"
  BY DEF Polls, Poll, ReapNext, ReapDone, ClaimNext, NothingToClaim
<1>3. runner' = runner
  BY DEF Polls, Poll, ReapNext, ReapDone, ClaimNext, NothingToClaim, Only
<1>4. txn' = txn
  BY PollsOnStore, KeepsTxns DEF CallsInv, vars
<1>5. \A t \in Task : runner[t] # w
  BY <1>2, OnlyItsOwn
<1>6. QED
  BY <1>1, <1>3, <1>4, <1>5, Elsewhere

LEMMA AbandonedAwaited ==
  ASSUME CallsInv, NEW w \in Worker, NEW next, Become(w, next), UNCHANGED vars,
         runner' = [t \in Task |-> IF runner[t] = w THEN Nobody ELSE runner[t]]
  PROVE  runner' \in [Task -> Worker \cup {Nobody}] /\ \A t \in Task : Awaited(t)
<1>1. runner \in [Task -> Worker \cup {Nobody}] /\ txn' = txn
  BY DEF CallsInv, WorkersTypeOK, vars
<1>2. ASSUME NEW t \in Task, runner[t] = w PROVE Awaited(t)
  BY <1>2 DEF Awaited
<1>3. ASSUME NEW t \in Task, runner[t] # w PROVE Awaited(t)
  BY <1>1, <1>3, Elsewhere
<1>4. QED
  BY <1>1, <1>2, <1>3

LEMMA EndedAwaited ==
  ASSUME CallsInv, NEW w \in Worker, NEW next, Become(w, next), Awaits(w), Closed(w),
         Commit(worker[w].task) \/ Rollback(worker[w].task)
  PROVE  runner' \in [Task -> Worker \cup {Nobody}] /\ \A t \in Task : Awaited(t)
<1>1. worker[w].task \in Task /\ runner \in [Task -> Worker \cup {Nobody}] /\ txn \in [Task -> Txn]
  BY CoroutineTyped, StoreEnds DEF CallsInv, WorkersTypeOK
<1>2. txn' = [txn EXCEPT ![worker[w].task] = NoTxn]
  BY <1>1, EndsTxn
<1>3. ASSUME NEW t \in Task, t # worker[w].task PROVE Awaited(t)
  <2>1. runner[t] # w
    BY <1>3, OnlyItsOwn
  <2>2. runner'[t] = runner[t] /\ txn'[t] = txn[t]
    BY <1>1, <1>2, <1>3 DEF Closed
  <2>3. QED
    BY <2>1, <2>2, Elsewhere
<1>4. Awaited(worker[w].task)
  BY <1>1 DEF Closed, Awaited
<1>5. runner' \in [Task -> Worker \cup {Nobody}]
  BY <1>1 DEF Closed
<1>6. QED
  BY <1>3, <1>4, <1>5

LEMMA OpenAwaited ==
  ASSUME CallsInv, NEW w \in Worker, OpenCall(w)
  PROVE  runner' \in [Task -> Worker \cup {Nobody}] /\ \A t \in Task : Awaited(t)
<1>1. worker[w].task \in Task /\ runner \in [Task -> Worker \cup {Nobody}] /\ txn \in [Task -> Txn]
  BY CoroutineTyped, StoreEnds DEF CallsInv, WorkersTypeOK
<1>2. /\ runner' = [runner EXCEPT ![worker[w].task] = w] /\ worker' = worker
      /\ txn' = [txn EXCEPT ![worker[w].task] =
                    [token |-> worker[w].token, call |-> worker[w].call]]
      /\ worker[w].pc = "call"
  BY DEF OpenCall, Begin
<1>3. Awaited(worker[w].task)
  BY <1>1, <1>2 DEF Awaited
<1>4. ASSUME NEW t \in Task, t # worker[w].task PROVE Awaited(t)
  BY <1>1, <1>2, <1>4 DEF Awaited
<1>5. QED
  BY <1>1, <1>2, <1>3, <1>4

(* What opens or ends without a worker was awaited by nobody.              *)
LEMMA UnawaitedStays ==
  ASSUME CallsInv, NEW t \in Task, runner[t] = Nobody, runner' = runner, worker' = worker,
         \A u \in Task \ {t} : txn'[u] = txn[u]
  PROVE  \A u \in Task : Awaited(u)
  BY DEF Awaited

LEMMA EnvironmentOpensNone == Environment => txn' = txn
<1> SUFFICES ASSUME Environment PROVE txn' = txn
  OBVIOUS
<1>1. ASSUME NEW t \in Task, CreateTask(t) \/ RemoveFile(t) PROVE txn' = txn
  BY <1>1 DEF CreateTask, RemoveFile
<1>2. ASSUME NEW p \in Profile, EditProfile(p) PROVE txn' = txn
  BY <1>2 DEF EditProfile
<1>3. ASSUME NEW s \in Session, Expire(s) \/ Revoke(s) PROVE txn' = txn
  BY <1>3 DEF Expire, Revoke
<1>4. Tick => txn' = txn
  BY DEF Tick
<1>5. QED
  BY <1>1, <1>2, <1>3, <1>4 DEF Environment

RunnersMove == runner' \in [Task -> Worker \cup {Nobody}] /\ \A t \in Task : Awaited(t)

LEMMA NextRunners ==
  ASSUME CallsInv, [WorkersNext]_allVars
  PROVE  RunnersOK' /\ runner' \in [Task -> Worker \cup {Nobody}]
<1>0. runner \in [Task -> Worker \cup {Nobody}] /\ txn \in [Task -> Txn]
  BY StoreEnds DEF CallsInv, WorkersTypeOK
<1>a. runner' = runner => runner' \in [Task -> Worker \cup {Nobody}]
  BY <1>0
<1>b. runner' = runner /\ worker' = worker /\ txn' = txn => RunnersMove
  BY <1>a DEF RunnersMove, Awaited
<1>1. ASSUME NEW w \in Worker, Polls(w) PROVE RunnersMove
  BY <1>a, <1>1, PollsAwaited DEF RunnersMove
<1>2. ASSUME NEW w \in Worker, FenceLost(w) \/ ModelAnswers(w) PROVE RunnersMove
  <2>1. PICK next : Become(w, next)
    BY <1>2 DEF FenceLost, ModelAnswers, Only
  <2>2. runner' = runner /\ txn' = txn
    BY <1>2 DEF FenceLost, ModelAnswers, Only, vars
  <2>3. \A t \in Task : runner[t] # w
    BY <1>2, OnlyItsOwn DEF FenceLost, ModelAnswers
  <2>4. QED
    BY <1>a, <2>1, <2>2, <2>3, Elsewhere DEF RunnersMove
<1>3. ASSUME NEW w \in Worker, CallReturns(w) \/ CallLost(w) \/ CallRefused(w) \/ CallBreaks(w)
      PROVE  RunnersMove
  <2>1. /\ \E next : Become(w, next)
        /\ Awaits(w) /\ Closed(w)
        /\ Commit(worker[w].task) \/ Rollback(worker[w].task)
    BY <1>3 DEF CallReturns, CallLost, CallRefused, CallBreaks
  <2>2. QED
    BY <2>1, EndedAwaited DEF RunnersMove
<1>4. ASSUME NEW w \in Worker,
             HeartbeatLost(w) \/ Timeout(w) \/ HeartbeatBreaks(w) \/ Shutdown(w) \/ Crash(w)
      PROVE  RunnersMove
  <2>1. /\ \E next : Become(w, next)
        /\ UNCHANGED vars
        /\ runner' = [t \in Task |-> IF runner[t] = w THEN Nobody ELSE runner[t]]
    BY <1>4 DEF HeartbeatLost, Timeout, HeartbeatBreaks, Shutdown, Crash, Abandon
  <2>2. QED
    BY <2>1, AbandonedAwaited DEF RunnersMove
<1>5. ASSUME NEW w \in Worker, OpenCall(w) PROVE RunnersMove
  BY <1>5, OpenAwaited DEF RunnersMove
<1>6. ASSUME NEW w \in Worker, HeartbeatOk(w) PROVE RunnersMove
  BY <1>b, <1>6 DEF HeartbeatOk, Heartbeat, workerVars
<1>7. ASSUME NEW o \in orphans, OrphanOpens(o) PROVE RunnersMove
  <2>1. o.task \in Task
    BY DEF CallsInv, WorkersTypeOK
  <2>2. /\ runner' = runner /\ worker' = worker /\ txn[o.task] = NoTxn
        /\ txn' = [txn EXCEPT ![o.task] = [token |-> o.token, call |-> o.call]]
    BY <1>7 DEF OrphanOpens, Begin, Fenced
  <2>3. runner[o.task] = Nobody
    BY <2>1, <2>2 DEF CallsInv, RunnersOK
  <2>4. \A u \in Task \ {o.task} : txn'[u] = txn[u]
    BY <1>0, <2>2
  <2>5. QED
    BY <1>a, <2>1, <2>2, <2>3, <2>4, UnawaitedStays DEF RunnersMove
<1>8. ASSUME NEW o \in orphans, OrphanDies(o) PROVE RunnersMove
  BY <1>b, <1>8 DEF OrphanDies, vars
<1>9. ASSUME NEW t \in Task, UnawaitedEnds(t) PROVE RunnersMove
  <2>1. runner' = runner /\ worker' = worker /\ runner[t] = Nobody
    BY <1>9 DEF UnawaitedEnds, workerVars
  <2>2. \A u \in Task \ {t} : txn'[u] = txn[u]
    BY <1>0, <1>9, EndsTxn DEF UnawaitedEnds
  <2>3. QED
    BY <1>a, <2>1, <2>2, UnawaitedStays DEF RunnersMove
<1>10. ASSUME Environment PROVE RunnersMove
  <2>1. txn' = txn
    BY <1>10, EnvironmentOpensNone
  <2>2. runner' = runner /\ worker' = worker
    BY <1>10 DEF Environment, workerVars
  <2>3. QED
    BY <1>b, <2>1, <2>2
<1>11. ASSUME UNCHANGED allVars PROVE RunnersMove
  <2>1. runner' = runner /\ worker' = worker /\ txn' = txn
    BY <1>11 DEF allVars, workerVars, vars
  <2>2. QED
    BY <1>b, <2>1
<1>12. RunnersMove
  BY <1>1, <1>2, <1>3, <1>4, <1>5, <1>6, <1>7, <1>8, <1>9, <1>10, <1>11 DEF WorkersNext, Works
<1>13. RunnersOK'
  <2> SUFFICES ASSUME NEW t \in Task, runner'[t] # Nobody
      PROVE  /\ txn'[t] # NoTxn /\ worker'[runner'[t]].pc = "call" /\ worker'[runner'[t]].task = t
             /\ worker'[runner'[t]].call = txn'[t].call /\ worker'[runner'[t]].token = txn'[t].token
    BY DEF RunnersOK
  <2>1. CASE runner'[t] = runner[t] /\ txn'[t] = txn[t] /\ worker'[runner[t]] = worker[runner[t]]
    BY <2>1 DEF CallsInv, RunnersOK
  <2>2. ASSUME NEW w \in Worker, runner'[t] = w, worker' = worker,
               worker[w].pc = "call", worker[w].task = t,
               txn'[t] = [token |-> worker[w].token, call |-> worker[w].call]
        PROVE  /\ txn'[t] # NoTxn /\ worker'[w].pc = "call" /\ worker'[w].task = t
               /\ worker'[w].call = txn'[t].call /\ worker'[w].token = txn'[t].token
    <3>1. worker[w].token \in Attempt
      BY <2>2, CoroutineTyped DEF CallsInv
    <3>2. QED
      BY <2>2, <3>1 DEF NoTxn, Attempt
  <2>3. QED
    BY <1>12, <2>1, <2>2 DEF RunnersMove, Awaited
<1>14. QED
  BY <1>12, <1>13 DEF RunnersMove

(*---------------------- Calls nobody waits for --------------------------*)

LEMMA JustifiedAfter ==
  ASSUME RefinementInv, [Next]_vars, NEW t \in Task, NEW call \in Calls,
         Justified(call, item[t], Jobs[t]), session'[Owner[t]] # "gone"
  PROVE  Justified(call, item'[t], Jobs[t])
<1>1. PICK rows, after, token : rows = item[t] /\ after = item'[t] /\ token = task[t].token
  OBVIOUS
<1>2. Evolves(rows, after, token) /\ Jobs[t] \in SUBSET Item
  BY <1>1, StoreEvolves, ConstantsAssumption
<1>3. QED
  BY <1>1, <1>2, JustifiedStays

(* A call becomes an orphan only when its coroutine is cancelled.          *)
OrphansMove ==
  \A o \in orphans' :
    \/ o \in orphans
    \/ UNCHANGED vars /\ \E w \in Worker : worker[w].pc = "call" /\ o = Orphan(w)
FaultsMove == faults' = faults \/ (faults < MaxFaults /\ faults' = faults + 1)

LEMMA NextOrphansMove == [WorkersNext]_allVars => OrphansMove /\ FaultsMove
<1> SUFFICES ASSUME [WorkersNext]_allVars PROVE OrphansMove /\ FaultsMove
  OBVIOUS
<1> DEFINE Untold == orphans' = orphans /\ faults' = faults
<1>1. ASSUME NEW w \in Worker, Polls(w) PROVE Untold
  BY <1>1 DEF Polls, Poll, ReapNext, ReapDone, ClaimNext, NothingToClaim, Only
<1>2. ASSUME NEW w \in Worker, Works(w) \/ ModelAnswers(w) PROVE Untold
  BY <1>2 DEF Works, OpenCall, FenceLost, CallReturns, CallLost, CallRefused, ModelAnswers, Only
<1>3. ASSUME NEW w \in Worker, HeartbeatOk(w) PROVE Untold
  BY <1>3 DEF HeartbeatOk, workerVars
<1>4. ASSUME NEW w \in Worker, Abandon(w) PROVE OrphansMove
  BY <1>4 DEF Abandon, OrphansMove
<1>5. ASSUME NEW w \in Worker, HeartbeatLost(w) \/ Timeout(w) \/ HeartbeatBreaks(w) \/ Shutdown(w)
      PROVE  OrphansMove /\ FaultsMove
  <2>1. Abandon(w) /\ FaultsMove
    BY <1>5 DEF HeartbeatLost, Timeout, HeartbeatBreaks, Shutdown, Fault, FaultsMove
  <2>2. QED
    BY <1>4, <2>1
<1>6. ASSUME NEW w \in Worker, CallBreaks(w) \/ Crash(w) PROVE OrphansMove /\ FaultsMove
  BY <1>6 DEF CallBreaks, Crash, Fault, OrphansMove, FaultsMove
<1>7. ASSUME NEW o \in orphans, OrphanOpens(o) \/ OrphanDies(o) PROVE OrphansMove /\ FaultsMove
  BY <1>7 DEF OrphanOpens, OrphanDies, OrphansMove, FaultsMove
<1>8. ASSUME NEW t \in Task, UnawaitedEnds(t) PROVE Untold
  BY <1>8 DEF UnawaitedEnds, workerVars
<1>9. ASSUME Environment \/ UNCHANGED allVars PROVE Untold
  BY <1>9 DEF Environment, allVars, workerVars
<1>10. Untold => OrphansMove /\ FaultsMove
  BY DEF OrphansMove, FaultsMove
<1> HIDE DEF Untold
<1>11. QED
  BY <1>1, <1>2, <1>3, <1>5, <1>6, <1>7, <1>8, <1>9, <1>10 DEF WorkersNext

LEMMA OrphanTyped ==
  ASSUME CallsInv, NEW w \in Worker, worker[w].pc = "call"
  PROVE  /\ Orphan(w) \in [task : Task, token : Attempt, call : Calls]
         /\ There(Orphan(w).task) =>
              Justified(Orphan(w).call, item[Orphan(w).task], Jobs[Orphan(w).task])
<1>1. /\ worker[w].task \in Task /\ worker[w].token \in Attempt /\ worker[w].call \in Calls
      /\ Knows(worker[w])
  BY CoroutineTyped DEF CallsInv
<1>2. There(worker[w].task) =>
        Justified(worker[w].call, item[worker[w].task], Jobs[worker[w].task])
  BY <1>1 DEF Knows, AtWork, Working
<1>3. QED
  BY <1>1, <1>2 DEF Orphan

LEMMA NextOrphans ==
  ASSUME CallsInv, [WorkersNext]_allVars
  PROVE  /\ orphans' \subseteq [task : Task, token : Attempt, call : Calls]
         /\ faults' \in 0..MaxFaults /\ OrphansOK'
<1>0. orphans \subseteq [task : Task, token : Attempt, call : Calls] /\ faults \in 0..MaxFaults
  BY DEF CallsInv, WorkersTypeOK
<1>1. [Next]_vars /\ RefinementInv
  BY <1>0, StepsOfStore DEF CallsInv
<1>2. OrphansMove /\ FaultsMove
  BY NextOrphansMove
<1>3. orphans' \subseteq [task : Task, token : Attempt, call : Calls]
  BY <1>0, <1>2, OrphanTyped DEF OrphansMove
<1>4. faults' \in 0..MaxFaults
  BY <1>0, <1>2, WorkersAssumption DEF FaultsMove
<1>5. ASSUME NEW o \in orphans', session'[Owner[o.task]] # "gone"
      PROVE  Justified(o.call, item'[o.task], Jobs[o.task])
  <2>1. o.task \in Task /\ o.call \in Calls
    BY <1>3
  <2>2. There(o.task)
    BY <1>1, <1>5, <2>1, GoneForGood
  <2>3. CASE o \in orphans
    <3>1. Justified(o.call, item[o.task], Jobs[o.task])
      BY <2>2, <2>3 DEF CallsInv, OrphansOK
    <3>2. QED
      BY <1>1, <1>5, <2>1, <3>1, JustifiedAfter
  <2>4. ASSUME UNCHANGED vars, NEW w \in Worker, worker[w].pc = "call", o = Orphan(w)
        PROVE  Justified(o.call, item'[o.task], Jobs[o.task])
    <3>1. Justified(o.call, item[o.task], Jobs[o.task])
      BY <2>2, <2>4, OrphanTyped
    <3>2. QED
      BY <1>1, <1>5, <2>1, <3>1, JustifiedAfter
  <2>5. QED
    BY <1>2, <2>3, <2>4 DEF OrphansMove
<1>6. OrphansOK'
  BY <1>5 DEF OrphansOK, There
<1>7. QED
  BY <1>3, <1>4, <1>6

(*--------------------------- Calls that open ----------------------------*)

(* A transaction is opened for the call of a worker or of an orphan.       *)
TxnsMove ==
  \A t \in Task :
    \/ txn'[t] = NoTxn
    \/ txn'[t] = txn[t]
    \/ \E w \in Worker : OpenCall(w) /\ worker[w].task = t
    \/ \E o \in orphans : OrphanOpens(o) /\ o.task = t

LEMMA NextTxnsMove ==
  ASSUME CallsInv, [WorkersNext]_allVars
  PROVE  TxnsMove
<1>0. txn \in [Task -> Txn]
  BY StoreEnds DEF CallsInv
<1>a. txn' = txn => TxnsMove
  BY DEF TxnsMove
<1>b. ASSUME NEW t \in Task, Commit(t) \/ Rollback(t) PROVE TxnsMove
  <2>1. txn' = [txn EXCEPT ![t] = NoTxn]
    BY <1>b, EndsTxn
  <2>2. QED
    BY <1>0, <2>1 DEF TxnsMove
<1>1. ASSUME NEW w \in Worker, Polls(w) PROVE TxnsMove
  BY <1>a, <1>1, PollsOnStore, KeepsTxns DEF CallsInv, vars
<1>2. ASSUME NEW w \in Worker, FenceLost(w) \/ ModelAnswers(w) PROVE TxnsMove
  BY <1>a, <1>2 DEF FenceLost, ModelAnswers, Only, vars
<1>3. ASSUME NEW w \in Worker, CallReturns(w) \/ CallLost(w) \/ CallRefused(w) \/ CallBreaks(w)
      PROVE  TxnsMove
  <2>1. worker[w].task \in Task
    BY CoroutineTyped DEF CallsInv
  <2>2. Commit(worker[w].task) \/ Rollback(worker[w].task)
    BY <1>3 DEF CallReturns, CallLost, CallRefused, CallBreaks
  <2>3. QED
    BY <1>b, <2>1, <2>2
<1>4. ASSUME NEW w \in Worker,
             HeartbeatLost(w) \/ Timeout(w) \/ HeartbeatBreaks(w) \/ Shutdown(w) \/ Crash(w)
      PROVE  TxnsMove
  BY <1>a, <1>4, AbandonsNothing DEF vars
<1>5. ASSUME NEW w \in Worker, OpenCall(w) PROVE TxnsMove
  BY <1>0, <1>5 DEF OpenCall, Begin, TxnsMove
<1>6. ASSUME NEW w \in Worker, HeartbeatOk(w) PROVE TxnsMove
  BY <1>a, <1>6 DEF HeartbeatOk, Heartbeat
<1>7. ASSUME NEW o \in orphans, OrphanOpens(o) PROVE TxnsMove
  BY <1>0, <1>7 DEF OrphanOpens, Begin, TxnsMove
<1>8. ASSUME NEW o \in orphans, OrphanDies(o) PROVE TxnsMove
  BY <1>a, <1>8 DEF OrphanDies, vars
<1>9. ASSUME NEW t \in Task, UnawaitedEnds(t) PROVE TxnsMove
  BY <1>b, <1>9 DEF UnawaitedEnds
<1>10. ASSUME Environment PROVE TxnsMove
  BY <1>a, <1>10, EnvironmentOpensNone
<1>11. ASSUME UNCHANGED allVars PROVE TxnsMove
  BY <1>a, <1>11 DEF allVars, vars
<1>12. QED
  BY <1>1, <1>2, <1>3, <1>4, <1>5, <1>6, <1>7, <1>8, <1>9, <1>10, <1>11 DEF WorkersNext, Works

LEMMA NextTxns ==
  ASSUME CallsInv, [WorkersNext]_allVars
  PROVE  TxnsOK'
<1>0. txn \in [Task -> Txn] /\ RefinementInv /\ [Next]_vars /\ RefinementInv'
  BY StoreEnds, StepsOfStore, StoreInvariant DEF CallsInv, WorkersTypeOK
<1>1. TxnsMove
  BY NextTxnsMove
<1> SUFFICES ASSUME NEW t \in Task, txn'[t] # NoTxn
             PROVE  Justified(txn'[t].call, item'[t], Jobs[t])
  BY DEF TxnsOK
<1>2. CASE txn'[t] = txn[t]
  <2>1. OpenFence'
    BY <1>0 DEF RefinementInv, ResultsInv, LeaseInv, SafetyInv
  <2>2. session'[Owner[t]] # "gone"
    BY <2>1 DEF OpenFence
  <2>3. Justified(txn[t].call, item[t], Jobs[t]) /\ txn[t].call \in Calls
    BY <1>0, <1>2, OpenTxn, StoreTypes DEF CallsInv, TxnsOK
  <2>4. QED
    BY <1>0, <1>2, <2>2, <2>3, JustifiedAfter
<1>3. ASSUME NEW w \in Worker, OpenCall(w), worker[w].task = t
      PROVE  Justified(txn'[t].call, item'[t], Jobs[t])
  <2>1. /\ txn' = [txn EXCEPT ![t] = [token |-> worker[w].token, call |-> worker[w].call]]
        /\ item' = item /\ worker[w].pc = "call" /\ Live(t)
    BY <1>3 DEF OpenCall, Begin, Fenced
  <2>2. Knows(worker[w]) /\ There(t)
    BY <2>1, CoroutineTyped DEF CallsInv, Live, Active, There
  <2>3. Justified(worker[w].call, item[t], Jobs[t])
    BY <1>3, <2>1, <2>2 DEF Knows, AtWork, Working
  <2>4. QED
    BY <1>0, <2>1, <2>3
<1>4. ASSUME NEW o \in orphans, OrphanOpens(o), o.task = t
      PROVE  Justified(txn'[t].call, item'[t], Jobs[t])
  <2>1. /\ txn' = [txn EXCEPT ![t] = [token |-> o.token, call |-> o.call]]
        /\ item' = item /\ Live(t)
    BY <1>4 DEF OrphanOpens, Begin, Fenced
  <2>2. Justified(o.call, item[t], Jobs[t])
    BY <1>4, <2>1 DEF CallsInv, OrphansOK, Live, Active, There
  <2>3. QED
    BY <1>0, <2>1, <2>2
<1>5. QED
  BY <1>1, <1>2, <1>3, <1>4 DEF TxnsMove

(*---------------------------- The invariant -----------------------------*)

LEMMA InitCalls == WorkersInit => CallsInv
<1> SUFFICES ASSUME WorkersInit PROVE CallsInv
  OBVIOUS
<1>1. Init
  BY DEF WorkersInit
<1>2. RefinementInv
  BY <1>1, InitOutcome, InitLease DEF RefinementInv, ResultsInv, Blank, Init
<1>3. WorkersTypeOK
  BY RestingTyped, WorkersAssumption DEF WorkersInit, WorkersTypeOK
<1>4. CoroutinesOK
  BY RestingTyped DEF WorkersInit, CoroutinesOK, Typed, Knows, AtWork
<1>5. RunnersOK /\ OrphansOK /\ TxnsOK
  BY DEF WorkersInit, Init, RunnersOK, OrphansOK, TxnsOK
<1>6. QED
  BY <1>2, <1>3, <1>4, <1>5 DEF CallsInv

LEMMA NextCalls == CallsInv /\ [WorkersNext]_allVars => CallsInv' /\ [Next]_vars
<1> SUFFICES ASSUME CallsInv, [WorkersNext]_allVars PROVE CallsInv' /\ [Next]_vars
  OBVIOUS
<1>1. [Next]_vars /\ RefinementInv'
  BY StepsOfStore, StoreInvariant DEF CallsInv, WorkersTypeOK
<1>2. WorkersTypeOK'
  BY NextCoroutines, NextRunners, NextOrphans DEF WorkersTypeOK
<1>3. CoroutinesOK' /\ RunnersOK' /\ OrphansOK' /\ TxnsOK'
  BY NextCoroutines, NextRunners, NextOrphans, NextTxns
<1>4. QED
  BY <1>1, <1>2, <1>3 DEF CallsInv

LEMMA CallsHold == WorkersSpec => []CallsInv
  BY InitCalls, NextCalls, PTL DEF WorkersSpec

(* Whatever a worker, a cancelled call or a restarted process does is a    *)
(* step the store admits of its clients: every theorem about JobStore      *)
(* holds of the workers of worker.py, too.                                 *)
THEOREM WorkersAreClients == WorkersSpec => WorkersUseStore
<1>1. WorkersInit => Init
  BY DEF WorkersInit
<1>2. QED
  BY <1>1, NextCalls, CallsHold, PTL DEF WorkersSpec, WorkersUseStore, Spec

(* A worker is in a state its coroutines can be in, with the token of some *)
(* claim and a call of its kind.                                           *)
THEOREM WorkersTyped == WorkersSpec => []WorkersTypeOK
<1>1. CallsInv => WorkersTypeOK
  BY DEF CallsInv
<1>2. QED
  BY <1>1, CallsHold, PTL

(* No worker ever finishes a task with an open item, or reports on an item *)
(* whose score is not saved: the two guards of _aggregate and              *)
(* finish_item_report only ever stop a client that is not this worker.     *)
THEOREM GuardsNeverNeeded == WorkersSpec => []GuardsUnneeded
<1>1. CallsInv => GuardsUnneeded
  <2> SUFFICES ASSUME CallsInv, NEW t \in Task, txn[t] # NoTxn
               PROVE  ~Unfinished(t) /\ ~Unscored(t)
    BY DEF GuardsUnneeded
  <2>1. Justified(txn[t].call, item[t], Jobs[t])
    BY DEF CallsInv, TxnsOK
  <2>2. ~Unfinished(t)
    BY <2>1 DEF Unfinished, Unsettled, Justified
  <2>3. txn[t].call \in Calls
    BY OpenTxn, StoreTypes DEF CallsInv
  <2>4. txn[t].call.op = "finish_item_report" => txn[t].call.from # 0
    BY <2>3, CallOps DEF Attempt
  <2>5. ~Unscored(t)
    BY <2>1, <2>4 DEF Unscored, Justified
  <2>6. QED
    BY <2>2, <2>5
<1>2. QED
  BY <1>1, CallsHold, PTL

(***************************************************************************)
(*                     Reports rest on their own scores                    *)
(***************************************************************************)

Rests(row) == row.status = "succeeded" => row.report = row.score

LEMMA RowOpsRest ==
  ASSUME NEW row \in ItemRow, Rests(row)
  PROVE  /\ Rests(StartRow(row))
         /\ \A k \in Attempt : Rests(ScoreRow(row, k))
         /\ \A k \in Attempt : Settled(row) \/ row.score = k => Rests(ReportRow(row, k))
         /\ \A e \in Errors : Rests(ErrorRow(row, e))
<1> USE DEF ItemRow, Rests, Settled, TERMINAL_ITEMS
<1>1. Rests(StartRow(row))
  BY DEF StartRow
<1>2. ASSUME NEW k \in Attempt PROVE Rests(ScoreRow(row, k))
  BY DEF ScoreRow
<1>3. ASSUME NEW k \in Attempt, Settled(row) \/ row.score = k PROVE Rests(ReportRow(row, k))
  BY <1>3 DEF ReportRow
<1>4. ASSUME NEW e \in Errors PROVE Rests(ErrorRow(row, e))
  BY DEF ErrorRow
<1>5. QED
  BY <1>1, <1>2, <1>3, <1>4

(* A commit writes a report on the score it was written from: its call was *)
(* justified.                                                              *)
LEMMA CommitRests ==
  ASSUME CallsInv, NEW t \in Task, Commit(t), NEW i \in Item, Rests(item[t][i])
  PROVE  Rests(item'[t][i])
<1> DEFINE j == txn[t].call.item
           row == item[t][j]
<1>0. TypeOK /\ item[t][i] \in ItemRow
  BY StoreTypes DEF CallsInv, TypeOK
<1>1. ASSUME NEW op, NEW new, Ending(t, op), WriteItem(t, new), i = j => Rests(new)
      PROVE  Rests(item'[t][i])
  BY <1>0, <1>1 DEF WriteItem, TypeOK
<1>2. CASE Load(t) \/ Finish(t) \/ CommitResult(t)
  BY <1>2 DEF Load, Finish, CommitResult
<1>3. CASE StartItem(t)
  BY <1>0, <1>1, <1>3, RowOpsRest DEF StartItem
<1>4. CASE SaveScore(t)
  <2>1. txn[t].token \in Attempt
    BY <1>0, <1>4, OpenTxn DEF SaveScore, Ending
  <2>2. QED
    BY <1>0, <1>1, <1>4, <2>1, RowOpsRest DEF SaveScore
<1>5. CASE FinishItemReport(t)
  <2>1. /\ txn[t] # NoTxn /\ txn[t].call.op = "finish_item_report"
        /\ Ending(t, "finish_item_report") /\ WriteItem(t, ReportRow(row, txn[t].call.from))
    BY <1>5 DEF FinishItemReport, Ending
  <2>2. txn[t].call.from \in Attempt
    BY <1>0, <2>1, OpenTxn, CallFields
  <2>3. Settled(row) \/ row.score = txn[t].call.from
    BY <2>1 DEF CallsInv, TxnsOK, Justified
  <2>4. i = j => Rests(ReportRow(row, txn[t].call.from))
    BY <1>0, <2>2, <2>3, RowOpsRest
  <2>5. QED
    BY <1>1, <2>1, <2>4
<1>6. CASE FinishItemError(t)
  BY <1>0, <1>1, <1>6, RowOpsRest DEF FinishItemError, Errors
<1>7. CASE Fail(t)
  <2>1. item'[t][i] = item[t][i] \/ item'[t][i] = ErrorRow(item[t][i], "REPORTED")
    BY <1>0, <1>7, FailTaskOutcome DEF Fail, Errors
  <2>2. QED
    BY <1>0, <2>1, RowOpsRest DEF Errors
<1>8. QED
  BY <1>2, <1>3, <1>4, <1>5, <1>6, <1>7 DEF Commit

LEMMA NextRests ==
  ASSUME CallsInv, [Next]_vars, ReportRestsOnScore
  PROVE  ReportRestsOnScore'
<1> SUFFICES ASSUME NEW t \in Task, NEW i \in Item PROVE Rests(item'[t][i])
  BY DEF ReportRestsOnScore, Rests
<1>0. TypeOK /\ item[t][i] \in ItemRow /\ Rests(item[t][i]) /\ Rests(NoItem)
  BY StoreTypes DEF CallsInv, TypeOK, ReportRestsOnScore, Rests, NoItem
<1>1. CASE CreateTask(t)
  BY <1>0, <1>1 DEF CreateTask, TypeOK, Rests, NoItem
<1>2. CASE Reap(t)
  <2>1. PICK e \in Errors : FailTask(t, e)
    BY <1>2 DEF Reap, TerminalReason, Errors
  <2>2. item'[t][i] = item[t][i] \/ item'[t][i] = ErrorRow(item[t][i], e)
    BY <1>0, <2>1, FailTaskOutcome
  <2>3. QED
    BY <1>0, <2>2, RowOpsRest
<1>3. CASE Commit(t)
  BY <1>0, <1>3, CommitRests
<1>4. CASE Claim(t) \/ Erasing(t) \/ Calm(t)
  BY <1>0, <1>4 DEF Claim, Erasing, Calm
<1>5. QED
  BY <1>0, <1>1, <1>2, <1>3, <1>4, NextActs DEF Acts, Acted

(* The report shown with a score is about that very score, although one    *)
(* claim may score an item and another report on it, and a worker that     *)
(* lost its lease may still have either under way.                         *)
THEOREM ReportsRestOnScores == WorkersSpec => []ReportRestsOnScore
<1>1. WorkersInit => ReportRestsOnScore
  BY DEF WorkersInit, Init, ReportRestsOnScore, NoItem
<1>2. CallsInv /\ ReportRestsOnScore /\ [WorkersNext]_allVars => ReportRestsOnScore'
  BY NextCalls, NextRests
<1>3. QED
  BY <1>1, <1>2, CallsHold, PTL DEF WorkersSpec
(***************************************************************************)
(*                    No running lease is walked away from                 *)
(***************************************************************************)

(* Neither the clock nor a session ever goes back.                         *)
LEMMA NextClock ==
  ASSUME TypeOK, [Next]_vars
  PROVE  now <= now' /\ \A s \in Session : session'[s] = "active" => session[s] = "active"
<1> DEFINE Forth == now <= now' /\ \A s \in Session : session'[s] = "active" => session[s] = "active"
<1>0. now' = now /\ session' = session => Forth
  BY DEF TypeOK
<1>1. ASSUME NEW t \in Task, CreateTask(t) \/ Claim(t) \/ Reap(t) \/ RemoveFile(t) \/ Rollback(t)
      PROVE  now' = now /\ session' = session
  BY <1>1 DEF CreateTask, Claim, Reap, RemoveFile, Rollback
<1>2. ASSUME NEW t \in Task, NEW k \in Attempt, Heartbeat(t, k) PROVE now' = now /\ session' = session
  BY <1>2 DEF Heartbeat
<1>3. ASSUME NEW t \in Task, NEW k \in Attempt, NEW c \in Calls, Begin(t, k, c)
      PROVE  now' = now /\ session' = session
  BY <1>3 DEF Begin
<1>4. ASSUME NEW t \in Task, Commit(t) PROVE now' = now /\ session' = session
  BY <1>4 DEF Commit, Load, StartItem, SaveScore, FinishItemReport, FinishItemError, Finish,
     CommitResult, Fail, Ending
<1>5. ASSUME NEW p \in Profile, EditProfile(p) PROVE now' = now /\ session' = session
  BY <1>5 DEF EditProfile
<1>6. ASSUME NEW s \in Session, Expire(s) \/ Revoke(s) PROVE Forth
  <2>1. now' = now /\ \E v \in {"expired", "gone"} : session' = [session EXCEPT ![s] = v]
    BY <1>6 DEF Expire, Revoke
  <2>2. QED
    BY <2>1 DEF TypeOK
<1>7. ASSUME Tick PROVE Forth
  BY <1>7 DEF Tick, TypeOK
<1>8. ASSUME UNCHANGED vars PROVE now' = now /\ session' = session
  BY <1>8 DEF vars
<1> HIDE DEF Forth
<1>9. Forth
  BY <1>0, <1>1, <1>2, <1>3, <1>4, <1>5, <1>6, <1>7, <1>8 DEF Next
<1>10. QED
  BY <1>9 DEF Forth

(* A lease that runs after a step and is not a new one ran before it.      *)
LEMMA RanBefore ==
  ASSUME RefinementInv, [Next]_vars, NEW t \in Task, task'[t].status = "running", Live(t)'
  PROVE  \/ Claimed(t)
         \/ task[t].status = "running" /\ task'[t].token = task[t].token /\ Live(t)
<1>0. TypeOK /\ TypeOK'
  BY StoreTypes, StoreInvariant DEF RefinementInv, ResultsInv, LeaseInv, SafetyInv
<1>1. LeaseStep(t)
  BY NextLease, StoreTypes
<1>2. now <= now' /\ session[Owner[t]] = "active"
  BY <1>0, NextClock, ConstantsAssumption DEF Live, Active
<1>3. now' < task'[t].lease_until /\ now' < task'[t].deadline_at /\ now \in Nat /\ now' \in Nat
  BY <1>0 DEF Live, TypeOK
<1>4. task[t] \in TaskRow /\ task'[t] \in TaskRow
  BY <1>0 DEF TypeOK
<1>5. CASE Kept(t)
  <2>1. task[t].status = "running" /\ task'[t].token = task[t].token
    BY <1>5 DEF Kept, SameClaim, FINISHED
  <2>2. Live(t)
    BY <1>2, <1>3, <1>4, <1>5 DEF Kept, SameClaim, Live, Active, TaskRow
  <2>3. QED
    BY <2>1, <2>2
<1>6. CASE Renewed(t)
  BY <1>6 DEF Renewed, SameClaim
<1>7. QED
  BY <1>1, <1>5, <1>6 DEF LeaseStep, Forgotten, Created, NoTask

(* A new token is one a worker gets with the coroutine it starts.          *)
LEMMA NewToken ==
  ASSUME CallsInv, [WorkersNext]_allVars, NEW t \in Task
  PROVE  \/ task'[t].token = task[t].token \/ task'[t].status # "running"
         \/ \E w \in Worker : /\ Claim(t) /\ TerminalReason(t) = "none"
                              /\ \E row \in Started(t) : Become(w, row)
<1> DEFINE Old == task'[t].token = task[t].token \/ task'[t].status # "running"
           New == \E w \in Worker : /\ Claim(t) /\ TerminalReason(t) = "none"
                                    /\ \E row \in Started(t) : Become(w, row)
<1>0. TypeOK /\ CoroutinesOK
  BY StoreTypes DEF CallsInv
<1>a. task' = task => Old
  OBVIOUS
<1>b. ASSUME NEW u \in Task, Commit(u) \/ Reap(u) PROVE Old
  <2>1. Kept(t)
    BY <1>0, <1>b, CommitKeepsLease, FailTaskKeepsLease DEF Reap, TerminalReason, Errors
  <2>2. QED
    BY <2>1 DEF Kept, SameClaim
<1>c. ASSUME NEW u \in Task, Rollback(u) PROVE task' = task
  BY <1>c DEF Rollback
<1>1. ASSUME NEW w \in Worker, Polls(w) PROVE Old \/ New
  <2>1. CASE UNCHANGED vars
    BY <1>a, <2>1 DEF vars
  <2>2. ASSUME NEW u \in Task, Claim(u), TerminalReason(u) = "none",
               \E row \in Started(u) : Become(w, row)
        PROVE  Old \/ New
    <3>1. u # t => task'[t] = task[t]
      BY <1>0, <2>2 DEF Claim, TypeOK
    <3>2. QED
      BY <2>2, <3>1
  <2>3. QED
    BY <1>0, <1>1, <1>b, <2>1, <2>2, PollsOnStore
<1>2. ASSUME NEW w \in Worker, OpenCall(w) \/ FenceLost(w) \/ ModelAnswers(w) PROVE task' = task
  BY <1>2 DEF OpenCall, FenceLost, ModelAnswers, Only, Begin, vars
<1>3. ASSUME NEW w \in Worker, CallReturns(w) \/ CallLost(w) \/ CallRefused(w) \/ CallBreaks(w)
      PROVE  Old
  <2>1. worker[w].task \in Task
    BY <1>0, CoroutineTyped
  <2>2. Commit(worker[w].task) \/ Rollback(worker[w].task)
    BY <1>3 DEF CallReturns, CallLost, CallRefused, CallBreaks
  <2>3. QED
    BY <1>a, <1>b, <1>c, <2>1, <2>2
<1>4. ASSUME NEW w \in Worker,
             HeartbeatLost(w) \/ Timeout(w) \/ HeartbeatBreaks(w) \/ Shutdown(w) \/ Crash(w)
      PROVE  task' = task
  BY <1>4, AbandonsNothing DEF vars
<1>5. ASSUME NEW w \in Worker, HeartbeatOk(w) PROVE Old
  <2>1. task' = [task EXCEPT ![worker[w].task].lease_until =
                                LeaseEnd(task[worker[w].task].deadline_at)]
    BY <1>5 DEF HeartbeatOk, Heartbeat
  <2>2. QED
    BY <1>0, <2>1 DEF TypeOK, TaskRow
<1>6. ASSUME NEW o \in orphans, OrphanOpens(o) \/ OrphanDies(o) PROVE task' = task
  BY <1>6 DEF OrphanOpens, OrphanDies, Begin, vars
<1>7. ASSUME NEW u \in Task, UnawaitedEnds(u) PROVE Old
  BY <1>7, <1>a, <1>b, <1>c DEF UnawaitedEnds
<1>8. ASSUME Environment PROVE Old
  <2>1. ASSUME NEW u \in Task, CreateTask(u) PROVE Old
    <3>1. u # t => task'[t] = task[t]
      BY <1>0, <2>1 DEF CreateTask, TypeOK
    <3>2. task'[u].status = "queued"
      BY <1>0, <2>1 DEF CreateTask, TypeOK, NoTask
    <3>3. QED
      BY <3>1, <3>2
  <2>2. ASSUME NEW u \in Task, RemoveFile(u) PROVE task' = task
    BY <2>2 DEF RemoveFile
  <2>3. ASSUME NEW p \in Profile, EditProfile(p) PROVE task' = task
    BY <2>3 DEF EditProfile
  <2>4. ASSUME NEW s \in Session, Expire(s) PROVE task' = task
    BY <2>4 DEF Expire
  <2>5. ASSUME NEW s \in Session, Revoke(s) PROVE Old
    <3>1. task'[t] = task[t] \/ task'[t] = NoTask
      BY <2>5 DEF Revoke
    <3>2. QED
      BY <3>1 DEF NoTask
  <2>6. ASSUME Tick PROVE task' = task
    BY <2>6 DEF Tick
  <2>7. QED
    BY <1>8, <1>a, <2>1, <2>2, <2>3, <2>4, <2>5, <2>6 DEF Environment
<1>9. ASSUME UNCHANGED allVars PROVE task' = task
  BY <1>9 DEF allVars, vars
<1> HIDE DEF Old, New
<1>10. Old \/ New
  BY <1>a, <1>1, <1>2, <1>3, <1>4, <1>5, <1>6, <1>7, <1>8, <1>9 DEF WorkersNext, Works
<1>11. QED
  BY <1>10 DEF Old, New

(* A worker that holds a running lease goes on working under it, unless a  *)
(* crash, a shutdown or a database error takes it away.                    *)
Holds(w, t) ==
  AtWork(worker[w]) /\ worker[w].task = t /\ worker[w].token = task[t].token
StillAt(w) == AtWork(worker'[w]) /\ SameLease(worker[w], worker'[w])

LEMMA FencePasses ==
  ASSUME NEW w \in Worker, NEW t \in Task, Holds(w, t), task[t].status = "running", Live(t),
         txn[t] = NoTxn
  PROVE  Fenced(worker[w].task, worker[w].token)
  BY DEF Holds, Fenced

(* A commit after which the coroutine leaves has ended its task.           *)
LEMMA LastCallEnds ==
  ASSUME CallsInv, NEW t \in Task, Commit(t), txn[t].call.op \in {"finish", "commit_result", "fail"}
  PROVE  task'[t].status # "running"
<1>0. TypeOK
  BY StoreTypes DEF CallsInv
<1>1. Finish(t) \/ CommitResult(t) \/ Fail(t)
  BY DEF Commit, Load, StartItem, SaveScore, FinishItemReport, FinishItemError, Ending
<1>2. CASE Finish(t)
  <2>1. task'[t] = AggregateRow(t, item[t], "none")
    BY <1>0, <1>2 DEF Finish, TypeOK
  <2>2. AggregateRow(t, item[t], "none").status \in FINISHED
    BY <1>0, AggregateRowType DEF TypeOK
  <2>3. QED
    BY <2>1, <2>2 DEF FINISHED
<1>3. CASE CommitResult(t)
  BY <1>0, <1>3 DEF CommitResult, TypeOK, TaskRow
<1>4. CASE Fail(t)
  <2>1. PICK row \in TaskRow : task' = [task EXCEPT ![t] = row] /\ row.status \in FINISHED
    BY <1>0, <1>4, FailTaskRow DEF Fail, Errors
  <2>2. QED
    BY <1>0, <2>1 DEF TypeOK, FINISHED
<1>5. QED
  BY <1>1, <1>2, <1>3, <1>4

LEMMA WorkGoesOn ==
  ASSUME CallsInv, [WorkersNext]_allVars, faults' = 0, NEW w \in Worker, NEW t \in Task,
         Holds(w, t), task[t].status = "running", Live(t), task'[t].status = "running"
  PROVE  StillAt(w)
<1>0. /\ worker \in [Worker -> WorkerRow] /\ faults \in Nat /\ CoroutinesOK /\ TypeOK
      /\ AtWork(worker[w]) /\ worker[w].task = t
  BY StoreTypes, WorkersAssumption DEF CallsInv, WorkersTypeOK, Holds
<1>a. ASSUME worker' = worker PROVE StillAt(w)
  BY <1>0, <1>a DEF StillAt, SameLease
<1>b. ASSUME NEW v \in Worker, NEW next, Become(v, next),
             v = w => AtWork(next) /\ SameLease(worker[w], next)
      PROVE  StillAt(w)
  <2>1. worker'[w] = IF v = w THEN next ELSE worker[w]
    BY <1>0, <1>b DEF Become
  <2>2. QED
    BY <1>0, <1>b, <2>1 DEF StillAt, SameLease
<1>1. ASSUME NEW v \in Worker, Polls(v) PROVE StillAt(w)
  <2>1. v # w
    BY <1>0, <1>1 DEF Polls, Poll, ReapNext, ReapDone, ClaimNext, NothingToClaim, AtWork
  <2>2. QED
    BY <1>1, <1>b, <2>1, PollsWork
<1>2. ASSUME NEW v \in Worker, FenceLost(v) \/ HeartbeatLost(v) PROVE StillAt(w)
  <2>1. v # w
    BY <1>0, <1>2, FencePasses DEF FenceLost, HeartbeatLost
  <2>2. Become(v, Leave)
    BY <1>2 DEF FenceLost, HeartbeatLost, Only
  <2>3. QED
    BY <1>b, <2>1, <2>2
<1>3. ASSUME NEW v \in Worker, OpenCall(v) \/ HeartbeatOk(v) PROVE StillAt(w)
  BY <1>3, <1>a DEF OpenCall, HeartbeatOk, workerVars
<1>4. ASSUME NEW v \in Worker, CallReturns(v) PROVE StillAt(w)
  <2>1. PICK next \in Returned(worker[v]) : Become(v, next)
    BY <1>4 DEF CallReturns
  <2>2. ASSUME v = w PROVE AtWork(next) /\ SameLease(worker[w], next)
    <3>1. PICK row \in WorkerRow : row = worker[w]
      BY <1>0
    <3>2. /\ row.pc = "call" /\ row.token \in Attempt /\ txn[t].call = row.call
          /\ next \in Returned(row)
      BY <1>0, <1>4, <2>2, <3>1, CoroutineTyped, AwaitsItsCall DEF CallReturns
    <3>3. row.call.op \notin {"finish", "commit_result", "fail"}
      BY <1>0, <1>4, <2>2, <3>2, LastCallEnds DEF CallReturns
    <3>4. QED
      BY <1>0, <3>1, <3>2, <3>3, ReturnedGoesOn
  <2>3. QED
    BY <1>b, <2>1, <2>2
<1>5. ASSUME NEW v \in Worker, CallLost(v) PROVE StillAt(w)
  <2>1. v # w /\ Become(v, Leave)
    BY <1>0, <1>5 DEF CallLost
  <2>2. QED
    BY <1>b, <2>1
<1>6. ASSUME NEW v \in Worker, CallRefused(v) PROVE StillAt(w)
  <2>1. PICK next : next = Raised(worker[v]) /\ Become(v, next)
    BY <1>6 DEF CallRefused
  <2>2. ASSUME v = w PROVE AtWork(next) /\ SameLease(worker[w], next)
    <3>1. PICK row \in WorkerRow : row = worker[w]
      BY <1>0
    <3>2. next = Raised(row) /\ txn[t].call = row.call
      BY <1>0, <1>6, <2>1, <2>2, <3>1, AwaitsItsCall, SMTT(60) DEF CallRefused
    <3>3. row.call.op # "fail"
      BY <1>0, <1>6, <2>2, <3>2 DEF CallRefused, Missing, Unfinished, Unscored, Conflict
    <3>4. QED
      BY <3>1, <3>2, <3>3, RaisedFails DEF Fails, GivesUpItem, AtWork
  <2>3. QED
    BY <1>b, <2>1, <2>2
<1>7. ASSUME NEW v \in Worker, ModelAnswers(v) PROVE StillAt(w)
  <2>1. PICK next \in Answered(worker[v]) : Become(v, next)
    BY <1>7 DEF ModelAnswers, Only
  <2>2. SameLease(worker[v], next) /\ next.pc = "call"
    BY <1>0, <1>7, CoroutineTyped, AnsweredWorks DEF ModelAnswers
  <2>3. QED
    BY <1>b, <2>1, <2>2 DEF AtWork
<1>8. ASSUME NEW v \in Worker, Timeout(v) PROVE StillAt(w)
  <2>1. PICK next : next = Issue(worker[v], Call("fail")) /\ Become(v, next)
    BY <1>8 DEF Timeout
  <2>2. SameLease(worker[v], next) /\ next.pc = "call"
    BY <1>0, <2>1, FailIssued DEF Fails
  <2>3. QED
    BY <1>b, <2>1, <2>2 DEF AtWork
<1>9. ASSUME NEW v \in Worker, CallBreaks(v) \/ HeartbeatBreaks(v) \/ Shutdown(v) \/ Crash(v)
      PROVE  FALSE
  <2>1. faults' = faults + 1
    BY <1>9 DEF CallBreaks, HeartbeatBreaks, Shutdown, Crash, Fault
  <2>2. QED
    BY <1>0, <2>1
<1>10. ASSUME NEW o \in orphans, OrphanOpens(o) \/ OrphanDies(o) PROVE StillAt(w)
  BY <1>10, <1>a DEF OrphanOpens, OrphanDies
<1>11. ASSUME NEW u \in Task, UnawaitedEnds(u) PROVE StillAt(w)
  BY <1>11, <1>a DEF UnawaitedEnds, workerVars
<1>12. ASSUME Environment \/ UNCHANGED allVars PROVE StillAt(w)
  <2>1. worker' = worker
    BY <1>12 DEF Environment, allVars, workerVars
  <2>2. QED
    BY <1>a, <2>1
<1>13. QED
  BY <1>1, <1>2, <1>3, <1>4, <1>5, <1>6, <1>7, <1>8, <1>9, <1>10, <1>11, <1>12
  DEF WorkersNext, Works

LEMMA NextHeld ==
  ASSUME CallsInv, [WorkersNext]_allVars, NoAbandonedLease
  PROVE  NoAbandonedLease'
<1>0. [Next]_vars /\ RefinementInv /\ faults \in Nat /\ faults' \in Nat /\ FaultsMove
  BY StepsOfStore, NextOrphans, NextOrphansMove, WorkersAssumption DEF CallsInv, WorkersTypeOK
<1> SUFFICES ASSUME NEW t \in Task, faults' = 0, task'[t].status = "running", Live(t)'
             PROVE  \E w \in Worker : /\ AtWork(worker'[w]) /\ worker'[w].task = t
                                      /\ worker'[w].token = task'[t].token
  BY DEF NoAbandonedLease, Executing, AtWork
<1>1. faults = 0
  BY <1>0 DEF FaultsMove
<1>2. worker \in [Worker -> WorkerRow] /\ task[t] \in TaskRow
  BY StoreTypes DEF CallsInv, WorkersTypeOK, TypeOK
<1>3. ASSUME NEW w \in Worker, Claim(t), TerminalReason(t) = "none",
             NEW row \in Started(t), Become(w, row)
      PROVE  AtWork(worker'[w]) /\ worker'[w].task = t /\ worker'[w].token = task'[t].token
  <2>1. row.pc = "call" /\ row.task = t /\ row.token = task'[t].token
    BY <1>3, StartsWork
  <2>2. worker'[w] = row
    BY <1>2, <1>3 DEF Become
  <2>3. QED
    BY <2>1, <2>2 DEF AtWork
<1>4. CASE task'[t].token # task[t].token
  BY <1>3, <1>4, NewToken
<1>5. CASE task'[t].token = task[t].token
  <2>1. ~Claimed(t)
    <3>1. task[t].token = task[t].attempt /\ task[t].attempt \in Nat
      BY <1>0, <1>2, StoreTypes, ConstantsAssumption DEF LeaseInv, TokenCurrent, TaskRow
    <3>2. QED
      BY <1>5, <3>1 DEF Claimed
  <2>2. task[t].status = "running" /\ Live(t)
    BY <1>0, <2>1, RanBefore
  <2>3. PICK w \in Worker : Holds(w, t)
    BY <1>1, <2>2 DEF NoAbandonedLease, Executing, AtWork, Holds
  <2>4. StillAt(w)
    BY <2>2, <2>3, WorkGoesOn
  <2>5. QED
    BY <1>5, <2>3, <2>4 DEF StillAt, SameLease, Holds
<1>6. QED
  BY <1>4, <1>5

(* While nothing breaks, a running task with a running lease has a worker  *)
(* at work on it: no path through a coroutine drops a lease it holds, so   *)
(* only faults leave a task to the wait for its lease to run out.          *)
THEOREM LeasesAreWorked == WorkersSpec => []NoAbandonedLease
<1>1. WorkersInit => NoAbandonedLease
  BY DEF WorkersInit, Init, NoAbandonedLease, NoTask
<1>2. CallsInv /\ NoAbandonedLease /\ [WorkersNext]_allVars => NoAbandonedLease'
  BY NextHeld
<1>3. QED
  BY <1>1, <1>2, CallsHold, PTL DEF WorkersSpec
=============================================================================
