----------------------------- MODULE UploadsProofs -----------------------------
(***************************************************************************)
(* Proofs about Uploads: no crash, lost commit or failed unlink leaves an  *)
(* original without a reservation, no cleanup removes one that an open     *)
(* task still needs, and retries of a request agree on one task.           *)
(***************************************************************************)
EXTENDS Uploads, TLAPS

(*-------------------------------- Types ---------------------------------*)

LEMMA InitTypeOK == Init => TypeOK
  BY UploadsAssumption DEF Init, TypeOK, CallRow, Step, NoRow, NoDoc, NoSweep

(* A call takes its next step, and the session lock with it.               *)
LEMMA CallTyped ==
  ASSUME TypeOK, NEW u \in Upload, NEW step \in Step, NEW answer \in Upload \cup {Nobody},
         \/ call' = [call EXCEPT ![u] = [at |-> step, asked |-> now, answer |-> answer]]
         \/ call' = [call EXCEPT ![u].at = step, ![u].answer = answer]
         \/ call' = [call EXCEPT ![u].at = step],
         \/ step \in {"locked", "written"} /\ holder' = u /\ (holder = Nobody \/ holder = u)
         \/ /\ step \notin {"locked", "written"}
            /\ \/ Unlock(u)
               \/ holder' = holder /\ call[u].at \notin {"locked", "written"}
  PROVE  /\ call' \in [Upload -> CallRow]
         /\ holder' \in Upload \cup {Nobody}
         /\ \A v \in Upload : holder' = v <=> call'[v].at \in {"locked", "written"}
<1>1. now \in Nat /\ \A v \in Upload : call[v] \in CallRow
  BY UploadsAssumption DEF TypeOK, CallRow
<1>2. call' \in [Upload -> CallRow]
  <2>1. PICK row \in CallRow : call' = [call EXCEPT ![u] = row]
    <3>1. [at |-> step, asked |-> now, answer |-> answer] \in CallRow
      BY <1>1 DEF CallRow
    <3>2. /\ [call[u] EXCEPT !.at = step] \in CallRow
          /\ [call[u] EXCEPT !.at = step, !.answer = answer] \in CallRow
      BY <1>1 DEF CallRow
    <3>3. QED
      BY <3>1, <3>2
  <2>2. QED
    BY <2>1 DEF TypeOK, CallRow
<1>3. \A v \in Upload : call'[v].at = IF v = u THEN step ELSE call[v].at
  BY <1>1 DEF TypeOK, CallRow
<1>4. holder' \in Upload \cup {Nobody}
  BY DEF TypeOK, Unlock
<1>5. \A v \in Upload : holder' = v <=> call'[v].at \in {"locked", "written"}
  BY <1>3, UploadsAssumption DEF TypeOK, Unlock
<1>6. QED
  BY <1>2, <1>4, <1>5

LEMMA QueuedTyped ==
  ASSUME TypeOK, NEW row \in [exists : BOOLEAN, created : Nat, due : Nat], NEW due \in Nat
  PROVE  Queued(row, due) \in [exists : BOOLEAN, created : Nat, due : Nat]
<1>1. now \in Nat
  BY UploadsAssumption DEF TypeOK
<1>2. row.due \in Nat /\ IF due < row.due THEN due \in Nat ELSE row.due \in Nat
  OBVIOUS
<1>3. \A d \in Nat : [row EXCEPT !.due = d] \in [exists : BOOLEAN, created : Nat, due : Nat]
  OBVIOUS
<1>4. [exists |-> TRUE, created |-> now, due |-> due] \in [exists : BOOLEAN, created : Nat, due : Nat]
  BY <1>1
<1>5. QED
  BY <1>2, <1>3, <1>4 DEF Queued

LEMMA FaultCounts == TypeOK /\ (Fault \/ UNCHANGED faults) => faults' \in 0..MaxFaults
  BY UploadsAssumption DEF TypeOK, Fault

LEMMA CallStepTyped ==
  ASSUME TypeOK, NEW u \in Upload, CallStep(u) \/ CallFault(u)
  PROVE  TypeOK'
<1>0. /\ faults' \in 0..MaxFaults /\ UNCHANGED <<now, alive, sweep>>
      /\ now \in Nat /\ now + DELAY \in Nat
  BY FaultCounts, UploadsAssumption
  DEF TypeOK, CallStep, CallFault, Reserve, Lock, CreateFile, CreateFails, Rejected, Commit, CommitUnknown,
      Committed, Unlink, UnlinkFails, Expedite, Discard, BookkeepingFails
<1>1. CASE Reserve(u)
  <2>1. Goto(u, "reserved") /\ UNCHANGED <<holder, disk, doc, keys>> /\ At(u, "idle")
        /\ queue' = [queue EXCEPT ![u] = Queued(queue[u], now + DELAY)]
    BY <1>1 DEF Reserve
  <2>2. queue' \in [Upload -> [exists : BOOLEAN, created : Nat, due : Nat]]
    BY <1>0, <2>1, QueuedTyped DEF TypeOK
  <2>3. QED
    BY <1>0, <2>1, <2>2, CallTyped DEF TypeOK, Goto, At, Step
<1>2. CASE Lock(u)
  <2>1. Replay(u) \in Upload \cup {Nobody}
    BY UploadsAssumption DEF TypeOK, Replay
  <2>2. UNCHANGED <<disk, queue, doc, keys>> /\ At(u, "reserved") /\ holder = Nobody
        /\ \/ /\ call' = [call EXCEPT ![u] = [at |-> "locked", asked |-> now, answer |-> Nobody]]
              /\ holder' = u
           \/ /\ call' = [call EXCEPT ![u] =
                              [at |-> "discard", asked |-> now, answer |-> Replay(u)]]
              /\ holder' = holder
    BY <1>2 DEF Lock
  <2>3. "locked" \in Step /\ "discard" \in Step
    BY DEF Step
  <2>4. CASE holder' = u /\ call' = [call EXCEPT ![u] = [at |-> "locked", asked |-> now, answer |-> Nobody]]
    BY <1>0, <2>2, <2>3, <2>4, CallTyped DEF TypeOK
  <2>5. CASE /\ holder' = holder
             /\ call' = [call EXCEPT ![u] = [at |-> "discard", asked |-> now, answer |-> Replay(u)]]
    <3>1. PICK answer \in Upload \cup {Nobody} :
            call' = [call EXCEPT ![u] = [at |-> "discard", asked |-> now, answer |-> answer]]
      BY <2>1, <2>5
    <3>2. /\ call' \in [Upload -> CallRow] /\ holder' \in Upload \cup {Nobody}
          /\ \A v \in Upload : holder' = v <=> call'[v].at \in {"locked", "written"}
      BY <2>2, <2>3, <2>5, <3>1, CallTyped, ZenonT(60) DEF At
    <3>3. QED
      BY <1>0, <2>2, <3>2 DEF TypeOK
  <2>6. QED
    BY <2>2, <2>4, <2>5
<1>3. CASE CreateFile(u)
  <2>1. holder = u /\ holder' = u /\ Goto(u, "written") /\ UNCHANGED <<queue, doc, keys>>
        /\ disk' = disk \cup {u}
    BY <1>3 DEF CreateFile, At, TypeOK
  <2>2. QED
    BY <1>0, <2>1, CallTyped DEF TypeOK, Goto, Step
<1>4. CASE CreateFails(u)
  BY <1>0, <1>4, CallTyped, ZenonT(60) DEF CreateFails, TypeOK, Goto, Step
<1>5. CASE Rejected(u)
  BY <1>0, <1>5, CallTyped, ZenonT(60) DEF Rejected, TypeOK, Goto, Step
<1>6. CASE Commit(u) \/ CommitUnknown(u)
  <2>1. Unlock(u) /\ UNCHANGED <<disk, queue>>
        /\ doc' = [doc EXCEPT ![u] = [task |-> "open", stored |-> TRUE]]
        /\ keys' = [keys EXCEPT ![KeyOf[u]] = u]
    BY <1>6 DEF Commit, CommitUnknown, Committed
  <2>2. \/ call' = [call EXCEPT ![u].at = "over", ![u].answer = u]
        \/ Goto(u, "unlink")
    BY <1>6 DEF Commit, CommitUnknown
  <2>3. doc' \in [Upload -> [task : {"none", "open", "ended"}, stored : BOOLEAN]]
        /\ keys' \in [Key -> Upload \cup {Nobody}]
    BY <2>1 DEF TypeOK
  <2>4. QED
    BY <1>0, <2>1, <2>2, <2>3, CallTyped, ZenonT(60) DEF TypeOK, Goto, Step
<1>7. CASE Unlink(u)
  BY <1>0, <1>7, CallTyped, ZenonT(60) DEF Unlink, TypeOK, Goto, At, Step
<1>8. CASE UnlinkFails(u)
  BY <1>0, <1>8, CallTyped, ZenonT(60) DEF UnlinkFails, TypeOK, Goto, At, Step
<1>9. CASE Expedite(u)
  <2>1. queue' \in [Upload -> [exists : BOOLEAN, created : Nat, due : Nat]]
    BY <1>0, <1>9, QueuedTyped DEF Expedite, TypeOK
  <2>2. QED
    BY <1>0, <1>9, <2>1, CallTyped, ZenonT(60) DEF Expedite, TypeOK, Goto, At, Step
<1>10. CASE Discard(u)
  <2>1. queue' \in [Upload -> [exists : BOOLEAN, created : Nat, due : Nat]]
    BY <1>10 DEF Discard, TypeOK, NoRow
  <2>2. QED
    BY <1>0, <1>10, <2>1, CallTyped, ZenonT(60) DEF Discard, TypeOK, Goto, At, Step
<1>11. CASE BookkeepingFails(u)
  BY <1>0, <1>11, CallTyped, ZenonT(60) DEF BookkeepingFails, TypeOK, Goto, At, Step
<1>12. QED
  BY <1>1, <1>2, <1>3, <1>4, <1>5, <1>6, <1>7, <1>8, <1>9, <1>10, <1>11 DEF CallStep, CallFault

LEMMA SweepTyped ==
  ASSUME TypeOK, NEW c \in Cleaner, SweepStep(c) \/ SweepFault(c)
  PROVE  TypeOK'
<1>0. faults' \in 0..MaxFaults /\ UNCHANGED <<now, alive, holder, call, keys>>
  BY FaultCounts DEF SweepStep, SweepFault, Take, EndSweep, RemoveFile, RemoveFails, AbortSweep
<1>1. NoSweep \in [rows : SUBSET Upload, unlinked : SUBSET Upload, again : [Upload -> Nat]]
  BY DEF NoSweep
<1>2. CASE Take(c)
  <2>1. sweep' \in [Cleaner -> [rows : SUBSET Upload, unlinked : SUBSET Upload, again : [Upload -> Nat]]]
    BY <1>1, <1>2 DEF Take, TypeOK
  <2>2. QED
    BY <1>0, <1>2, <2>1 DEF Take, TypeOK
<1>3. CASE EndSweep(c)
  <2>1. sweep' \in [Cleaner -> [rows : SUBSET Upload, unlinked : SUBSET Upload, again : [Upload -> Nat]]]
    BY <1>1, <1>3 DEF EndSweep, TypeOK
  <2>2. \A u \in Upload : sweep[c].again[u] \in Nat
    BY DEF TypeOK
  <2>3. queue' \in [Upload -> [exists : BOOLEAN, created : Nat, due : Nat]]
    <3>1. \A u \in Upload : queue[u] \in [exists : BOOLEAN, created : Nat, due : Nat]
      BY DEF TypeOK
    <3>2. \A u \in Upload : [queue[u] EXCEPT !.due = sweep[c].again[u]]
                                \in [exists : BOOLEAN, created : Nat, due : Nat]
      BY <2>2, <3>1
    <3>3. NoRow \in [exists : BOOLEAN, created : Nat, due : Nat]
      BY DEF NoRow
    <3>4. QED
      BY <1>3, <3>1, <3>2, <3>3 DEF EndSweep
  <2>4. doc' \in [Upload -> [task : {"none", "open", "ended"}, stored : BOOLEAN]]
    BY <1>3, ZenonT(60) DEF EndSweep, TypeOK
  <2>5. QED
    BY <1>0, <1>3, <2>1, <2>3, <2>4 DEF EndSweep, TypeOK
<1>4. ASSUME NEW u \in Upload, RemoveFile(c, u) PROVE TypeOK'
  <2>1. sweep' \in [Cleaner -> [rows : SUBSET Upload, unlinked : SUBSET Upload, again : [Upload -> Nat]]]
    BY <1>4, ZenonT(60) DEF RemoveFile, TypeOK
  <2>2. QED
    BY <1>0, <1>4, <2>1 DEF RemoveFile, TypeOK
<1>5. ASSUME NEW u \in Upload, RemoveFails(c, u) PROVE TypeOK'
  <2>1. now + RETRY \in Nat
    BY UploadsAssumption DEF TypeOK
  <2>2. sweep' \in [Cleaner -> [rows : SUBSET Upload, unlinked : SUBSET Upload, again : [Upload -> Nat]]]
    BY <1>5, <2>1, ZenonT(60) DEF RemoveFails, TypeOK
  <2>3. QED
    BY <1>0, <1>5, <2>2 DEF RemoveFails, TypeOK
<1>6. CASE AbortSweep(c)
  BY <1>0, <1>1, <1>6 DEF AbortSweep, TypeOK
<1>7. QED
  BY <1>2, <1>3, <1>4, <1>5, <1>6 DEF SweepStep, SweepFault

LEMMA NextTypeOK == TypeOK /\ [Next]_vars => TypeOK'
<1> SUFFICES ASSUME TypeOK, [Next]_vars PROVE TypeOK'
  OBVIOUS
<1>0. now \in Nat /\ \A u \in Upload : Queued(queue[u], now) \in [exists : BOOLEAN, created : Nat, due : Nat]
  <2>1. now \in Nat /\ \A u \in Upload : queue[u] \in [exists : BOOLEAN, created : Nat, due : Nat]
    BY UploadsAssumption DEF TypeOK
  <2>2. QED
    BY <2>1, QueuedTyped
<1>1. ASSUME NEW u \in Upload, Release(u) PROVE TypeOK'
  <2>1. queue' \in [Upload -> [exists : BOOLEAN, created : Nat, due : Nat]]
    BY <1>0, <1>1 DEF Release, TypeOK
  <2>2. doc' \in [Upload -> [task : {"none", "open", "ended"}, stored : BOOLEAN]]
    BY <1>1, ZenonT(60) DEF Release, TypeOK
  <2>3. QED
    BY <1>1, <2>1, <2>2 DEF Release, TypeOK
<1>2. CASE Crash
  <2>0. \A v \in Upload : call[v] \in CallRow
    BY DEF TypeOK
  <2>1. \A v \in Upload : call'[v].at \notin {"locked", "written"}
    BY <1>2, <2>0, UploadsAssumption, ZenonT(60) DEF Crash, Working, CallRow, TypeOK
  <2>2. call' \in [Upload -> CallRow]
    <3>1. "over" \in Step
      BY DEF Step
    <3>2. \A v \in Upload : [call[v] EXCEPT !.at = "over", !.answer = Nobody] \in CallRow
      BY <2>0, <3>1 DEF CallRow
    <3>3. QED
      BY <1>2, <2>0, <3>2 DEF Crash
  <2>3. faults' \in 0..MaxFaults
    BY <1>2, FaultCounts DEF Crash
  <2>4. QED
    BY <1>2, <2>1, <2>2, <2>3, UploadsAssumption DEF Crash, TypeOK
<1>3. CASE Revoke
  BY <1>0, <1>3 DEF Revoke, TypeOK, NoDoc
<1>4. CASE Tick
  BY <1>4, UploadsAssumption DEF Tick, TypeOK
<1>5. CASE UNCHANGED vars
  BY <1>5 DEF vars, TypeOK
<1>6. QED
  BY <1>1, <1>2, <1>3, <1>4, <1>5, CallStepTyped, SweepTyped DEF Next

(* Rows, calls and sweeps are well-formed, and one call at most holds the  *)
(* session row.                                                            *)
THEOREM UploadsTyped == Spec => []TypeOK
  BY InitTypeOK, NextTypeOK, PTL DEF Spec

(*---------------------------- The invariant -----------------------------*)

(* A reservation that no cleanup takes yet.                                *)
Reserved(u) ==
  queue[u].exists /\ now < queue[u].created + DELAY /\ queue[u].created + DELAY <= queue[u].due

(* Where a call is tells what there is of its original.                    *)
CallOK(u) ==
  /\ At(u, "idle") => queue[u] = NoRow
  /\ call[u].at \in {"idle", "reserved", "locked", "written"} => doc[u] = NoDoc
  /\ call[u].at \in {"idle", "reserved", "locked", "discard"} => u \notin disk
  /\ call[u].at \in {"reserved", "locked", "written"} => Reserved(u)
  /\ At(u, "written") => u \in disk
  /\ call[u].answer = u => At(u, "over")

OriginalOK(u) ==
  /\ u \in disk => queue[u].exists
  /\ u \in disk /\ doc[u].task # "none" => doc[u].stored
  /\ call[u].answer = u /\ doc[u].task = "open" /\ doc[u].stored =>
       /\ queue[u].exists
       /\ now < queue[u].created + DELAY => u \in disk /\ queue[u].created + DELAY <= queue[u].due

UploadOK(u) == CallOK(u) /\ OriginalOK(u)

(* Cleaners hold different rows, all due, and what they unlinked is gone.  *)
SweepsOK ==
  \A c \in Cleaner :
    /\ sweep[c].unlinked \subseteq sweep[c].rows /\ sweep[c].unlinked \cap disk = {}
    /\ \A u \in sweep[c].rows : Due(u)
    /\ \A d \in Cleaner \ {c} : sweep[c].rows \cap sweep[d].rows = {}

(* The key of upload u had run out when upload v asked.                    *)
Before(u, v) == call[u].asked + KEY_LIFE <= call[v].asked

(* What an upload is answered with.                                        *)
Answers(first, u) ==
  /\ KeyOf[first] = KeyOf[u] /\ doc[first].task # "none"
  /\ call[u].asked < call[first].asked + KEY_LIFE

(* A key names the latest upload of its request that has a task; those     *)
(* before it, and before an upload about to commit, are a day older.       *)
KeysOK ==
  /\ \A k \in Key : keys[k] # Nobody => KeyOf[keys[k]] = k /\ doc[keys[k]].task # "none"
  /\ \A u \in Upload : doc[u].task # "none" =>
       keys[KeyOf[u]] # Nobody /\ (u = keys[KeyOf[u]] \/ Before(u, keys[KeyOf[u]]))
  /\ \A u, v \in Upload :
       KeyOf[u] = KeyOf[v] /\ u # v /\ doc[u].task # "none" /\ doc[v].task # "none" =>
         Before(u, v) \/ Before(v, u)
  /\ \A u \in Upload : call[u].at \in {"locked", "written"} =>
       /\ alive
       /\ \A v \in Upload : KeyOf[v] = KeyOf[u] /\ doc[v].task # "none" => Before(v, u)
  /\ alive => \A u \in Upload : call[u].answer # Nobody => Answers(call[u].answer, u)

UploadsInv == TypeOK /\ (\A u \in Upload : UploadOK(u)) /\ SweepsOK /\ KeysOK

(*----------------------------- What is kept -----------------------------*)

Unmoved(u) ==
  call'[u] = call[u] /\ (u \in disk' <=> u \in disk) /\ queue'[u] = queue[u] /\ doc'[u] = doc[u]

LEMMA UnmovedOK ==
  ASSUME NEW u \in Upload, UploadOK(u), Unmoved(u), now' = now
  PROVE  UploadOK(u)'
  BY DEF UploadOK, CallOK, OriginalOK, Reserved, At, Unmoved

(* A row somebody is removing is due: no reservation is.                   *)
LEMMA ReservedIsFree ==
  ASSUME TypeOK, SweepsOK, NEW u \in Upload, Reserved(u) \/ queue[u] = NoRow
  PROVE  ~RowLocked(u)
<1>1. now \in Nat /\ queue[u].due \in Nat /\ queue[u].created \in Nat /\ DELAY \in Nat
  BY UploadsAssumption DEF TypeOK
<1>2. ~Due(u)
  BY <1>1 DEF Due, Reserved, NoRow
<1>3. QED
  BY <1>2 DEF RowLocked, SweepsOK

(* A step of call u that is over with original u keeps what the cleaners   *)
(* rely on, if it leaves the rows they hold alone.                         *)
LEMMA CallKeepsSweeps ==
  ASSUME TypeOK, SweepsOK, NEW u \in Upload, \A v \in Upload \ {u} : Unmoved(v),
         now' = now, sweep' = sweep, disk' \subseteq Upload,
         queue'[u] = queue[u] \/ ~RowLocked(u), u \in disk' => u \in disk \/ ~RowLocked(u)
  PROVE  SweepsOK'
<1>1. \A c \in Cleaner : sweep[c].rows \subseteq Upload /\ sweep[c].unlinked \subseteq sweep[c].rows
  BY DEF TypeOK, SweepsOK
<1>2. ASSUME NEW c \in Cleaner, NEW v \in sweep[c].rows PROVE Due(v)'
  <2>1. v \in Upload /\ Due(v) /\ RowLocked(v)
    BY <1>1, <1>2 DEF SweepsOK, RowLocked
  <2>2. queue'[v] = queue[v]
    BY <2>1 DEF Unmoved
  <2>3. QED
    BY <2>1, <2>2 DEF Due
<1>3. ASSUME NEW c \in Cleaner, NEW v \in sweep[c].unlinked PROVE v \notin disk'
  <2>1. v \in Upload /\ v \notin disk /\ RowLocked(v)
    BY <1>1, <1>3 DEF SweepsOK, RowLocked
  <2>2. QED
    BY <2>1 DEF Unmoved
<1>4. QED
  BY <1>2, <1>3 DEF SweepsOK

(* A step that creates and forgets no task keeps what the keys say, unless *)
(* it takes the lock or answers a retry.                                   *)
LEMMA SameKeys ==
  ASSUME TypeOK, KeysOK, UNCHANGED <<keys, alive>>,
         \A v \in Upload : doc'[v].task = "none" <=> doc[v].task = "none",
         \A v \in Upload :
           /\ call'[v].at \in {"locked", "written"} => call[v].at \in {"locked", "written"}
           /\ call'[v].answer \in {call[v].answer, Nobody}
           /\ call'[v].asked = call[v].asked
  PROVE  KeysOK'
<1>1. \A k \in Key : keys[k] # Nobody => keys[k] \in Upload
  BY DEF TypeOK
<1>2. \A v \in Upload : call[v].answer # Nobody => call[v].answer \in Upload
  BY DEF TypeOK, CallRow
<1>3. \A u, v \in Upload : Before(u, v)' <=> Before(u, v)
  BY DEF Before
<1>4. \A u, v \in Upload : Answers(u, v) => Answers(u, v)'
  BY DEF Answers
<1>5. \A u \in Upload : keys[KeyOf[u]] # Nobody => keys[KeyOf[u]] \in Upload
  BY <1>1, UploadsAssumption
<1>6. QED
  BY <1>1, <1>2, <1>3, <1>4, <1>5 DEF KeysOK

(*------------------------ The steps of a request ------------------------*)

(* A step of one call leaves the other uploads alone.                      *)
LEMMA CallElsewhere ==
  ASSUME TypeOK, NEW u \in Upload, CallStep(u) \/ CallFault(u)
  PROVE  /\ \A v \in Upload \ {u} : Unmoved(v)
         /\ UNCHANGED <<now, alive, sweep>>
<1> USE DEF TypeOK, Unmoved, Goto
<1>1. CASE Reserve(u) \/ Expedite(u) \/ Discard(u)
  BY <1>1 DEF Reserve, Expedite, Discard
<1>2. CASE Lock(u) \/ Rejected(u) \/ BookkeepingFails(u) \/ UnlinkFails(u)
  BY <1>2 DEF Lock, Rejected, BookkeepingFails, UnlinkFails
<1>3. CASE CreateFile(u) \/ CreateFails(u) \/ Unlink(u)
  BY <1>3 DEF CreateFile, CreateFails, Unlink
<1>4. CASE Commit(u) \/ CommitUnknown(u)
  BY <1>4 DEF Commit, CommitUnknown, Committed
<1>5. QED
  BY <1>1, <1>2, <1>3, <1>4 DEF CallStep, CallFault

(* So it is enough to look at that upload and at the keys.                 *)
LEMMA CallKeeps ==
  ASSUME UploadsInv, NEW u \in Upload, CallStep(u) \/ CallFault(u), UploadOK(u)', KeysOK',
         queue'[u] = queue[u] \/ ~RowLocked(u), u \in disk' => u \in disk \/ ~RowLocked(u)
  PROVE  UploadsInv'
<1>1. TypeOK'
  BY CallStepTyped DEF UploadsInv
<1>2. \A v \in Upload : UploadOK(v)'
  BY CallElsewhere, UnmovedOK DEF UploadsInv
<1>3. SweepsOK'
  BY <1>1, CallElsewhere, CallKeepsSweeps DEF UploadsInv, TypeOK
<1>4. QED
  BY <1>1, <1>2, <1>3 DEF UploadsInv

(* A step that only moves a call on, not into the resource transaction.    *)
LEMMA GotoKeeps ==
  ASSUME UploadsInv, NEW u \in Upload, CallStep(u) \/ CallFault(u), NEW step \in Step,
         Goto(u, step), step \notin {"locked", "written"}, UNCHANGED <<keys, doc>>
  PROVE  /\ call'[u].at = step /\ call'[u].answer = call[u].answer
         /\ doc'[u] = doc[u] /\ KeysOK' /\ now' = now
<1>1. /\ call'[u].at = step /\ call'[u].answer = call[u].answer /\ call'[u].asked = call[u].asked
      /\ \A v \in Upload \ {u} : call'[v] = call[v]
  BY DEF Goto, UploadsInv, TypeOK, CallRow
<1>2. UNCHANGED <<alive, now>>
  BY CallElsewhere DEF UploadsInv
<1>3. KeysOK'
  BY <1>1, <1>2, SameKeys DEF UploadsInv
<1>4. QED
  BY <1>1, <1>2, <1>3

LEMMA ReserveKeeps ==
  ASSUME UploadsInv, NEW u \in Upload, Reserve(u)
  PROVE  UploadsInv'
<1>0. CallStep(u) /\ "reserved" \in Step
  BY DEF CallStep, Step
<1>1. /\ queue[u] = NoRow /\ doc[u] = NoDoc /\ u \notin disk /\ disk' = disk
      /\ call[u].answer # u /\ call[u].at = "idle"
  BY DEF Reserve, UploadsInv, UploadOK, CallOK, At, NoDoc
<1>2. queue'[u] = [exists |-> TRUE, created |-> now, due |-> now + DELAY]
  BY <1>1 DEF Reserve, Queued, NoRow, UploadsInv, TypeOK
<1>3. call'[u].at = "reserved" /\ call'[u].answer # u /\ doc'[u] = doc[u] /\ KeysOK' /\ now' = now
  BY <1>0, <1>1, GotoKeeps DEF Reserve
<1>4. Reserved(u)'
  BY <1>2, <1>3, UploadsAssumption DEF Reserved, UploadsInv, TypeOK
<1>5. UploadOK(u)'
  BY <1>1, <1>3, <1>4 DEF UploadOK, CallOK, OriginalOK, At, NoDoc
<1>6. QED
  BY <1>0, <1>1, <1>3, <1>5, ReservedIsFree, CallKeeps DEF UploadsInv

(* An upload without a task asks for its key.                              *)
LEMMA AskingKeeps ==
  ASSUME TypeOK, KeysOK, UNCHANGED <<keys, alive, doc>>, NEW u \in Upload, doc[u].task = "none",
         \A v \in Upload \ {u} : call'[v] = call[v],
         call'[u].at \in {"locked", "written"} =>
           alive /\ \A v \in Upload : KeyOf[v] = KeyOf[u] /\ doc[v].task # "none" => Before(v, u)',
         (call[u].answer # Nobody => Answers(call[u].answer, u))'
  PROVE  KeysOK'
<1>1. \A v \in Upload : doc[v].task # "none" => v # u /\ call'[v] = call[v]
  OBVIOUS
<1>2. \A v, w \in Upload \ {u} : Before(v, w)' <=> Before(v, w)
  BY DEF Before
<1>3. \A v \in Upload : keys[KeyOf[v]] # Nobody =>
        keys[KeyOf[v]] \in Upload \ {u} /\ doc[keys[KeyOf[v]]].task # "none"
  BY UploadsAssumption DEF TypeOK, KeysOK
<1>4. ASSUME NEW v \in Upload, doc[v].task # "none"
      PROVE  keys[KeyOf[v]] # Nobody /\ (v = keys[KeyOf[v]] \/ Before(v, keys[KeyOf[v]])')
  BY <1>1, <1>2, <1>3, <1>4 DEF KeysOK
<1>5. ASSUME NEW v \in Upload, NEW w \in Upload, KeyOf[v] = KeyOf[w], v # w,
             doc[v].task # "none", doc[w].task # "none"
      PROVE  Before(v, w)' \/ Before(w, v)'
  BY <1>1, <1>2, <1>5 DEF KeysOK
<1>6. ASSUME NEW v \in Upload, call'[v].at \in {"locked", "written"}
      PROVE  alive /\ \A w \in Upload : KeyOf[w] = KeyOf[v] /\ doc[w].task # "none" => Before(w, v)'
  BY <1>1, <1>2, <1>6 DEF KeysOK
<1>7. ASSUME alive, NEW v \in Upload, call'[v].answer # Nobody PROVE Answers(call[v].answer, v)'
  <2>1. CASE v = u
    BY <1>7, <2>1 DEF Answers
  <2>2. CASE v # u
    <3>1. call'[v] = call[v] /\ call[v].answer \in Upload /\ Answers(call[v].answer, v)
      BY <1>7, <2>2 DEF TypeOK, CallRow, KeysOK
    <3>2. call'[call[v].answer] = call[call[v].answer]
      BY <1>1, <3>1 DEF Answers
    <3>3. QED
      BY <3>1, <3>2 DEF Answers
  <2>3. QED
    BY <2>1, <2>2
<1>8. QED
  BY <1>4, <1>5, <1>6, <1>7 DEF KeysOK

LEMMA LockKeeps ==
  ASSUME UploadsInv, NEW u \in Upload, Lock(u)
  PROVE  UploadsInv'
<1>0. CallStep(u)
  BY DEF CallStep
<1>1. /\ doc[u] = NoDoc /\ u \notin disk /\ Reserved(u) /\ call[u].answer # u
      /\ UNCHANGED <<disk, queue, doc, keys, now, alive>> /\ call[u].at = "reserved"
  BY DEF Lock, UploadsInv, UploadOK, CallOK, At
<1>2. Reserved(u)'
  BY <1>1 DEF Reserved
<1>3. Replay(u) # u
  BY <1>1, UploadsAssumption DEF Replay, UploadsInv, KeysOK, NoDoc
<1>r. call[u] \in CallRow /\ now \in Nat /\ KeyOf[u] \in Key
  BY UploadsAssumption DEF UploadsInv, TypeOK
<1>4. CASE alive /\ Replay(u) = Nobody
  <2>1. /\ call'[u].at = "locked" /\ call'[u].answer = Nobody /\ call'[u].asked = now
        /\ \A v \in Upload \ {u} : call'[v] = call[v]
    BY <1>4 DEF Lock, UploadsInv, TypeOK
  <2>2. UploadOK(u)'
    BY <1>1, <1>2, <2>1, UploadsAssumption DEF UploadOK, CallOK, OriginalOK, At, NoDoc
  <2>3. \A v \in Upload : KeyOf[v] = KeyOf[u] /\ doc[v].task # "none" => Before(v, u)'
    <3>1. ASSUME NEW v \in Upload, KeyOf[v] = KeyOf[u], doc[v].task # "none"
          PROVE  call[v].asked + KEY_LIFE <= now
      <4> DEFINE last == keys[KeyOf[u]]
      <4>1. last \in Upload /\ last # Nobody /\ (v = last \/ Before(v, last))
        BY <1>r, <3>1, UploadsAssumption DEF UploadsInv, TypeOK, KeysOK
      <4>2. ~(now < call[last].asked + KEY_LIFE)
        BY <1>4, <4>1 DEF Replay, Fresh
      <4>3. call[v].asked \in Nat /\ call[last].asked \in Nat /\ KEY_LIFE \in Nat
        BY <3>1, <4>1, UploadsAssumption DEF UploadsInv, TypeOK, CallRow
      <4> HIDE DEF last
      <4>4. QED
        BY <1>r, <4>1, <4>2, <4>3 DEF Before
    <3>2. QED
      BY <1>1, <2>1, <3>1 DEF Before, NoDoc
  <2>4. KeysOK'
    <3>1. doc[u].task = "none" /\ (call[u].answer # Nobody => Answers(call[u].answer, u))'
      BY <1>1, <2>1 DEF NoDoc
    <3>2. QED
      BY <1>1, <1>4, <2>1, <2>3, <3>1, AskingKeeps DEF UploadsInv
  <2>5. QED
    BY <1>0, <1>1, <2>2, <2>4, CallKeeps
<1>5. CASE ~(alive /\ Replay(u) = Nobody)
  <2>1. /\ call'[u].at = "discard" /\ call'[u].answer = Replay(u) /\ call'[u].asked = now
        /\ \A v \in Upload \ {u} : call'[v] = call[v]
    BY <1>5 DEF Lock, UploadsInv, TypeOK
  <2>2. UploadOK(u)'
    BY <1>1, <1>3, <2>1 DEF UploadOK, CallOK, OriginalOK, At
  <2>3. ASSUME Replay(u) # Nobody PROVE Answers(call[u].answer, u)'
    <3> DEFINE first == keys[KeyOf[u]]
    <3>1. Replay(u) = first /\ first # Nobody /\ now < call[first].asked + KEY_LIFE
      BY <2>3 DEF Replay, Fresh
    <3>2. first \in Upload \ {u} /\ KeyOf[first] = KeyOf[u] /\ doc[first].task # "none"
      BY <1>3, <1>r, <3>1 DEF UploadsInv, TypeOK, KeysOK
    <3>3. /\ KeyOf[first] = KeyOf[u] /\ doc'[first].task # "none"
          /\ call'[u].asked < call'[first].asked + KEY_LIFE
      <4> HIDE DEF first
      <4>1. QED
        BY <1>1, <2>1, <3>1, <3>2
    <3>4. call'[u].answer = first
      BY <2>1, <3>1
    <3> HIDE DEF first
    <3>5. QED
      BY <3>3, <3>4 DEF Answers
  <2>4. KeysOK'
    <3>1. doc[u].task = "none" /\ call'[u].at \notin {"locked", "written"}
      BY <1>1, <2>1 DEF NoDoc
    <3>2. (call[u].answer # Nobody => Answers(call[u].answer, u))'
      BY <2>1, <2>3 DEF Answers
    <3>3. QED
      BY <1>1, <2>1, <3>1, <3>2, AskingKeeps DEF UploadsInv
  <2>5. QED
    BY <1>0, <1>1, <2>2, <2>4, CallKeeps
<1>6. QED
  BY <1>4, <1>5

LEMMA CreateFileKeeps ==
  ASSUME UploadsInv, NEW u \in Upload, CreateFile(u)
  PROVE  UploadsInv'
<1>0. CallStep(u)
  BY DEF CallStep
<1>1. /\ doc[u] = NoDoc /\ Reserved(u) /\ call[u].answer # u /\ call[u].at = "locked"
      /\ UNCHANGED <<queue, doc, keys, now, alive>> /\ u \in disk'
  BY DEF CreateFile, UploadsInv, UploadOK, CallOK, At
<1>2. /\ call'[u].at = "written" /\ call'[u].answer = call[u].answer
      /\ call'[u].asked = call[u].asked /\ \A v \in Upload \ {u} : call'[v] = call[v]
  BY DEF CreateFile, Goto, UploadsInv, TypeOK, CallRow
<1>3. Reserved(u)' /\ queue'[u].exists
  BY <1>1 DEF Reserved
<1>4. UploadOK(u)'
  BY <1>1, <1>2, <1>3 DEF UploadOK, CallOK, OriginalOK, At, NoDoc
<1>5. KeysOK'
  BY <1>1, <1>2, SameKeys DEF UploadsInv
<1>6. ~RowLocked(u)
  BY <1>1, ReservedIsFree DEF UploadsInv
<1>7. QED
  BY <1>0, <1>1, <1>4, <1>5, <1>6, CallKeeps

(* The transaction fails, the file is removed or not, a bookkeeping        *)
(* statement fails.                                                        *)
LEMMA GivenUpKeeps ==
  ASSUME UploadsInv, NEW u \in Upload,
         CreateFails(u) \/ Rejected(u) \/ Unlink(u) \/ UnlinkFails(u) \/ BookkeepingFails(u)
  PROVE  UploadsInv'
<1>0. CallStep(u) \/ CallFault(u)
  BY DEF CallStep, CallFault
<1>1. PICK step \in {"discard", "unlink", "expedite", "over"} :
        /\ Goto(u, step) /\ UNCHANGED <<doc, keys, queue>> /\ disk' \subseteq disk
        /\ step = "discard" => u \notin disk'
        /\ u \notin disk' => u \notin disk \/ call[u].at = "unlink"
  BY DEF CreateFails, Rejected, Unlink, UnlinkFails, BookkeepingFails, UploadsInv, UploadOK, CallOK, At
<1>2. UploadOK(u) /\ call[u].answer # u
  BY DEF CreateFails, Rejected, Unlink, UnlinkFails, BookkeepingFails, UploadsInv, UploadOK, CallOK, At
<1>3. /\ call'[u].at = step /\ call'[u].answer # u /\ doc'[u] = doc[u] /\ KeysOK' /\ now' = now
  BY <1>0, <1>1, <1>2, GotoKeeps DEF Step
<1>4. UploadOK(u)'
  BY <1>1, <1>2, <1>3 DEF UploadOK, CallOK, OriginalOK, At
<1>5. QED
  BY <1>0, <1>1, <1>3, <1>4, CallKeeps

LEMMA CommitKeeps ==
  ASSUME UploadsInv, NEW u \in Upload, Commit(u) \/ CommitUnknown(u)
  PROVE  UploadsInv'
<1>0. CallStep(u) \/ CallFault(u)
  BY DEF CallStep, CallFault
<1>1. /\ Committed(u) /\ call[u].at = "written" /\ UploadOK(u) /\ KeysOK /\ TypeOK
      /\ Reserved(u) /\ u \in disk /\ call[u].answer # u
  BY DEF Commit, CommitUnknown, At, UploadsInv, UploadOK, CallOK
<1>2. /\ UNCHANGED <<disk, queue, now, alive>>
      /\ doc'[u] = [task |-> "open", stored |-> TRUE] /\ \A v \in Upload \ {u} : doc'[v] = doc[v]
      /\ keys'[KeyOf[u]] = u /\ \A k \in Key \ {KeyOf[u]} : keys'[k] = keys[k]
  BY <1>1, UploadsAssumption DEF Committed, TypeOK
<1>3. /\ \/ call'[u].at = "over" /\ call'[u].answer = u
         \/ call'[u].at = "unlink" /\ call'[u].answer = call[u].answer
      /\ \A v \in Upload \ {u} : call'[v] = call[v]
  BY <1>1 DEF Commit, CommitUnknown, Goto, TypeOK, CallRow
<1>4. UploadOK(u)'
  BY <1>1, <1>2, <1>3 DEF UploadOK, CallOK, OriginalOK, Reserved, At
<1>5. KeysOK'
  <2>1. alive /\ \A v \in Upload : KeyOf[v] = KeyOf[u] /\ doc[v].task # "none" => Before(v, u)
    BY <1>1 DEF KeysOK
  <2>2. \A v \in Upload \ {u} : call[v].at \notin {"locked", "written"}
    BY <1>1 DEF TypeOK
  <2>3. \A v \in Upload : call'[v].asked = call[v].asked
    BY <1>1, <1>3 DEF Commit, CommitUnknown, Goto, TypeOK, CallRow
  <2>4. \A v, w \in Upload : Before(v, w)' <=> Before(v, w)
    BY <2>3 DEF Before
  <2>5. \A k \in Key : keys'[k] # Nobody => KeyOf[keys'[k]] = k /\ doc'[keys'[k]].task # "none"
    <3>1. \A k \in Key : keys[k] # Nobody => keys[k] \in Upload
      BY <1>1 DEF TypeOK
    <3>2. QED
      BY <1>1, <1>2, <3>1 DEF KeysOK
  <2>6. ASSUME NEW v \in Upload, doc'[v].task # "none"
        PROVE  (keys[KeyOf[v]] # Nobody /\ (v = keys[KeyOf[v]] \/ Before(v, keys[KeyOf[v]])))'
    <3>1. CASE v = u
      BY <1>2, <3>1, UploadsAssumption
    <3>2. CASE v # u /\ KeyOf[v] = KeyOf[u]
      <4>1. keys'[KeyOf[v]] = u /\ u # Nobody /\ Before(v, u)
        BY <1>2, <2>1, <2>6, <3>2, UploadsAssumption
      <4>2. QED
        BY <2>3, <4>1 DEF Before
    <3>3. CASE v # u /\ KeyOf[v] # KeyOf[u]
      <4>1. keys'[KeyOf[v]] = keys[KeyOf[v]] /\ doc[v].task # "none"
        BY <1>2, <2>6, <3>3, UploadsAssumption
      <4>2. keys[KeyOf[v]] \in Upload /\ (v = keys[KeyOf[v]] \/ Before(v, keys[KeyOf[v]]))
        BY <1>1, <4>1, UploadsAssumption DEF KeysOK, TypeOK
      <4>3. QED
        BY <2>3, <4>1, <4>2, UploadsAssumption DEF Before
    <3>4. QED
      BY <3>1, <3>2, <3>3
  <2>7. ASSUME NEW v \in Upload, NEW w \in Upload, KeyOf[v] = KeyOf[w], v # w,
               doc'[v].task # "none", doc'[w].task # "none"
        PROVE  Before(v, w) \/ Before(w, v)
    BY <1>1, <1>2, <2>1, <2>7 DEF KeysOK
  <2>8. \A v \in Upload : call'[v].at \notin {"locked", "written"}
    BY <1>3, <2>2
  <2>9. ASSUME NEW v \in Upload, call'[v].answer # Nobody PROVE Answers(call[v].answer, v)'
    <3>1. CASE call'[v].answer = u /\ v = u
      <4>1. call[u].asked \in Nat /\ KEY_LIFE \in Nat \ {0}
        BY <1>1, UploadsAssumption DEF TypeOK, CallRow
      <4>2. call[u].asked < call[u].asked + KEY_LIFE
        BY <4>1
      <4>3. QED
        BY <1>2, <2>3, <3>1, <4>2 DEF Answers
    <3>2. CASE ~(call'[v].answer = u /\ v = u)
      <4>1. call'[v].answer = call[v].answer /\ call[v].answer \in Upload
        BY <1>1, <1>3, <2>9, <3>2 DEF TypeOK, CallRow
      <4>2. Answers(call[v].answer, v)
        BY <1>1, <2>1, <2>9, <4>1 DEF KeysOK
      <4>3. doc'[call[v].answer].task # "none"
        BY <1>2, <4>1, <4>2 DEF Answers
      <4>4. QED
        BY <2>3, <4>1, <4>2, <4>3 DEF Answers
    <3>3. QED
      BY <3>1, <3>2
  <2>10. QED
    BY <2>4, <2>5, <2>6, <2>7, <2>8, <2>9 DEF KeysOK
<1>6. QED
  BY <1>0, <1>2, <1>4, <1>5, CallKeeps

(* Asking for a removal keeps the row.                                     *)
LEMMA QueuedExists ==
  ASSUME TypeOK, NEW u \in Upload, NEW due
  PROVE  Queued(queue[u], due).exists
  BY DEF Queued, TypeOK

LEMMA BookkeepingKeeps ==
  ASSUME UploadsInv, NEW u \in Upload, Expedite(u) \/ Discard(u)
  PROVE  UploadsInv'
<1>0. CallStep(u) /\ ~RowLocked(u) /\ UploadOK(u) /\ TypeOK
  BY DEF CallStep, Expedite, Discard, UploadsInv
<1>1. /\ Goto(u, "over") /\ UNCHANGED <<doc, keys, disk>> /\ call[u].answer # u
      /\ u \in disk => queue'[u].exists
  <2>1. call[u].at \in {"expedite", "discard"} /\ call[u].answer # u
    BY <1>0 DEF Expedite, Discard, UploadOK, CallOK, At
  <2>2. Expedite(u) => queue'[u].exists
    BY <1>0, QueuedExists DEF Expedite, TypeOK
  <2>3. Discard(u) => u \notin disk
    BY <1>0 DEF Discard, UploadOK, CallOK, At
  <2>4. QED
    BY <2>1, <2>2, <2>3 DEF Expedite, Discard
<1>2. /\ call'[u].at = "over" /\ call'[u].answer # u /\ doc'[u] = doc[u] /\ KeysOK' /\ now' = now
  BY <1>0, <1>1, GotoKeeps DEF Step
<1>3. UploadOK(u)'
  BY <1>0, <1>1, <1>2 DEF UploadOK, CallOK, OriginalOK, At
<1>4. QED
  BY <1>0, <1>1, <1>2, <1>3, CallKeeps
LEMMA CrashKeeps ==
  ASSUME UploadsInv, Crash
  PROVE  UploadsInv'
<1>1. TypeOK'
  <2>1. [Next]_vars
    BY DEF Next
  <2>2. QED
    BY <2>1, NextTypeOK DEF UploadsInv
<1>2. \A u \in Upload :
        \/ call'[u] = call[u]
        \/ call'[u].at = "over" /\ call'[u].answer = Nobody /\ call'[u].asked = call[u].asked
  <2>1. \A u \in Upload : call[u] \in CallRow
    BY DEF UploadsInv, TypeOK
  <2>2. \A u \in Upload : LET row == [call[u] EXCEPT !.at = "over", !.answer = Nobody] IN
          row.at = "over" /\ row.answer = Nobody /\ row.asked = call[u].asked
    BY <2>1 DEF CallRow
  <2>3. QED
    BY <2>2 DEF Crash
<1>3. UNCHANGED <<disk, queue, doc, now, keys, alive, sweep>>
  BY DEF Crash
<1>4. ASSUME NEW u \in Upload PROVE UploadOK(u)'
  BY <1>2, <1>3, UploadsAssumption DEF UploadsInv, UploadOK, CallOK, OriginalOK, Reserved, At
<1>5. SweepsOK'
  BY <1>3 DEF UploadsInv, SweepsOK, Due
<1>6. KeysOK'
  BY <1>2, <1>3, SameKeys DEF UploadsInv
<1>7. QED
  BY <1>1, <1>4, <1>5, <1>6 DEF UploadsInv

(*------------------------- The steps of a cleanup -----------------------*)

(* What is due is no longer reserved: no call counts on it, and the time   *)
(* an open task may count on it has passed.                                *)
LEMMA DueIsFree ==
  ASSUME UploadsInv, NEW u \in Upload, Due(u)
  PROVE  /\ call[u].at \notin {"idle", "reserved", "locked", "written"}
         /\ ~(now < queue[u].created + DELAY /\ queue[u].created + DELAY <= queue[u].due)
<1>1. now \in Nat /\ queue[u].due \in Nat /\ queue[u].created \in Nat /\ DELAY \in Nat
  BY UploadsAssumption DEF UploadsInv, TypeOK
<1>2. ~(now < queue[u].created + DELAY /\ queue[u].created + DELAY <= queue[u].due)
  BY <1>1 DEF Due
<1>3. call[u].at # "idle"
  BY DEF UploadsInv, UploadOK, CallOK, At, Due, NoRow
<1>4. QED
  BY <1>2, <1>3 DEF UploadsInv, UploadOK, CallOK, Reserved

LEMMA SweepStepTyped ==
  ASSUME UploadsInv, NEW c \in Cleaner, SweepStep(c) \/ SweepFault(c)
  PROVE  TypeOK' /\ UNCHANGED <<now, alive, call, keys>>
  BY SweepTyped DEF UploadsInv, SweepStep, SweepFault, Take, EndSweep, RemoveFile, RemoveFails, AbortSweep

LEMMA TakeKeeps ==
  ASSUME UploadsInv, NEW c \in Cleaner, Take(c)
  PROVE  UploadsInv'
<1>0. SweepStep(c)
  BY DEF SweepStep
<1>1. UNCHANGED <<now, alive, call, keys, disk, queue, doc>>
  BY DEF Take
<1>2. \A u \in Upload : UploadOK(u)'
  BY <1>1, UnmovedOK DEF UploadsInv, Unmoved
<1>3. /\ sweep'[c].unlinked = {} /\ \A d \in Cleaner \ {c} : sweep'[d] = sweep[d]
      /\ sweep'[c].rows \subseteq Upload
      /\ \A u \in sweep'[c].rows : Due(u) /\ ~RowLocked(u)
  BY DEF Take, NoSweep, UploadsInv, TypeOK
<1>4. SweepsOK'
  <2>1. ASSUME NEW d \in Cleaner PROVE \A u \in sweep'[d].rows : Due(u)'
    BY <1>1, <1>3 DEF UploadsInv, SweepsOK, Due
  <2>2. ASSUME NEW d \in Cleaner
        PROVE  sweep'[d].unlinked \subseteq sweep'[d].rows /\ sweep'[d].unlinked \cap disk' = {}
    BY <1>1, <1>3 DEF UploadsInv, SweepsOK
  <2>3. ASSUME NEW d \in Cleaner, NEW e \in Cleaner \ {d}
        PROVE  sweep'[d].rows \cap sweep'[e].rows = {}
    BY <1>3 DEF UploadsInv, SweepsOK, RowLocked
  <2>4. QED
    BY <2>1, <2>2, <2>3 DEF SweepsOK
<1>5. KeysOK'
  BY <1>1, SameKeys DEF UploadsInv
<1>6. QED
  BY <1>0, <1>2, <1>4, <1>5, SweepStepTyped DEF UploadsInv

(* A cleaner removes originals whose reservation has run out.              *)
LEMMA RemoveFileKeeps ==
  ASSUME UploadsInv, NEW c \in Cleaner, NEW u \in Upload, RemoveFile(c, u)
  PROVE  UploadsInv'
<1>0. SweepStep(c)
  BY DEF SweepStep
<1>1. UNCHANGED <<now, alive, call, keys, queue, doc>> /\ disk' = disk \ {u}
  BY DEF RemoveFile
<1>2. u \in sweep[c].rows /\ Due(u)
  BY DEF RemoveFile, Left, UploadsInv, SweepsOK
<1>3. UploadOK(u)'
  BY <1>1, <1>2, DueIsFree DEF UploadsInv, UploadOK, CallOK, OriginalOK, At, Reserved
<1>4. \A v \in Upload \ {u} : UploadOK(v)'
  BY <1>1, UnmovedOK DEF UploadsInv, Unmoved
<1>5. /\ sweep'[c].rows = sweep[c].rows /\ sweep'[c].unlinked = sweep[c].unlinked \cup {u}
      /\ \A d \in Cleaner \ {c} : sweep'[d] = sweep[d]
  BY DEF RemoveFile, UploadsInv, TypeOK
<1>6. SweepsOK'
  BY <1>1, <1>2, <1>5 DEF UploadsInv, SweepsOK, Due
<1>7. KeysOK'
  BY <1>1, SameKeys DEF UploadsInv
<1>8. QED
  BY <1>0, <1>3, <1>4, <1>6, <1>7, SweepStepTyped DEF UploadsInv

(* A removal that fails, or a cleaner that dies: files, rows and documents *)
(* are as they were.                                                       *)
LEMMA SweepFaultKeeps ==
  ASSUME UploadsInv, NEW c \in Cleaner, SweepFault(c)
  PROVE  UploadsInv'
<1>1. UNCHANGED <<now, alive, call, keys, disk, queue, doc>>
  BY DEF SweepFault, AbortSweep, RemoveFails
<1>2. \A u \in Upload : UploadOK(u)'
  BY <1>1, UnmovedOK DEF UploadsInv, Unmoved
<1>3. /\ \/ sweep'[c].rows = sweep[c].rows /\ sweep'[c].unlinked = sweep[c].unlinked
         \/ sweep'[c].rows = {} /\ sweep'[c].unlinked = {}
      /\ \A d \in Cleaner \ {c} : sweep'[d] = sweep[d]
  BY DEF SweepFault, AbortSweep, RemoveFails, NoSweep, UploadsInv, TypeOK
<1>4. SweepsOK'
  BY <1>1, <1>3 DEF UploadsInv, SweepsOK, Due
<1>5. KeysOK'
  BY <1>1, SameKeys DEF UploadsInv
<1>6. QED
  BY <1>2, <1>4, <1>5, SweepStepTyped DEF UploadsInv

LEMMA EndSweepKeeps ==
  ASSUME UploadsInv, NEW c \in Cleaner, EndSweep(c)
  PROVE  UploadsInv'
<1>0. SweepStep(c)
  BY DEF SweepStep
<1>1. UNCHANGED <<now, alive, call, keys, disk>>
  BY DEF EndSweep
<1>2. /\ sweep[c].rows \subseteq Upload /\ Gone(c) \subseteq sweep[c].rows /\ Gone(c) \cap disk = {}
      /\ Kept(c) \subseteq sweep[c].rows /\ \A u \in sweep[c].rows : Due(u)
  BY DEF UploadsInv, TypeOK, SweepsOK, Gone, Kept
<1>3. ASSUME NEW u \in Gone(c) PROVE UploadOK(u)'
  <2>1. u \in Upload /\ Due(u) /\ u \notin disk' /\ UploadOK(u)
    BY <1>1, <1>2, <1>3 DEF UploadsInv
  <2>2. queue'[u] = NoRow /\ ~doc'[u].stored
    BY <1>3, <2>1 DEF EndSweep, UploadsInv, TypeOK
  <2>3. QED
    BY <1>1, <2>1, <2>2, DueIsFree DEF UploadOK, CallOK, OriginalOK, At
<1>4. ASSUME NEW u \in Kept(c) \ Gone(c) PROVE UploadOK(u)'
  <2>1. u \in Upload /\ Due(u) /\ UploadOK(u)
    BY <1>2, <1>4 DEF UploadsInv
  <2>2. queue'[u].exists = queue[u].exists /\ queue'[u].created = queue[u].created /\ doc'[u] = doc[u]
    BY <1>4, <2>1 DEF EndSweep, UploadsInv, TypeOK
  <2>3. QED
    BY <1>1, <2>1, <2>2, DueIsFree DEF UploadOK, CallOK, OriginalOK, At
<1>5. ASSUME NEW u \in Upload \ sweep[c].rows PROVE Unmoved(u)
  BY <1>1, <1>2, <1>5 DEF EndSweep, Unmoved
<1>6. \A u \in Upload : u \in sweep[c].rows => u \in Gone(c) \cup Kept(c)
  BY DEF EndSweep, Left, Gone
<1>7. \A u \in Upload : UploadOK(u)'
  BY <1>1, <1>3, <1>4, <1>5, <1>6, UnmovedOK DEF UploadsInv
<1>8. SweepsOK'
  <2>1. sweep'[c].rows = {} /\ sweep'[c].unlinked = {} /\ \A d \in Cleaner \ {c} : sweep'[d] = sweep[d]
    BY DEF EndSweep, NoSweep, UploadsInv, TypeOK
  <2>2. ASSUME NEW d \in Cleaner \ {c}, NEW u \in sweep[d].rows PROVE Due(u)'
    <3>1. u \in Upload \ sweep[c].rows /\ Due(u)
      BY <2>2 DEF UploadsInv, TypeOK, SweepsOK
    <3>2. QED
      BY <1>1, <1>5, <3>1 DEF Unmoved, Due
  <2>3. QED
    BY <1>1, <2>1, <2>2 DEF UploadsInv, SweepsOK
<1>9. KeysOK'
  <2>1. \A v \in Upload : doc'[v].task = "none" <=> doc[v].task = "none"
    BY DEF EndSweep, UploadsInv, TypeOK
  <2>2. QED
    BY <1>1, <2>1, SameKeys DEF UploadsInv
<1>10. QED
  BY <1>0, <1>7, <1>8, <1>9, SweepStepTyped DEF UploadsInv

(*------------------ The end of a task and of the session ----------------*)

LEMMA ReleaseKeeps ==
  ASSUME UploadsInv, NEW u \in Upload, Release(u)
  PROVE  UploadsInv'
<1>1. TypeOK'
  <2>1. [Next]_vars
    BY DEF Next
  <2>2. QED
    BY <2>1, NextTypeOK DEF UploadsInv
<1>2. /\ UNCHANGED <<now, alive, call, disk, keys, sweep>> /\ doc[u].task = "open"
      /\ \A v \in Upload \ {u} : Unmoved(v)
      /\ doc'[u].task = "ended" /\ doc'[u].stored = doc[u].stored
      /\ queue'[u] = queue[u] \/ ~RowLocked(u)
      /\ queue[u].exists => queue'[u].exists
  BY QueuedExists DEF Release, Unmoved, UploadsInv, TypeOK
<1>3. call[u].at \notin {"idle", "reserved", "locked", "written"}
  BY <1>2 DEF UploadsInv, UploadOK, CallOK, NoDoc
<1>4. UploadOK(u)'
  BY <1>2, <1>3 DEF UploadsInv, UploadOK, CallOK, OriginalOK, At
<1>5. \A v \in Upload : UploadOK(v)'
  BY <1>2, <1>4, UnmovedOK DEF UploadsInv
<1>6. SweepsOK'
  BY <1>1, <1>2, CallKeepsSweeps DEF UploadsInv, TypeOK
<1>7. KeysOK'
  <2>1. \A v \in Upload : doc'[v].task = "none" <=> doc[v].task = "none"
    BY <1>2 DEF Unmoved
  <2>2. QED
    BY <1>2, <2>1, SameKeys DEF UploadsInv
<1>8. QED
  BY <1>1, <1>5, <1>6, <1>7 DEF UploadsInv

LEMMA RevokeKeeps ==
  ASSUME UploadsInv, Revoke
  PROVE  UploadsInv'
<1>1. TypeOK'
  <2>1. [Next]_vars
    BY DEF Next
  <2>2. QED
    BY <2>1, NextTypeOK DEF UploadsInv
<1>2. UNCHANGED <<now, call, disk, sweep>> /\ ~alive' /\ \A u \in Upload : doc'[u] = NoDoc
  BY DEF Revoke
<1>3. ASSUME NEW u \in Upload PROVE UploadOK(u)'
  <2>1. UploadOK(u) /\ (queue[u].exists => queue'[u].exists)
    BY QueuedExists DEF Revoke, UploadsInv
  <2>2. doc[u] = NoDoc => queue'[u] = queue[u]
    BY DEF Revoke, NoDoc
  <2>3. QED
    BY <1>2, <2>1, <2>2 DEF UploadOK, CallOK, OriginalOK, Reserved, At, NoDoc
<1>4. SweepsOK'
  <2>1. ASSUME NEW c \in Cleaner, NEW u \in sweep[c].rows PROVE Due(u)'
    <3>1. u \in Upload /\ RowLocked(u) /\ Due(u)
      BY <2>1 DEF RowLocked, UploadsInv, TypeOK, SweepsOK
    <3>2. queue'[u] = queue[u]
      BY <3>1 DEF Revoke
    <3>3. QED
      BY <1>2, <3>1, <3>2 DEF Due
  <2>2. QED
    BY <1>2, <2>1 DEF UploadsInv, SweepsOK
<1>5. KeysOK'
  <2>1. \A u \in Upload : call'[u].at \notin {"locked", "written"}
    BY <1>2, UploadsAssumption DEF Revoke, UploadsInv, TypeOK
  <2>2. \A k \in Key : keys'[k] = Nobody
    BY DEF Revoke
  <2>3. QED
    BY <1>2, <2>1, <2>2 DEF KeysOK, NoDoc
<1>6. QED
  BY <1>1, <1>3, <1>4, <1>5 DEF UploadsInv

(* No reservation of a call that is still at work runs out.                *)
LEMMA TickKeeps ==
  ASSUME UploadsInv, Tick
  PROVE  UploadsInv'
<1>1. TypeOK'
  <2>1. [Next]_vars
    BY DEF Next
  <2>2. QED
    BY <2>1, NextTypeOK DEF UploadsInv
<1>2. /\ UNCHANGED <<alive, call, disk, queue, doc, keys, sweep>> /\ now' = now + 1
      /\ now \in Nat /\ DELAY \in Nat
      /\ \A u \in Upload : queue[u].created \in Nat /\ queue[u].due \in Nat
  BY UploadsAssumption DEF Tick, UploadsInv, TypeOK
<1>3. ASSUME NEW u \in Upload PROVE UploadOK(u)'
  <2>1. call[u].at \in {"reserved", "locked", "written"} => Reserved(u)'
    BY <1>2 DEF Tick, Working, UploadsInv, UploadOK, CallOK, Reserved
  <2>2. now' < queue[u].created + DELAY => now < queue[u].created + DELAY
    BY <1>2
  <2>3. QED
    BY <1>2, <2>1, <2>2 DEF UploadsInv, UploadOK, CallOK, OriginalOK, At
<1>4. SweepsOK'
  <2>1. \A u \in Upload : Due(u) => Due(u)'
    BY <1>2 DEF Due
  <2>2. QED
    BY <1>2, <2>1 DEF UploadsInv, TypeOK, SweepsOK
<1>5. KeysOK'
  BY <1>2, SameKeys DEF UploadsInv
<1>6. QED
  BY <1>1, <1>3, <1>4, <1>5 DEF UploadsInv

(*------------------------------- Theorems -------------------------------*)

LEMMA InitUploads == Init => UploadsInv
<1> SUFFICES ASSUME Init PROVE UploadsInv
  OBVIOUS
<1>1. \A u \in Upload : UploadOK(u)
  BY UploadsAssumption DEF Init, UploadOK, CallOK, OriginalOK, At, NoRow, NoDoc
<1>2. SweepsOK
  BY DEF Init, SweepsOK, NoSweep
<1>3. KeysOK
  BY DEF Init, KeysOK, NoDoc
<1>4. QED
  BY <1>1, <1>2, <1>3, InitTypeOK DEF UploadsInv

LEMMA NextUploads == UploadsInv /\ [Next]_vars => UploadsInv'
<1> SUFFICES ASSUME UploadsInv, [Next]_vars PROVE UploadsInv'
  OBVIOUS
<1>1. ASSUME NEW u \in Upload, CallStep(u) \/ CallFault(u) PROVE UploadsInv'
  BY <1>1, ReserveKeeps, LockKeeps, CreateFileKeeps, GivenUpKeeps, CommitKeeps, BookkeepingKeeps
  DEF CallStep, CallFault
<1>2. ASSUME NEW c \in Cleaner, SweepStep(c) \/ SweepFault(c) PROVE UploadsInv'
  BY <1>2, TakeKeeps, RemoveFileKeeps, EndSweepKeeps, SweepFaultKeeps DEF SweepStep
<1>3. CASE UNCHANGED vars
  <2>1. \A u \in Upload : UploadOK(u)'
    BY <1>3, UnmovedOK DEF vars, UploadsInv, Unmoved
  <2>2. SweepsOK' /\ KeysOK'
    BY <1>3, SameKeys DEF vars, UploadsInv, SweepsOK, Due
  <2>3. QED
    BY <2>1, <2>2, NextTypeOK DEF UploadsInv
<1>4. QED
  BY <1>1, <1>2, <1>3, CrashKeeps, ReleaseKeeps, RevokeKeeps, TickKeeps DEF Next

LEMMA UploadsInvHolds == Spec => []UploadsInv
  BY InitUploads, NextUploads, PTL DEF Spec

(* document_create commits the reservation before it creates the file and  *)
(* drops it only after the file is gone: whatever fails in between, every  *)
(* original on disk has a row that will have it removed.                   *)
THEOREM OriginalsReserved == Spec => []FileReserved
<1>1. UploadsInv => FileReserved
  BY DEF UploadsInv, TypeOK, UploadOK, OriginalOK, FileReserved
<1>2. QED
  BY <1>1, UploadsInvHolds, PTL

(* An acknowledged original stays reserved while its task is open, and no  *)
(* cleanup removes it before the reservation has lasted.                   *)
THEOREM OpenTaskHasOriginal == Spec => []OriginalKept
<1>1. UploadsInv => OriginalKept
  BY DEF UploadsInv, UploadOK, OriginalOK, OriginalKept
<1>2. QED
  BY <1>1, UploadsInvHolds, PTL

(* Documents say that an original is gone only after it was unlinked, and  *)
(* nothing creates it again.                                               *)
THEOREM GoneIsGone == Spec => []DeletedMeansGone
<1>1. UploadsInv => DeletedMeansGone
  BY DEF UploadsInv, TypeOK, UploadOK, OriginalOK, DeletedMeansGone
<1>2. QED
  BY <1>1, UploadsInvHolds, PTL

(* The session row serialises the uploads of a key: one of them creates    *)
(* the task, those that follow within 24 hours are answered with it, and   *)
(* only one that comes after that creates the next.                        *)
THEOREM OneTaskPerKey == Spec => []RetriesAgree
<1>1. UploadsInv => RetriesAgree
  BY DEF UploadsInv, KeysOK, Before, Answers, RetriesAgree
<1>2. QED
  BY <1>1, UploadsInvHolds, PTL
=============================================================================
