---------------------------- MODULE Transactions ----------------------------
(***************************************************************************)
(* The transactions of one session against each other, statement by        *)
(* statement: which rows each one locks, in which order, what it reads in  *)
(* between and what its commit writes.  PostgreSQL runs them at READ       *)
(* COMMITTED: every statement sees what is committed when it runs, and a   *)
(* row locked FOR UPDATE, inserted, updated or deleted stays locked to the *)
(* end of the transaction.  A row lock that no other statement contends    *)
(* for (those on rows only reached under an exclusive session lock) is     *)
(* left out.  JobStore has the same transactions as single steps; here are *)
(* the interleavings that make a single step of them.                      *)
(***************************************************************************)
EXTENDS Naturals, FiniteSets, Sequences

CONSTANTS
  Process,      \* database connections: API threads, workers, the sweeper
  Profile,
  Chat,         \* tasks that continue a profile
  Diagnosis,    \* tasks that compare a profile with jobs
  About,        \* About[t]: the profile either is about
  Job,          \* the items of each of them
  Doc,          \* tasks that parse an uploaded original
  MAX_ROUNDS,   \* messages of the user a session may hold
  MAX_ACTIVE,   \* unfinished tasks a session may have
  MaxVersion,   \* bound: no edit of this version of a profile
  MaxAged,      \* bound: how often the key of a request expires
  MaxBegun      \* bound: how many transactions are begun

Task == Chat \cup Diagnosis \cup Doc

ASSUME TransactionsAssumption ==
  /\ About \in [Chat \cup Diagnosis -> Profile]
  /\ Chat \cap Diagnosis = {} /\ Chat \cap Doc = {} /\ Diagnosis \cap Doc = {}
  /\ Profile \cap Task = {}
  /\ IsFiniteSet(Task)
  /\ MAX_ROUNDS \in Nat /\ MAX_ACTIVE \in Nat /\ MaxVersion \in Nat /\ MaxAged \in Nat /\ MaxBegun \in Nat

VARIABLES
  alive,       \* the session is neither revoked nor expired
  status,      \* of each task
  base,        \* the version of its profile a task was created with
  latest,      \* latest_version of each profile
  confirmed,   \* versions of each profile with a confirmed_at
  turn,        \* the version a conversation wrote with its two messages, or 0
  settled,     \* items of each diagnosis with an outcome
  stored,      \* documents with a storage_key
  queue,       \* row of file_cleanup of each original: "none", "later", "due"
  key,         \* the row of one idempotency key: "none", "live", "old"
  created,     \* profiles created under that key
  aged,        \* how often the key expired
  op,          \* the transaction each process is in
  lock,        \* the rows it holds
  begun

rows == <<alive, status, base, latest, confirmed, turn, settled, stored, queue, key, created>>
vars == <<rows, aged, op, lock, begun>>

(*------------------------------ Transactions ----------------------------*)

(* Definitions named X_How state a plausible mistake in X; nothing uses    *)
(* them but the experiments that show which property each mistake breaks.  *)

(* All transactions on originals lock the queue before the document.       *)
EndOfTask_DocumentFirst == <<"task", "document", "queue">>
EndOfTask == <<"task", "queue", "document">>
ReadProfile_MessagesFirst == <<"messages", "version">>
ReadProfile == <<"version", "messages">>

(* After its first statement, the statements of each transaction that lock *)
(* a row or read one that somebody else may be writing, in their order.    *)
Statements == [
  edit            |-> <<"parent">>,
  confirm         |-> <<"parent">>,
  create_profile  |-> <<"key", "claim">>,
  create_chat     |-> <<"parent", "conversations", "messages", "unfinished">>,
  diagnose        |-> <<"versions", "unfinished">>,
  commit_chat     |-> <<"task", "parent">>,
  finish_item     |-> <<"task">>,
  finish          |-> <<"task", "items">>,
  fail            |-> EndOfTask,
  sweep           |-> <<"document">>,
  revoke          |-> <<"queue", "document">>,
  owned_profile   |-> ReadProfile,
  owned_diagnosis |-> <<"status", "items">>]

(* What each of them can be about.                                         *)
Subjects == [
  edit |-> Profile, confirm |-> Profile, create_profile |-> {"new"}, create_chat |-> Chat,
  diagnose |-> Diagnosis, commit_chat |-> Chat, finish_item |-> Diagnosis, finish |-> Diagnosis,
  fail |-> Chat \cup Doc, sweep |-> {"all"}, revoke |-> {"all"},
  owned_profile |-> Profile, owned_diagnosis |-> Diagnosis]

Of(rid) == IF rid \in Chat \cup Diagnosis THEN About[rid] ELSE rid

Idle == [kind |-> "none", todo |-> {}]
Ready(p, kind) == op[p].kind = kind /\ op[p].at > Len(Statements[kind])

(*---------------------------------- Locks -------------------------------*)

SessionRow == <<"session", "s">>
KeyRow == <<"key", "k">>
Held(row) == \E p \in Process : row \in lock[p]

(* FOR UPDATE of the session for what counts its tasks and what deletes    *)
(* it, FOR SHARE for everything else.                                      *)
Exclusive_Deletion(kind) == kind = "revoke"
Exclusive(kind) == kind \in {"create_chat", "diagnose", "revoke"}

SessionFree(kind) ==
  \A p \in Process : SessionRow \in lock[p] => ~Exclusive(kind) /\ ~Exclusive(op[p].kind)

(* The rows a transaction locks with its first statement: its session, or  *)
(* what FOR UPDATE SKIP LOCKED finds of the rows that are due.             *)
FirstRows(kind) ==
  IF kind # "sweep" THEN {SessionRow}
  ELSE {<<"queue", d>> : d \in {e \in Doc : queue[e] = "due" /\ ~Held(<<"queue", e>>)}}

ParentRows_ReadOnly(kind, rid) == IF kind = "confirm" THEN {} ELSE {<<"parent", Of(rid)>>}
ParentRows(kind, rid) == {<<"parent", Of(rid)>>}

(* The rows a later statement waits for, of a transaction that holds some. *)
Wanted(held, kind, rid, statement) ==
  LET originals == IF kind \in {"sweep", "revoke"} THEN stored ELSE {rid} \cap stored
  IN  CASE statement = "parent" -> ParentRows(kind, rid)
        [] statement = "task" -> {<<"task", rid>>}
        [] statement = "claim" -> {KeyRow}
        [] statement = "queue" -> {<<"queue", d>> : d \in originals}
        [] statement = "document" ->
             {<<"document", d>> : d \in {e \in originals : kind = "sweep" => <<"queue", e>> \in held}}
        [] OTHER -> {}

(*------------------------- What a statement decides ---------------------*)

Unfinished == {t \in Task : status[t] = "open"}
Conversations == Chat \cap Unfinished
Messages == {c \in Chat : turn[c] # 0}

(* What a statement reads that a later one, or the caller, uses.           *)
Nothing == [version |-> 0, messages |-> {}, conversations |-> {}, status |-> "none", items |-> {}]
Reads(rid, statement) ==
  CASE statement = "version" -> latest[rid]
    [] statement = "messages" -> Messages
    [] statement = "conversations" -> Conversations
    [] statement = "status" -> status[rid]
    [] statement = "items" -> settled[rid]

(* A key is free when it has no row, or one that is a day old: that one is *)
(* deleted, unless somebody else has just replaced it.                     *)
KeyUnused_BlindDelete(statement) == statement = "claim" \/ key # "live"
KeyUnused(statement) == key # "live"

(* The transaction goes on after this statement; otherwise it raises, or   *)
(* replays an earlier answer, and writes nothing.                          *)
Passes(row, statement) ==
  LET rid == row.rid
  IN  CASE statement = "parent" -> latest[Of(rid)] = row.base
        [] statement = "conversations" -> \A c \in Conversations : About[c] # About[rid]
        [] statement = "messages" /\ row.kind = "create_chat" ->
             Cardinality(Messages) + Cardinality(row.saw["conversations"]) < MAX_ROUNDS
        [] statement = "unfinished" -> Cardinality(Unfinished) < MAX_ACTIVE
        [] statement = "versions" -> row.base \in confirmed[About[rid]]
        [] statement = "task" -> status[rid] = "open"
        [] statement = "items" /\ row.kind = "finish" -> settled[rid] = Job
        [] statement \in {"key", "claim"} -> KeyUnused(statement)
        [] OTHER -> TRUE

(*------------------------------- Executing ------------------------------*)

Leave(p) == op' = [op EXCEPT ![p] = Idle] /\ lock' = [lock EXCEPT ![p] = {}]

(* Only for a task that exists, and at most once, does a client call; the  *)
(* version it names is the newest it can have seen.                        *)
Callable(kind, rid) ==
  /\ kind \in {"create_chat", "diagnose"} => status[rid] = "none"
  /\ kind \in {"commit_chat", "finish_item", "finish", "fail"} => status[rid] = "open"
  /\ kind = "owned_diagnosis" => status[rid] # "none"
  /\ kind = "edit" => latest[rid] < MaxVersion

Named(kind, rid) ==
  CASE kind = "commit_chat" -> base[rid]
    [] kind \in {"edit", "confirm", "create_chat", "diagnose"} -> latest[Of(rid)]
    [] OTHER -> 0

Begin(p) ==
  \E kind \in DOMAIN Statements : \E rid \in Subjects[kind] :
    /\ alive /\ op[p] = Idle /\ Callable(kind, rid)
    /\ kind # "sweep" => SessionFree(kind)
    /\ lock' = [lock EXCEPT ![p] = FirstRows(kind)]
    /\ op' = [op EXCEPT ![p] =
         [kind |-> kind, rid |-> rid, base |-> Named(kind, rid), at |-> 1, saw |-> Nothing,
          todo |-> Wanted(FirstRows(kind), kind, rid, Statements[kind][1])]]
    /\ begun < MaxBegun /\ begun' = begun + 1
    /\ UNCHANGED <<rows, aged>>

(* A statement over several rows locks them one after the other.           *)
LockRow(p) ==
  /\ Cardinality(op[p].todo) > 1
  /\ \E row \in op[p].todo :
       /\ ~Held(row)
       /\ lock' = [lock EXCEPT ![p] = @ \cup {row}]
       /\ op' = [op EXCEPT ![p].todo = @ \ {row}]
  /\ UNCHANGED <<rows, aged, begun>>

(* The transaction when its next statement has run, with these rows held.  *)
Later(row, held) ==
  LET list == Statements[row.kind]
  IN  [kind |-> row.kind, rid |-> row.rid, base |-> row.base, at |-> row.at + 1,
       saw |-> [s \in DOMAIN row.saw |-> IF s = list[row.at] THEN Reads(row.rid, s) ELSE row.saw[s]],
       todo |-> IF row.at = Len(list) THEN {} ELSE Wanted(held, row.kind, row.rid, list[row.at + 1])]

(* With its last row a statement runs.                                     *)
Execute(p) ==
  LET row == op[p]
      list == Statements[row.kind]
      held == lock[p] \cup row.todo
  IN  /\ row # Idle /\ row.at <= Len(list)
      /\ Cardinality(row.todo) <= 1 /\ \A r \in row.todo : ~Held(r)
      /\ IF ~Passes(row, list[row.at]) THEN Leave(p)
         ELSE /\ lock' = [lock EXCEPT ![p] = held]
              /\ op' = [op EXCEPT ![p] = Later(row, held)]
      /\ UNCHANGED <<rows, aged, begun>>

(* The connection breaks, or the process that holds it dies.               *)
Rollback(p) ==
  /\ op[p] # Idle /\ Leave(p)
  /\ UNCHANGED <<rows, aged, begun>>

(*-------------------------------- Commits -------------------------------*)

Commits(p, kind) == Ready(p, kind) /\ Leave(p) /\ UNCHANGED <<aged, begun>>

WriteVersion(profile) == latest' = [latest EXCEPT ![profile] = @ + 1]

CommitEdit(p) ==
  /\ Commits(p, "edit")
  /\ WriteVersion(op[p].rid)
  /\ UNCHANGED <<alive, status, base, confirmed, turn, settled, stored, queue, key, created>>

CommitConfirm(p) ==
  /\ Commits(p, "confirm")
  /\ confirmed' = [confirmed EXCEPT ![op[p].rid] = @ \cup {op[p].base}]
  /\ UNCHANGED <<alive, status, base, latest, turn, settled, stored, queue, key, created>>

(* The first request under a key, or the first after its day, creates.     *)
CommitProfileCreate(p) ==
  /\ Commits(p, "create_profile")
  /\ key' = "live" /\ created' = created + 1
  /\ UNCHANGED <<alive, status, base, latest, confirmed, turn, settled, stored, queue>>

CommitTaskCreate(p) ==
  /\ Commits(p, "create_chat") \/ Commits(p, "diagnose")
  /\ status' = [status EXCEPT ![op[p].rid] = "open"]
  /\ base' = [base EXCEPT ![op[p].rid] = op[p].base]
  /\ UNCHANGED <<alive, latest, confirmed, turn, settled, stored, queue, key, created>>

CommitChat(p) ==
  LET c == op[p].rid
  IN  /\ Commits(p, "commit_chat")
      /\ WriteVersion(About[c])
      /\ turn' = [turn EXCEPT ![c] = op[p].base + 1]
      /\ status' = [status EXCEPT ![c] = "succeeded"]
      /\ UNCHANGED <<alive, base, confirmed, settled, stored, queue, key, created>>

CommitItem(p) ==
  /\ Commits(p, "finish_item")
  /\ \E j \in Job : settled' = [settled EXCEPT ![op[p].rid] = @ \cup {j}]
  /\ UNCHANGED <<alive, status, base, latest, confirmed, turn, stored, queue, key, created>>

CommitFinish(p) ==
  /\ Commits(p, "finish")
  /\ status' = [status EXCEPT ![op[p].rid] = "succeeded"]
  /\ UNCHANGED <<alive, base, latest, confirmed, turn, settled, stored, queue, key, created>>

(* A task ends without a result, or a document with one; its original is   *)
(* queued, anew if it has just been removed.                               *)
CommitEnd(p) ==
  LET t == op[p].rid
  IN  /\ Commits(p, "fail")
      /\ status' = [status EXCEPT ![t] = "failed"]
      /\ queue' = IF <<"queue", t>> \in lock[p] THEN [queue EXCEPT ![t] = "due"] ELSE queue
      /\ UNCHANGED <<alive, base, latest, confirmed, turn, settled, stored, key, created>>

CommitSweep(p) ==
  LET removed == {d \in Doc : <<"queue", d>> \in lock[p]}
  IN  /\ Commits(p, "sweep")
      /\ stored' = stored \ removed
      /\ queue' = [d \in Doc |-> IF d \in removed THEN "none" ELSE queue[d]]
      /\ UNCHANGED <<alive, status, base, latest, confirmed, turn, settled, key, created>>

CommitRevoke(p) ==
  /\ Commits(p, "revoke")
  /\ alive' = FALSE /\ stored' = {} /\ key' = "none"
  /\ queue' = [d \in Doc |-> IF <<"queue", d>> \in lock[p] THEN "due" ELSE queue[d]]
  /\ status' = [t \in Task |-> "none"]
  /\ turn' = [c \in Chat |-> 0]
  /\ settled' = [g \in Diagnosis |-> {}]
  /\ confirmed' = [q \in Profile |-> {}]
  /\ UNCHANGED <<base, latest, created>>

EndRead(p) ==
  /\ Commits(p, "owned_profile") \/ Commits(p, "owned_diagnosis")
  /\ UNCHANGED rows

(* A day after it was written a key no longer counts, and cleanup_expired  *)
(* deletes it unless it is just being replaced.                            *)
KeyAges ==
  /\ key = "live" /\ aged < MaxAged
  /\ key' = "old" /\ aged' = aged + 1
  /\ UNCHANGED <<alive, status, base, latest, confirmed, turn, settled, stored, queue, created, op, lock, begun>>

DeleteOldKey ==
  /\ key = "old" /\ \A p \in Process : KeyRow \notin lock[p]
  /\ key' = "none"
  /\ UNCHANGED <<alive, status, base, latest, confirmed, turn, settled, stored, queue, created, aged, op, lock, begun>>

(*------------------------------ Specification ---------------------------*)

(* A session whose profiles are confirmed only if they are being compared, *)
(* and whose originals are being parsed or wait for the next sweep; after  *)
(* a day without a worker those being parsed may be due for it as well.    *)
Init ==
  /\ alive = TRUE
  /\ \E running \in SUBSET (Doc \cup Diagnosis), due \in SUBSET Doc :
       /\ Doc \ running \subseteq due
       /\ Cardinality(running) <= MAX_ACTIVE
       /\ status = [t \in Task |-> IF t \in running THEN "open"
                                   ELSE IF t \in Doc THEN "succeeded" ELSE "none"]
       /\ queue = [d \in Doc |-> IF d \in due THEN "due" ELSE "later"]
       /\ base = [t \in Chat \cup Diagnosis |-> IF t \in running THEN 1 ELSE 0]
       /\ confirmed = [q \in Profile |-> IF Diagnosis \cap running = {} THEN {} ELSE {1}]
  /\ latest = [q \in Profile |-> 1]
  /\ turn = [c \in Chat |-> 0]
  /\ settled = [g \in Diagnosis |-> {}]
  /\ stored = Doc
  /\ key = "none" /\ created = 0 /\ aged = 0
  /\ op = [p \in Process |-> Idle]
  /\ lock = [p \in Process |-> {}]
  /\ begun = 0

Commit(p) ==
  \/ CommitEdit(p) \/ CommitConfirm(p) \/ CommitProfileCreate(p) \/ CommitTaskCreate(p)
  \/ CommitChat(p) \/ CommitItem(p) \/ CommitFinish(p) \/ CommitEnd(p)
  \/ CommitSweep(p) \/ CommitRevoke(p) \/ EndRead(p)

Next ==
  \/ \E p \in Process : Begin(p) \/ LockRow(p) \/ Execute(p) \/ Rollback(p) \/ Commit(p)
  \/ KeyAges \/ DeleteOldKey

Spec == Init /\ [][Next]_vars

(*-------------------------------- Properties ----------------------------*)

(* A process waits for a row that another one holds.                       *)
WaitsFor(p, q) == op[p].todo \cap lock[q] # {}

(* No transactions ever wait for each other in a circle: every one that    *)
(* waits, waits for one that can go on.  The order in which rows are       *)
(* locked differs between the sweep, the end of a task and a deletion.     *)
NoDeadlock ==
  \A P \in (SUBSET Process) \ {{}} : \E p \in P : \A q \in P : ~WaitsFor(p, q)

(* What a user confirms is the newest version at that moment, and nobody   *)
(* slips a newer one in between the check and the confirmation.            *)
ConfirmedAsSeen ==
  [][\A q \in Profile :
       confirmed'[q] \ confirmed[q] \subseteq {latest[q]} /\
       (confirmed'[q] # confirmed[q] /\ alive' => latest'[q] = latest[q])]_vars

(* Each GET answers from several statements, yet agrees with itself: a     *)
(* profile comes with the conversation that led to it, and a finished      *)
(* diagnosis, which the client stops polling, with all its items.          *)
ReadsCoherent ==
  \A p \in Process :
    /\ Ready(p, "owned_profile") =>
         \A c \in Chat : About[c] = op[p].rid /\ turn[c] \in 1..op[p].saw["version"] => c \in op[p].saw["messages"]
    /\ Ready(p, "owned_diagnosis") =>
         (op[p].saw["status"] # "open" => op[p].saw["items"] = Job)

(* The messages a session holds and those its running conversations will   *)
(* add never exceed the limit, although the two counts are read one after  *)
(* the other and each ending conversation moves from one to the other; nor *)
(* do its unfinished tasks, however many requests count them at once.      *)
LimitsHold ==
  /\ Cardinality(Messages) + Cardinality(Conversations) <= MAX_ROUNDS
  /\ Cardinality(Unfinished) <= MAX_ACTIVE

(* Requests with one idempotency key create one profile a day, also when   *)
(* they race each other on the morning the key expires.                    *)
OneProfilePerKey == created <= aged + 1
=============================================================================
