------------------------- MODULE TransactionsProofs -------------------------
(***************************************************************************)
(* Proofs about Transactions: what every transaction holds, waits for and  *)
(* may rely on between two of its statements, and from it that no circle   *)
(* of waiting arises, that reads of several statements cohere and that     *)
(* what a statement checked still holds when the transaction commits.      *)
(***************************************************************************)
EXTENDS Transactions, FiniteSetTheorems, TLAPS

(*-------------------------------- Types ---------------------------------*)

Kind == DOMAIN Statements
Status == {"none", "open", "succeeded", "failed"}
Row == {SessionRow, KeyRow} \cup ({"parent"} \X Profile) \cup ({"task"} \X Task)
       \cup ({"queue", "document"} \X Doc)
Seen == [version : Nat, messages : SUBSET Chat, conversations : SUBSET Chat,
         status : Status, items : SUBSET Job]
Transaction == [kind : Kind, rid : Profile \cup Task \cup {"new", "all"}, base : Nat, at : Nat,
                saw : Seen, todo : SUBSET Row]

RowsTyped ==
  /\ alive \in BOOLEAN /\ status \in [Task -> Status]
  /\ base \in [Chat \cup Diagnosis -> Nat] /\ latest \in [Profile -> Nat]
  /\ confirmed \in [Profile -> SUBSET Nat] /\ turn \in [Chat -> Nat]
  /\ settled \in [Diagnosis -> SUBSET Job] /\ stored \subseteq Doc
  /\ queue \in [Doc -> {"none", "later", "due"}]
  /\ key \in {"none", "live", "old"} /\ created \in Nat /\ aged \in Nat

TypeOK ==
  /\ RowsTyped /\ begun \in Nat
  /\ op \in [Process -> Transaction \cup {Idle}]
  /\ lock \in [Process -> SUBSET Row]

(*---------------------------- The invariant -----------------------------*)

Active(p) == op[p] # Idle

(* The rows a transaction waits for are those of its next statement, and a *)
(* document only if it holds its row of the queue.                         *)
Awaits(row, statement) ==
  row.at \in DOMAIN Statements[row.kind] /\ Statements[row.kind][row.at] = statement

Waiting(row, held) ==
  /\ \A x \in row.todo :
       /\ x \notin held /\ Awaits(row, IF x[1] = "key" THEN "claim" ELSE x[1])
       /\ x[1] = "document" => <<"queue", x[2]>> \in held
  /\ row.kind \notin {"sweep", "revoke"} => \A x, y \in row.todo : x = y
  /\ Awaits(row, "parent") => row.todo = {<<"parent", Of(row.rid)>>}
  /\ Awaits(row, "task") => row.todo = {<<"task", row.rid>>}
  /\ Awaits(row, "claim") => row.todo = {KeyRow}

(* It holds no rows but those of its earlier statements, among them the    *)
(* ones it relies on.                                                      *)
Holding(row, held) ==
  /\ SessionRow \in held <=> row.kind # "sweep"
  /\ \A x \in held :
       /\ x[1] = "parent" => \/ row.kind \in {"edit", "confirm", "create_chat"} /\ row.at > 1
                             \/ row.kind = "commit_chat" /\ row.at > 2
       /\ x[1] = "task" => row.kind \in {"commit_chat", "finish_item", "finish", "fail"} /\ row.at > 1
       /\ x[1] = "key" => row.kind = "create_profile" /\ row.at > 2
       /\ x[1] = "queue" => \/ row.kind \in {"sweep", "revoke"}
                            \/ row.kind = "fail" /\ row.at > 2
       /\ x[1] = "document" =>
            /\ \/ row.kind = "sweep"
               \/ row.kind = "revoke" /\ row.at > 1
               \/ row.kind = "fail" /\ row.at > 3
            /\ <<"queue", x[2]>> \in held
  /\ row.kind \in {"edit", "confirm"} /\ row.at > 1 => <<"parent", row.rid>> \in held
  /\ row.kind = "commit_chat" /\ row.at > 2 => <<"parent", About[row.rid]>> \in held
  /\ row.kind \in {"commit_chat", "fail"} /\ row.at > 1 => <<"task", row.rid>> \in held
  /\ row.kind = "create_profile" /\ row.at > 2 => KeyRow \in held

Shape(row, held) ==
  /\ row.rid \in Subjects[row.kind]
  /\ row.at \in 1 .. Len(Statements[row.kind]) + 1
  /\ Waiting(row, held) /\ Holding(row, held)

(* What the statements of a transaction found is still so.                 *)
Unchanged(row) ==
  /\ row.kind # "sweep" => alive
  /\ row.kind \in {"edit", "confirm"} /\ row.at > 1 => latest[row.rid] = row.base
  /\ row.kind = "commit_chat" =>
       /\ row.at > 1 => status[row.rid] = "open"
       /\ row.at > 2 => latest[About[row.rid]] = row.base
  /\ row.kind = "create_profile" /\ row.at > 2 => key # "live"
  /\ row.kind = "finish" /\ row.at > 2 => settled[row.rid] = Job

Counted(row) ==
  /\ row.kind = "create_chat" =>
       /\ row.at > 2 => row.saw.conversations = Conversations
       /\ row.at > 3 => Cardinality(Messages) + Cardinality(Conversations) < MAX_ROUNDS
       /\ row.at > 4 => Cardinality(Unfinished) < MAX_ACTIVE
  /\ row.kind = "diagnose" /\ row.at > 2 => Cardinality(Unfinished) < MAX_ACTIVE

Coherent(row) ==
  /\ row.kind = "owned_profile" =>
       /\ row.at > 1 => row.saw.version <= latest[row.rid]
       /\ row.at > 2 => \A c \in Chat : About[c] = row.rid /\ turn[c] \in 1..row.saw.version =>
                                          c \in row.saw.messages
  /\ row.kind = "owned_diagnosis" =>
       /\ status[row.rid] # "none"
       /\ row.at > 1 /\ row.saw.status # "open" => settled[row.rid] = Job
       /\ row.at > 2 /\ row.saw.status # "open" => row.saw.items = Job

(* Originals stored when the rows of the queue were asked for: no others   *)
(* are stored when it comes to the documents.                              *)
Queueing(row, held) ==
  /\ row.kind = "fail" /\ row.at = 2 /\ row.rid \in stored => <<"queue", row.rid>> \in row.todo \cup held
  /\ row.kind = "revoke" /\ row.at = 1 => \A d \in stored : <<"queue", d>> \in row.todo \cup held

Sound(row, held) ==
  /\ row \in Transaction /\ held \subseteq Row
  /\ Shape(row, held) /\ Unchanged(row) /\ Counted(row) /\ Coherent(row) /\ Queueing(row, held)

TransactionOK(p) == (op[p] = Idle /\ lock[p] = {}) \/ Sound(op[p], lock[p])

(* Rows are locked by one transaction at a time; the session may be shared *)
(* by those that neither count nor delete.                                 *)
LocksOK ==
  \A p \in Process : \A q \in Process \ {p} :
    /\ lock[p] \cap lock[q] \subseteq {SessionRow}
    /\ SessionRow \in lock[p] \cap lock[q] => ~Exclusive(op[p].kind)

RowsOK ==
  /\ \A c \in Chat : turn[c] <= latest[About[c]]
  /\ \A g \in Diagnosis : status[g] # "failed" /\ (status[g] = "succeeded" => settled[g] = Job)
  /\ LimitsHold
  /\ OneProfilePerKey /\ (alive /\ key # "live" => created <= aged)

TransactionsInv == TypeOK /\ (\A p \in Process : TransactionOK(p)) /\ LocksOK /\ RowsOK

(*------------------------- Statements and rows --------------------------*)

LEMMA StatementLists ==
  /\ Kind = {"edit", "confirm", "create_profile", "create_chat", "diagnose", "commit_chat", "finish_item",
             "finish", "fail", "sweep", "revoke", "owned_profile", "owned_diagnosis"}
  /\ Statements["edit"] = <<"parent">> /\ Statements["confirm"] = <<"parent">>
  /\ Statements["create_profile"] = <<"key", "claim">>
  /\ Statements["create_chat"] = <<"parent", "conversations", "messages", "unfinished">>
  /\ Statements["diagnose"] = <<"versions", "unfinished">>
  /\ Statements["commit_chat"] = <<"task", "parent">>
  /\ Statements["finish_item"] = <<"task">> /\ Statements["finish"] = <<"task", "items">>
  /\ Statements["fail"] = <<"task", "queue", "document">>
  /\ Statements["sweep"] = <<"document">> /\ Statements["revoke"] = <<"queue", "document">>
  /\ Statements["owned_profile"] = <<"version", "messages">>
  /\ Statements["owned_diagnosis"] = <<"status", "items">>
  BY DEF Kind, Statements, EndOfTask, ReadProfile

(* The positions of a list of statements are those up to its length.       *)
LEMMA StatementLengths ==
  \A kind \in Kind : /\ Len(Statements[kind]) \in Nat
                     /\ DOMAIN Statements[kind] = 1 .. Len(Statements[kind])
<1> DEFINE Long(kind, n) == Len(Statements[kind]) = n /\ DOMAIN Statements[kind] = 1 .. n
<1>1. Long("edit", 1) /\ Long("confirm", 1) /\ Long("finish_item", 1) /\ Long("sweep", 1)
  BY StatementLists
<1>2. Long("create_profile", 2) /\ Long("diagnose", 2) /\ Long("commit_chat", 2) /\ Long("finish", 2)
  BY StatementLists
<1>3. Long("revoke", 2) /\ Long("owned_profile", 2) /\ Long("owned_diagnosis", 2)
  BY StatementLists
<1>4. Long("fail", 3) /\ Long("create_chat", 4)
  BY StatementLists
<1> HIDE DEF Long
<1>5. \A kind \in Kind : Long(kind, 1) \/ Long(kind, 2) \/ Long(kind, 3) \/ Long(kind, 4)
  BY <1>1, <1>2, <1>3, <1>4, StatementLists
<1>6. QED
  BY <1>5 DEF Long

LEMMA SubjectsOf ==
  /\ Subjects["edit"] = Profile /\ Subjects["confirm"] = Profile /\ Subjects["create_profile"] = {"new"}
  /\ Subjects["create_chat"] = Chat /\ Subjects["diagnose"] = Diagnosis /\ Subjects["commit_chat"] = Chat
  /\ Subjects["finish_item"] = Diagnosis /\ Subjects["finish"] = Diagnosis
  /\ Subjects["fail"] = Chat \cup Doc /\ Subjects["sweep"] = {"all"} /\ Subjects["revoke"] = {"all"}
  /\ Subjects["owned_profile"] = Profile /\ Subjects["owned_diagnosis"] = Diagnosis
  BY DEF Subjects

LEMMA Parents ==
  /\ \A q \in Profile : Of(q) = q
  /\ \A t \in Chat \cup Diagnosis : Of(t) = About[t] /\ About[t] \in Profile
  BY TransactionsAssumption DEF Of, Task

(* The rows each kind of statement names.                                  *)
LEMMA RowKinds ==
  /\ SessionRow \in Row /\ SessionRow[1] = "session" /\ KeyRow \in Row /\ KeyRow[1] = "key"
  /\ \A q \in Profile : <<"parent", q>> \in Row
  /\ \A t \in Task : <<"task", t>> \in Row
  /\ \A d \in Doc : <<"queue", d>> \in Row /\ <<"document", d>> \in Row
  BY DEF Row, SessionRow, KeyRow

LEMMA SessionRowAlone == \A x \in Row : x[1] = "session" <=> x = SessionRow
  BY DEF Row, SessionRow, KeyRow

(*------------------------ What a statement leaves -----------------------*)

(* The next statement runs: later is the transaction after it, and all it  *)
(* then holds.                                                             *)
Runs(row, held, later, all) ==
  /\ Sound(row, held) /\ row.at \in DOMAIN Statements[row.kind]
  /\ Passes(row, Statements[row.kind][row.at])
  /\ all = held \cup row.todo /\ later = Later(row, all)

LEMMA ReadsTyped ==
  ASSUME RowsTyped, NEW rid, NEW statement,
         statement = "version" => rid \in Profile,
         statement \in {"status", "items"} => rid \in Diagnosis
  PROVE  /\ statement = "version" => Reads(rid, statement) \in Nat
         /\ statement \in {"messages", "conversations"} => Reads(rid, statement) \in SUBSET Chat
         /\ statement = "status" => Reads(rid, statement) \in Status
         /\ statement = "items" => Reads(rid, statement) \in SUBSET Job
  BY DEF Reads, RowsTyped, Messages, Conversations, Task

LEMMA LaterTyped ==
  ASSUME RowsTyped, NEW row, NEW held, NEW later, NEW all, Runs(row, held, later, all),
         later.todo \subseteq Row
  PROVE  /\ later \in Transaction /\ all \subseteq Row
         /\ later.kind = row.kind /\ later.rid = row.rid /\ later.base = row.base /\ later.at = row.at + 1
<1>0. later = Later(row, all) /\ all = held \cup row.todo
  BY DEF Runs
<1>1. row \in Transaction /\ row.rid \in Subjects[row.kind] /\ row.kind \in Kind /\ row.saw \in Seen
  BY DEF Runs, Sound, Shape, Transaction
<1>2. /\ Statements[row.kind][row.at] = "version" => row.rid \in Profile
      /\ Statements[row.kind][row.at] \in {"status", "items"} => row.rid \in Diagnosis
  BY <1>1, StatementLists, SubjectsOf DEF Runs
<1>3. later.saw \in Seen
  <2>1. later.saw = [s \in DOMAIN row.saw |-> IF s = Statements[row.kind][row.at] THEN Reads(row.rid, s)
                                              ELSE row.saw[s]]
    BY <1>0 DEF Later
  <2>2. DOMAIN row.saw = {"version", "messages", "conversations", "status", "items"}
    BY <1>1 DEF Seen
  <2>3. /\ row.saw["version"] \in Nat /\ row.saw["messages"] \in SUBSET Chat
        /\ row.saw["conversations"] \in SUBSET Chat /\ row.saw["status"] \in Status
        /\ row.saw["items"] \in SUBSET Job
    BY <1>1 DEF Seen
  <2>4. /\ later.saw["version"] \in Nat /\ later.saw["messages"] \in SUBSET Chat
        /\ later.saw["conversations"] \in SUBSET Chat /\ later.saw["status"] \in Status
        /\ later.saw["items"] \in SUBSET Job
    <3>1. PICK statement : statement = Statements[row.kind][row.at]
      OBVIOUS
    <3>2. QED
      BY <1>2, <2>1, <2>2, <2>3, <3>1, ReadsTyped
  <2>5. QED
    BY <2>1, <2>2, <2>4 DEF Seen
<1>4. /\ later.kind = row.kind /\ later.rid = row.rid /\ later.base = row.base /\ later.at = row.at + 1
      /\ later = [kind |-> later.kind, rid |-> later.rid, base |-> later.base, at |-> later.at,
                  saw |-> later.saw, todo |-> later.todo]
  BY <1>0 DEF Later
<1>5. row.rid \in Profile \cup Task \cup {"new", "all"} /\ row.base \in Nat /\ row.at + 1 \in Nat
      /\ row.todo \subseteq Row /\ held \subseteq Row
  BY <1>1 DEF Transaction, Runs, Sound
<1>6. later \in Transaction
  BY <1>1, <1>3, <1>4, <1>5 DEF Transaction
<1>7. QED
  BY <1>0, <1>4, <1>5, <1>6

LEMMA LaterSound ==
  ASSUME RowsTyped, NEW row, NEW held, NEW later, NEW all, Runs(row, held, later, all),
         later.todo \subseteq Row,
         Waiting(later, all), Holding(later, all), Unchanged(later), Counted(later), Coherent(later),
         Queueing(later, all)
  PROVE  Sound(later, all)
<1>1. /\ later \in Transaction /\ all \subseteq Row
      /\ later.kind = row.kind /\ later.rid = row.rid /\ later.at = row.at + 1
  BY LaterTyped
<1>2. row.rid \in Subjects[row.kind] /\ row.kind \in Kind /\ row.at \in DOMAIN Statements[row.kind]
  BY DEF Runs, Sound, Shape, Transaction
<1>3. row.at + 1 \in 1 .. Len(Statements[row.kind]) + 1
  <2>1. /\ Len(Statements[row.kind]) \in Nat
        /\ DOMAIN Statements[row.kind] = 1 .. Len(Statements[row.kind])
    BY <1>2, StatementLengths
  <2>2. QED
    BY <1>2, <2>1
<1>4. QED
  BY <1>1, <1>2, <1>3 DEF Sound, Shape

(* A transaction whose last statement has run waits for nothing.           *)
LEMMA LastStatement ==
  ASSUME RowsTyped, NEW row, NEW held, NEW later, NEW all, Runs(row, held, later, all),
         row.at = Len(Statements[row.kind])
  PROVE  /\ later.kind = row.kind /\ later.rid = row.rid /\ later.base = row.base
         /\ later.at = row.at + 1 /\ later.todo = {} /\ Waiting(later, all)
<1>1. later.todo = {} /\ later.todo \subseteq Row
  BY DEF Later, Runs
<1>2. later.kind = row.kind /\ later.rid = row.rid /\ later.base = row.base /\ later.at = row.at + 1
  BY <1>1, LaterTyped
<1>3. row.kind \in Kind
  BY DEF Runs, Sound, Transaction
<1>4. row.at + 1 \notin DOMAIN Statements[row.kind]
  BY <1>3, StatementLengths
<1>5. QED
  BY <1>1, <1>2, <1>4 DEF Waiting, Awaits

LEMMA EditLater ==
  ASSUME RowsTyped, NEW row, NEW held, NEW later, NEW all, Runs(row, held, later, all),
         row.kind \in {"edit", "confirm"}
  PROVE  Sound(later, all)
<1>1. /\ Statements[row.kind] = <<"parent">> /\ row.at = 1 /\ row.rid \in Profile /\ Sound(row, held)
      /\ all = held \cup row.todo
  BY StatementLists, SubjectsOf DEF Runs, Sound, Shape
<1>2. row.todo = {<<"parent", row.rid>>} /\ latest[row.rid] = row.base /\ alive
  BY <1>1, Parents DEF Runs, Passes, Sound, Shape, Waiting, Awaits, Unchanged
<1>3. /\ later.kind = row.kind /\ later.rid = row.rid /\ later.base = row.base
      /\ later.at = row.at + 1 /\ later.todo = {} /\ Waiting(later, all)
  <2>1. row.at = Len(Statements[row.kind])
    BY <1>1
  <2>2. QED
    BY <2>1, LastStatement
<1>4. Holding(later, all)
  BY <1>1, <1>2, <1>3, RowKinds DEF Holding, Sound, Shape
<1>5. Unchanged(later) /\ Counted(later) /\ Coherent(later) /\ Queueing(later, all)
  BY <1>1, <1>2, <1>3 DEF Unchanged, Counted, Coherent, Queueing
<1>6. QED
  BY <1>3, <1>4, <1>5, LaterSound

LEMMA ProfileCreateLater ==
  ASSUME RowsTyped, NEW row, NEW held, NEW later, NEW all, Runs(row, held, later, all),
         row.kind = "create_profile"
  PROVE  Sound(later, all)
<1>1. /\ Statements[row.kind] = <<"key", "claim">> /\ row.at \in {1, 2} /\ Sound(row, held)
      /\ all = held \cup row.todo
  BY StatementLists DEF Runs, Sound, Shape
<1>2. key # "live" /\ alive
  BY <1>1 DEF Runs, Passes, KeyUnused, Sound, Unchanged
<1>3. CASE row.at = 1
  <2>1. row.todo = {}
    <3>1. ASSUME NEW x \in row.todo PROVE FALSE
      <4>1. Awaits(row, IF x[1] = "key" THEN "claim" ELSE x[1])
        BY <1>1, <3>1 DEF Sound, Shape, Waiting
      <4>2. QED
        BY <1>1, <1>3, <4>1 DEF Awaits
    <3>2. QED
      BY <3>1
  <2>2. later.todo = {KeyRow} /\ later.todo \subseteq Row
    BY <1>1, <1>3, RowKinds DEF Runs, Later, Wanted
  <2>3. /\ later.kind = row.kind /\ later.rid = row.rid /\ later.at = 2
    BY <1>3, <2>2, LaterTyped
  <2>4. Waiting(later, all)
    BY <1>1, <1>3, <2>1, <2>2, <2>3, RowKinds DEF Sound, Shape, Holding, Waiting, Awaits
  <2>5. Holding(later, all)
    BY <1>1, <1>3, <2>1, <2>3 DEF Holding, Sound, Shape
  <2>6. Unchanged(later) /\ Counted(later) /\ Coherent(later) /\ Queueing(later, all)
    BY <1>1, <1>2, <2>3 DEF Unchanged, Counted, Coherent, Queueing
  <2>7. QED
    BY <2>2, <2>4, <2>5, <2>6, LaterSound
<1>4. CASE row.at = 2
  <2>1. row.todo = {KeyRow}
    BY <1>1, <1>4 DEF Sound, Shape, Waiting, Awaits
  <2>2. row.at = Len(Statements[row.kind])
    BY <1>1, <1>4
  <2>3. /\ later.kind = row.kind /\ later.rid = row.rid /\ later.at = row.at + 1
        /\ later.todo = {} /\ Waiting(later, all)
    BY <2>2, LastStatement
  <2>4. Holding(later, all)
    BY <1>1, <1>4, <2>1, <2>3, RowKinds DEF Holding, Sound, Shape
  <2>5. Unchanged(later) /\ Counted(later) /\ Coherent(later) /\ Queueing(later, all)
    BY <1>1, <1>2, <2>3 DEF Unchanged, Counted, Coherent, Queueing
  <2>6. QED
    BY <2>3, <2>4, <2>5, LaterSound
<1>5. QED
  BY <1>1, <1>3, <1>4

(* What a statement read is what it is seen to have read later on.         *)
LEMMA LaterSaw ==
  ASSUME NEW row, NEW held, NEW later, NEW all, Runs(row, held, later, all),
         NEW s \in {"version", "messages", "conversations", "status", "items"}
  PROVE  later.saw[s] = IF s = Statements[row.kind][row.at] THEN Reads(row.rid, s) ELSE row.saw[s]
<1>1. DOMAIN row.saw = {"version", "messages", "conversations", "status", "items"}
  BY DEF Runs, Sound, Transaction, Seen
<1>2. QED
  BY <1>1 DEF Runs, Later

(* A statement that waits for no row, of a transaction whose next one      *)
(* does not wait either.                                                   *)
LEMMA PlainStatement ==
  ASSUME RowsTyped, NEW row, NEW held, NEW later, NEW all, Runs(row, held, later, all),
         row.kind \in {"create_chat", "diagnose", "finish", "owned_profile", "owned_diagnosis"},
         row.kind = "create_chat" => row.at > 1, row.kind = "finish" => row.at > 1
  PROVE  /\ later.kind = row.kind /\ later.rid = row.rid /\ later.base = row.base
         /\ later.at = row.at + 1 /\ later.todo = {} /\ all = held /\ row.todo = {}
         /\ Waiting(later, all) /\ Holding(later, all) /\ Queueing(later, all)
<1>1. /\ row.at \in DOMAIN Statements[row.kind] /\ Sound(row, held) /\ row.at \in Nat
      /\ all = held \cup row.todo
  BY DEF Runs, Sound, Transaction
<1>2. \A i \in DOMAIN Statements[row.kind] :
        i >= row.at => Statements[row.kind][i] \notin {"parent", "task", "claim", "key", "queue", "document"}
  BY <1>1, StatementLists
<1>3. row.todo = {}
  <2>1. ASSUME NEW x \in row.todo PROVE FALSE
    <3>1. x \in Row /\ x[1] \in {"parent", "task", "key", "queue", "document", "session"}
      BY <1>1 DEF Sound, Transaction, Row, SessionRow, KeyRow
    <3>2. Statements[row.kind][row.at] \in {"parent", "task", "claim", "queue", "document", "session"}
      BY <1>1, <3>1 DEF Sound, Shape, Waiting, Awaits
    <3>3. QED
      BY <1>1, <1>2, <3>2, StatementLists
  <2>2. QED
    BY <2>1
<1>4. later.todo = {} /\ later.todo \subseteq Row
  <2>1. row.at # Len(Statements[row.kind]) => row.at + 1 \in DOMAIN Statements[row.kind]
    BY <1>1, StatementLists
  <2>2. row.at # Len(Statements[row.kind]) =>
          Statements[row.kind][row.at + 1] \notin {"parent", "task", "claim", "queue", "document"}
    BY <1>1, <1>2, <2>1
  <2>3. QED
    BY <2>2 DEF Runs, Later, Wanted
<1>5. /\ later.kind = row.kind /\ later.rid = row.rid /\ later.base = row.base /\ later.at = row.at + 1
  BY <1>4, LaterTyped
<1>6. Waiting(later, all)
  <2>1. \A i \in DOMAIN Statements[row.kind] : i = row.at + 1 => i >= row.at
    BY <1>1
  <2>2. ~Awaits(later, "parent") /\ ~Awaits(later, "task") /\ ~Awaits(later, "claim")
    BY <1>2, <1>5, <2>1 DEF Awaits
  <2>3. QED
    BY <1>4, <2>2 DEF Waiting
<1>7. Holding(later, all) /\ Queueing(later, all)
  BY <1>1, <1>3, <1>5 DEF Sound, Shape, Holding, Queueing
<1>8. QED
  BY <1>1, <1>3, <1>4, <1>5, <1>6, <1>7

LEMMA ChatCreateLater ==
  ASSUME RowsTyped, NEW row, NEW held, NEW later, NEW all, Runs(row, held, later, all),
         row.kind = "create_chat"
  PROVE  Sound(later, all)
<1>1. /\ Statements[row.kind] = <<"parent", "conversations", "messages", "unfinished">>
      /\ row.at \in {1, 2, 3, 4} /\ row.rid \in Chat /\ Sound(row, held)
      /\ all = held \cup row.todo /\ Passes(row, Statements[row.kind][row.at])
  BY StatementLists, SubjectsOf DEF Runs, Sound, Shape
<1>2. alive
  BY <1>1 DEF Sound, Unchanged
<1>3. CASE row.at = 1
  <2>1. row.todo = {<<"parent", About[row.rid]>>} /\ About[row.rid] \in Profile
    BY <1>1, <1>3, Parents DEF Sound, Shape, Waiting, Awaits
  <2>2. later.todo = {} /\ later.todo \subseteq Row
    BY <1>1, <1>3 DEF Runs, Later, Wanted
  <2>3. /\ later.kind = row.kind /\ later.rid = row.rid /\ later.at = 2
    BY <1>3, <2>2, LaterTyped
  <2>4. Waiting(later, all)
    BY <1>1, <2>2, <2>3 DEF Waiting, Awaits
  <2>5. Holding(later, all)
    BY <1>1, <1>3, <2>1, <2>3, RowKinds DEF Holding, Sound, Shape
  <2>6. Unchanged(later) /\ Counted(later) /\ Coherent(later) /\ Queueing(later, all)
    BY <1>1, <1>2, <2>3 DEF Unchanged, Counted, Coherent, Queueing
  <2>7. QED
    BY <2>2, <2>4, <2>5, <2>6, LaterSound
<1>4. CASE row.at > 1
  <2>1. /\ later.kind = row.kind /\ later.rid = row.rid /\ later.at = row.at + 1 /\ later.todo = {}
        /\ Waiting(later, all) /\ Holding(later, all) /\ Queueing(later, all)
    BY <1>1, <1>4, PlainStatement
  <2>2. later.saw["conversations"] = IF row.at = 2 THEN Conversations ELSE row.saw["conversations"]
    <3>1. row.at = 2 <=> Statements[row.kind][row.at] = "conversations"
      BY <1>1
    <3>2. Reads(row.rid, "conversations") = Conversations
      BY DEF Reads
    <3>3. QED
      BY <3>1, <3>2, LaterSaw
  <2>3. later.saw.conversations = Conversations
    <3>1. row.at > 2 => row.saw.conversations = Conversations
      BY <1>1 DEF Sound, Counted
    <3>2. QED
      BY <1>1, <1>4, <2>2, <3>1
  <2>4. row.at = 3 => Cardinality(Messages) + Cardinality(Conversations) < MAX_ROUNDS
    BY <1>1 DEF Passes, Sound, Counted
  <2>5. row.at = 4 => Cardinality(Unfinished) < MAX_ACTIVE
    BY <1>1 DEF Passes
  <2>6. Counted(later)
    BY <1>1, <1>4, <2>1, <2>3, <2>4, <2>5 DEF Sound, Counted
  <2>7. Unchanged(later) /\ Coherent(later)
    BY <1>1, <1>2, <2>1 DEF Unchanged, Coherent
  <2>8. QED
    BY <2>1, <2>6, <2>7, LaterSound
<1>5. QED
  BY <1>1, <1>3, <1>4

LEMMA DiagnoseLater ==
  ASSUME RowsTyped, NEW row, NEW held, NEW later, NEW all, Runs(row, held, later, all),
         row.kind = "diagnose"
  PROVE  Sound(later, all)
<1>1. /\ Statements[row.kind] = <<"versions", "unfinished">> /\ row.at \in {1, 2} /\ Sound(row, held)
      /\ Passes(row, Statements[row.kind][row.at])
  BY StatementLists DEF Runs, Sound, Shape
<1>2. /\ later.kind = row.kind /\ later.rid = row.rid /\ later.at = row.at + 1 /\ later.todo = {}
      /\ Waiting(later, all) /\ Holding(later, all) /\ Queueing(later, all)
  BY PlainStatement
<1>3. row.at = 2 => Cardinality(Unfinished) < MAX_ACTIVE
  BY <1>1 DEF Passes
<1>4. Counted(later)
  BY <1>1, <1>2, <1>3 DEF Counted
<1>5. Unchanged(later) /\ Coherent(later)
  BY <1>1, <1>2 DEF Sound, Unchanged, Coherent
<1>6. QED
  BY <1>2, <1>4, <1>5, LaterSound

LEMMA ItemLater ==
  ASSUME RowsTyped, NEW row, NEW held, NEW later, NEW all, Runs(row, held, later, all),
         row.kind = "finish_item"
  PROVE  Sound(later, all)
<1>1. /\ Statements[row.kind] = <<"task">> /\ row.at = 1 /\ row.rid \in Task /\ Sound(row, held)
      /\ all = held \cup row.todo
  BY StatementLists, SubjectsOf DEF Runs, Sound, Shape, Task
<1>2. row.todo = {<<"task", row.rid>>}
  BY <1>1 DEF Sound, Shape, Waiting, Awaits
<1>3. /\ later.kind = row.kind /\ later.rid = row.rid /\ later.at = row.at + 1
      /\ later.todo = {} /\ Waiting(later, all)
  <2>1. row.at = Len(Statements[row.kind])
    BY <1>1
  <2>2. QED
    BY <2>1, LastStatement
<1>4. Holding(later, all)
  BY <1>1, <1>2, <1>3, RowKinds DEF Holding, Sound, Shape
<1>5. Unchanged(later) /\ Counted(later) /\ Coherent(later) /\ Queueing(later, all)
  BY <1>1, <1>3 DEF Unchanged, Counted, Coherent, Queueing, Sound
<1>6. QED
  BY <1>3, <1>4, <1>5, LaterSound

LEMMA FinishLater ==
  ASSUME RowsTyped, NEW row, NEW held, NEW later, NEW all, Runs(row, held, later, all),
         row.kind = "finish"
  PROVE  Sound(later, all)
<1>1. /\ Statements[row.kind] = <<"task", "items">> /\ row.at \in {1, 2} /\ row.rid \in Task
      /\ Sound(row, held) /\ all = held \cup row.todo /\ Passes(row, Statements[row.kind][row.at])
  BY StatementLists, SubjectsOf DEF Runs, Sound, Shape, Task
<1>2. alive
  BY <1>1 DEF Sound, Unchanged
<1>3. CASE row.at = 1
  <2>1. row.todo = {<<"task", row.rid>>}
    BY <1>1, <1>3 DEF Sound, Shape, Waiting, Awaits
  <2>2. later.todo = {} /\ later.todo \subseteq Row
    BY <1>1, <1>3 DEF Runs, Later, Wanted
  <2>3. /\ later.kind = row.kind /\ later.rid = row.rid /\ later.at = 2
    BY <1>3, <2>2, LaterTyped
  <2>4. Waiting(later, all)
    BY <1>1, <2>2, <2>3 DEF Waiting, Awaits
  <2>5. Holding(later, all)
    BY <1>1, <1>3, <2>1, <2>3, RowKinds DEF Holding, Sound, Shape
  <2>6. Unchanged(later) /\ Counted(later) /\ Coherent(later) /\ Queueing(later, all)
    BY <1>1, <1>2, <2>3 DEF Unchanged, Counted, Coherent, Queueing
  <2>7. QED
    BY <2>2, <2>4, <2>5, <2>6, LaterSound
<1>4. CASE row.at = 2
  <2>1. /\ later.kind = row.kind /\ later.rid = row.rid /\ later.at = row.at + 1 /\ later.todo = {}
        /\ Waiting(later, all) /\ Holding(later, all) /\ Queueing(later, all)
    BY <1>1, <1>4, PlainStatement
  <2>2. settled[row.rid] = Job
    BY <1>1, <1>4 DEF Passes
  <2>3. Unchanged(later) /\ Counted(later) /\ Coherent(later)
    BY <1>1, <1>2, <2>1, <2>2 DEF Unchanged, Counted, Coherent
  <2>4. QED
    BY <2>1, <2>3, LaterSound
<1>5. QED
  BY <1>1, <1>3, <1>4

LEMMA ProfileReadLater ==
  ASSUME RowsTyped, RowsOK, NEW row, NEW held, NEW later, NEW all, Runs(row, held, later, all),
         row.kind = "owned_profile"
  PROVE  Sound(later, all)
<1>1. /\ Statements[row.kind] = <<"version", "messages">> /\ row.at \in {1, 2} /\ row.rid \in Profile
      /\ Sound(row, held)
  BY StatementLists, SubjectsOf DEF Runs, Sound, Shape
<1>2. /\ later.kind = row.kind /\ later.rid = row.rid /\ later.at = row.at + 1 /\ later.todo = {}
      /\ Waiting(later, all) /\ Holding(later, all) /\ Queueing(later, all)
  BY PlainStatement
<1>3. CASE row.at = 1
  <2>1. later.saw["version"] = latest[row.rid]
    BY <1>1, <1>3, LaterSaw DEF Reads
  <2>2. latest[row.rid] \in Nat
    BY <1>1 DEF RowsTyped
  <2>3. Coherent(later)
    BY <1>2, <1>3, <2>1, <2>2 DEF Coherent
  <2>4. Unchanged(later) /\ Counted(later)
    BY <1>1, <1>2 DEF Sound, Unchanged, Counted
  <2>5. QED
    BY <1>2, <2>3, <2>4, LaterSound
<1>4. CASE row.at = 2
  <2>1. later.saw["version"] = row.saw["version"] /\ later.saw["messages"] = Messages
    BY <1>1, <1>4, LaterSaw DEF Reads
  <2>2. row.saw["version"] <= latest[row.rid]
    BY <1>1, <1>4 DEF Sound, Coherent
  <2>3. \A c \in Chat : turn[c] \in 1..row.saw["version"] => c \in Messages
    BY DEF Messages
  <2>4. Coherent(later)
    BY <1>2, <1>4, <2>1, <2>2, <2>3 DEF Coherent
  <2>5. Unchanged(later) /\ Counted(later)
    BY <1>1, <1>2 DEF Sound, Unchanged, Counted
  <2>6. QED
    BY <1>2, <2>4, <2>5, LaterSound
<1>5. QED
  BY <1>1, <1>3, <1>4

LEMMA DiagnosisReadLater ==
  ASSUME RowsTyped, RowsOK, NEW row, NEW held, NEW later, NEW all, Runs(row, held, later, all),
         row.kind = "owned_diagnosis"
  PROVE  Sound(later, all)
<1>1. /\ Statements[row.kind] = <<"status", "items">> /\ row.at \in {1, 2} /\ row.rid \in Diagnosis
      /\ Sound(row, held) /\ status[row.rid] # "none"
  BY StatementLists, SubjectsOf DEF Runs, Sound, Shape, Coherent
<1>2. /\ later.kind = row.kind /\ later.rid = row.rid /\ later.at = row.at + 1 /\ later.todo = {}
      /\ Waiting(later, all) /\ Holding(later, all) /\ Queueing(later, all)
  BY PlainStatement
<1>3. Unchanged(later) /\ Counted(later)
  BY <1>1, <1>2 DEF Sound, Unchanged, Counted
<1>4. Coherent(later)
  <2>1. CASE row.at = 1
    <3>1. later.saw["status"] = status[row.rid]
      BY <1>1, <2>1, LaterSaw DEF Reads
    <3>2. status[row.rid] # "open" => settled[row.rid] = Job
      BY <1>1 DEF RowsOK, RowsTyped, Status, Task
    <3>3. QED
      BY <1>1, <1>2, <2>1, <3>1, <3>2 DEF Coherent
  <2>2. CASE row.at = 2
    <3>1. later.saw["status"] = row.saw["status"] /\ later.saw["items"] = settled[row.rid]
      BY <1>1, <2>2, LaterSaw DEF Reads
    <3>2. row.saw["status"] # "open" => settled[row.rid] = Job
      BY <1>1, <2>2 DEF Sound, Coherent
    <3>3. QED
      BY <1>1, <1>2, <2>2, <3>1, <3>2 DEF Coherent
  <2>3. QED
    BY <1>1, <2>1, <2>2
<1>5. QED
  BY <1>2, <1>3, <1>4, LaterSound

LEMMA ChatCommitLater ==
  ASSUME RowsTyped, NEW row, NEW held, NEW later, NEW all, Runs(row, held, later, all),
         row.kind = "commit_chat"
  PROVE  Sound(later, all)
<1>1. /\ Statements[row.kind] = <<"task", "parent">> /\ row.at \in {1, 2} /\ row.rid \in Chat
      /\ Sound(row, held) /\ all = held \cup row.todo /\ Passes(row, Statements[row.kind][row.at])
  BY StatementLists, SubjectsOf DEF Runs, Sound, Shape
<1>2. alive /\ Of(row.rid) = About[row.rid] /\ About[row.rid] \in Profile /\ row.rid \in Task
  BY <1>1, Parents DEF Sound, Unchanged, Task
<1>3. CASE row.at = 1
  <2>1. row.todo = {<<"task", row.rid>>} /\ status[row.rid] = "open"
    BY <1>1, <1>3 DEF Sound, Shape, Waiting, Awaits, Passes
  <2>2. later.todo = {<<"parent", About[row.rid]>>} /\ later.todo \subseteq Row
    BY <1>1, <1>2, <1>3, RowKinds DEF Runs, Later, Wanted, ParentRows
  <2>3. /\ later.kind = row.kind /\ later.rid = row.rid /\ later.at = 2
    BY <1>3, <2>2, LaterTyped
  <2>4. <<"parent", About[row.rid]>> \notin all
    BY <1>1, <1>3, <2>1 DEF Sound, Shape, Holding
  <2>5. Waiting(later, all)
    BY <1>1, <1>2, <2>2, <2>3, <2>4 DEF Waiting, Awaits
  <2>6. Holding(later, all)
    BY <1>1, <1>3, <2>1, <2>3, RowKinds DEF Holding, Sound, Shape
  <2>7. Unchanged(later) /\ Counted(later) /\ Coherent(later) /\ Queueing(later, all)
    BY <1>1, <1>2, <2>1, <2>3 DEF Unchanged, Counted, Coherent, Queueing
  <2>8. QED
    BY <2>2, <2>5, <2>6, <2>7, LaterSound
<1>4. CASE row.at = 2
  <2>1. row.todo = {<<"parent", About[row.rid]>>} /\ latest[About[row.rid]] = row.base
    BY <1>1, <1>2, <1>4 DEF Sound, Shape, Waiting, Awaits, Passes
  <2>2. row.at = Len(Statements[row.kind])
    BY <1>1, <1>4
  <2>3. /\ later.kind = row.kind /\ later.rid = row.rid /\ later.base = row.base /\ later.at = row.at + 1
        /\ later.todo = {} /\ Waiting(later, all)
    BY <2>2, LastStatement
  <2>4. Holding(later, all)
    BY <1>1, <1>4, <2>1, <2>3, RowKinds DEF Holding, Sound, Shape
  <2>5. Unchanged(later) /\ Counted(later) /\ Coherent(later) /\ Queueing(later, all)
    BY <1>1, <1>2, <1>4, <2>1, <2>3 DEF Unchanged, Counted, Coherent, Queueing, Sound
  <2>6. QED
    BY <2>3, <2>4, <2>5, LaterSound
<1>5. QED
  BY <1>1, <1>3, <1>4

(* The end of a task waits for its own original, a sweep and a deletion    *)
(* for all that they are about to remove or to queue.                      *)
LEMMA OriginalsWanted ==
  ASSUME NEW held, NEW rid, NEW wanted
  PROVE  /\ wanted = Wanted(held, "fail", rid, "queue") =>
              wanted = {<<"queue", d>> : d \in {rid} \cap stored}
         /\ wanted = Wanted(held, "revoke", rid, "queue") =>
              wanted = {<<"queue", d>> : d \in stored}
         /\ wanted = Wanted(held, "fail", rid, "document") =>
              \A x \in wanted : \E d \in stored : x = <<"document", d>> /\ d = rid
         /\ wanted = Wanted(held, "revoke", rid, "document") =>
              \A x \in wanted : \E d \in stored : x = <<"document", d>>
         /\ wanted = Wanted(held, "sweep", rid, "document") =>
              \A x \in wanted : \E d \in stored : x = <<"document", d>> /\ <<"queue", d>> \in held
<1>1. /\ wanted = Wanted(held, "fail", rid, "queue") => wanted = {<<"queue", d>> : d \in {rid} \cap stored}
      /\ wanted = Wanted(held, "revoke", rid, "queue") => wanted = {<<"queue", d>> : d \in stored}
  BY DEF Wanted
<1>2. wanted = Wanted(held, "fail", rid, "document") =>
        \A x \in wanted : \E d \in stored : x = <<"document", d>> /\ d = rid
  BY DEF Wanted
<1>3. wanted = Wanted(held, "revoke", rid, "document") =>
        \A x \in wanted : \E d \in stored : x = <<"document", d>>
  BY DEF Wanted
<1>4. wanted = Wanted(held, "sweep", rid, "document") =>
        \A x \in wanted : \E d \in stored : x = <<"document", d>> /\ <<"queue", d>> \in held
  BY DEF Wanted
<1>5. QED
  BY <1>1, <1>2, <1>3, <1>4

LEMMA FailLater ==
  ASSUME RowsTyped, NEW row, NEW held, NEW later, NEW all, Runs(row, held, later, all),
         row.kind = "fail"
  PROVE  Sound(later, all)
<1>1. /\ Statements[row.kind] = <<"task", "queue", "document">> /\ row.at \in {1, 2, 3}
      /\ row.rid \in Task /\ Sound(row, held) /\ all = held \cup row.todo
  BY StatementLists, SubjectsOf DEF Runs, Sound, Shape, Task
<1>2. alive /\ held \subseteq Row
  BY <1>1 DEF Sound, Unchanged
<1>3. CASE row.at = 1
  <2>1. row.todo = {<<"task", row.rid>>}
    BY <1>1, <1>3 DEF Sound, Shape, Waiting, Awaits
  <2>2. /\ \A x \in later.todo : \E d \in stored : x = <<"queue", d>> /\ d = row.rid
        /\ row.rid \in stored => <<"queue", row.rid>> \in later.todo
        /\ later.todo \subseteq Row
    <3>1. later.todo = Wanted(all, "fail", row.rid, "queue")
      BY <1>1, <1>3 DEF Runs, Later
    <3>2. /\ \A x \in later.todo : \E d \in stored : x = <<"queue", d>> /\ d = row.rid
          /\ row.rid \in stored => <<"queue", row.rid>> \in later.todo
      BY <3>1, OriginalsWanted
    <3>3. QED
      BY <3>2, RowKinds DEF RowsTyped
  <2>3. /\ later.kind = row.kind /\ later.rid = row.rid /\ later.at = 2
    BY <1>3, <2>2, LaterTyped
  <2>4. \A x \in later.todo : x = <<"queue", row.rid>> /\ x \notin all
    BY <1>1, <1>3, <2>1, <2>2 DEF Sound, Shape, Holding
  <2>5. Waiting(later, all)
    BY <1>1, <2>3, <2>4 DEF Waiting, Awaits
  <2>6. Holding(later, all)
    BY <1>1, <1>3, <2>1, <2>3, RowKinds DEF Holding, Sound, Shape
  <2>7. Queueing(later, all)
    BY <1>1, <2>2, <2>3 DEF Queueing
  <2>8. Unchanged(later) /\ Counted(later) /\ Coherent(later)
    BY <1>1, <1>2, <2>3 DEF Unchanged, Counted, Coherent
  <2>9. QED
    BY <2>2, <2>5, <2>6, <2>7, <2>8, LaterSound
<1>4. CASE row.at = 2
  <2>1. \A x \in row.todo : x[1] = "queue"
    <3>1. ASSUME NEW x \in row.todo PROVE x[1] = "queue"
      <4>1. Awaits(row, IF x[1] = "key" THEN "claim" ELSE x[1])
        BY <1>1, <3>1 DEF Sound, Shape, Waiting
      <4>2. QED
        BY <1>1, <1>4, <4>1 DEF Awaits
    <3>2. QED
      BY <3>1
  <2>2. row.rid \in stored => <<"queue", row.rid>> \in all
    BY <1>1, <1>4 DEF Sound, Queueing
  <2>3. /\ \A x \in later.todo : \E d \in stored : x = <<"document", d>> /\ d = row.rid
        /\ later.todo \subseteq Row
    <3>1. later.todo = Wanted(all, "fail", row.rid, "document")
      BY <1>1, <1>4 DEF Runs, Later
    <3>2. \A x \in later.todo : \E d \in stored : x = <<"document", d>> /\ d = row.rid
      BY <3>1, OriginalsWanted
    <3>3. QED
      BY <3>2, RowKinds DEF RowsTyped
  <2>4. /\ later.kind = row.kind /\ later.rid = row.rid /\ later.at = 3
    BY <1>4, <2>3, LaterTyped
  <2>5. \A x \in all : x[1] # "document"
    BY <1>1, <1>4, <2>1 DEF Sound, Shape, Holding
  <2>6. \A x \in later.todo : x = <<"document", row.rid>> /\ x \notin all /\ <<"queue", x[2]>> \in all
    BY <2>2, <2>3, <2>5
  <2>7. Waiting(later, all)
    <3>1. Statements[later.kind][later.at] = "document" /\ later.at \in DOMAIN Statements[later.kind]
      BY <1>1, <2>4
    <3>2. ~Awaits(later, "parent") /\ ~Awaits(later, "task") /\ ~Awaits(later, "claim")
      BY <3>1 DEF Awaits
    <3>3. \A x, y \in later.todo : x = y
      BY <2>6
    <3>4. ASSUME NEW x \in later.todo
          PROVE  /\ x \notin all /\ Awaits(later, IF x[1] = "key" THEN "claim" ELSE x[1])
                 /\ <<"queue", x[2]>> \in all
      BY <2>6, <3>1, <3>4 DEF Awaits
    <3>5. QED
      BY <3>2, <3>3, <3>4 DEF Waiting
  <2>8. Holding(later, all)
    BY <1>1, <1>4, <2>1, <2>4, RowKinds DEF Holding, Sound, Shape
  <2>9. Unchanged(later) /\ Counted(later) /\ Coherent(later) /\ Queueing(later, all)
    BY <1>1, <1>2, <2>4 DEF Unchanged, Counted, Coherent, Queueing
  <2>10. QED
    BY <2>3, <2>7, <2>8, <2>9, LaterSound
<1>5. CASE row.at = 3
  <2>1. \A x \in row.todo : x[1] = "document" /\ <<"queue", x[2]>> \in held
    <3>1. ASSUME NEW x \in row.todo PROVE x[1] = "document"
      <4>1. Awaits(row, IF x[1] = "key" THEN "claim" ELSE x[1])
        BY <1>1, <3>1 DEF Sound, Shape, Waiting
      <4>2. QED
        BY <1>1, <1>5, <4>1 DEF Awaits
    <3>2. QED
      BY <1>1, <3>1 DEF Sound, Shape, Waiting
  <2>2. row.at = Len(Statements[row.kind])
    BY <1>1, <1>5
  <2>3. /\ later.kind = row.kind /\ later.rid = row.rid /\ later.at = row.at + 1
        /\ later.todo = {} /\ Waiting(later, all)
    BY <2>2, LastStatement
  <2>4. Holding(later, all)
    BY <1>1, <1>5, <2>1, <2>3, RowKinds DEF Holding, Sound, Shape
  <2>5. Unchanged(later) /\ Counted(later) /\ Coherent(later) /\ Queueing(later, all)
    BY <1>1, <1>2, <1>5, <2>3 DEF Unchanged, Counted, Coherent, Queueing
  <2>6. QED
    BY <2>3, <2>4, <2>5, LaterSound
<1>6. QED
  BY <1>1, <1>3, <1>4, <1>5

LEMMA SweepLater ==
  ASSUME RowsTyped, NEW row, NEW held, NEW later, NEW all, Runs(row, held, later, all),
         row.kind = "sweep"
  PROVE  Sound(later, all)
<1>1. /\ Statements[row.kind] = <<"document">> /\ row.at = 1 /\ Sound(row, held)
      /\ all = held \cup row.todo
  BY StatementLists DEF Runs, Sound, Shape
<1>2. \A x \in row.todo : x[1] = "document" /\ <<"queue", x[2]>> \in held
  <2>1. ASSUME NEW x \in row.todo PROVE x[1] = "document"
    <3>1. Awaits(row, IF x[1] = "key" THEN "claim" ELSE x[1])
      BY <1>1, <2>1 DEF Sound, Shape, Waiting
    <3>2. QED
      BY <1>1, <3>1 DEF Awaits
  <2>2. QED
    BY <1>1, <2>1 DEF Sound, Shape, Waiting
<1>3. /\ later.kind = row.kind /\ later.rid = row.rid /\ later.at = row.at + 1
      /\ later.todo = {} /\ Waiting(later, all)
  <2>1. row.at = Len(Statements[row.kind])
    BY <1>1
  <2>2. QED
    BY <2>1, LastStatement
<1>4. Holding(later, all)
  BY <1>1, <1>2, <1>3, RowKinds DEF Holding, Sound, Shape
<1>5. Unchanged(later) /\ Counted(later) /\ Coherent(later) /\ Queueing(later, all)
  BY <1>1, <1>3 DEF Unchanged, Counted, Coherent, Queueing
<1>6. QED
  BY <1>3, <1>4, <1>5, LaterSound

LEMMA RevokeLater ==
  ASSUME RowsTyped, NEW row, NEW held, NEW later, NEW all, Runs(row, held, later, all),
         row.kind = "revoke"
  PROVE  Sound(later, all)
<1>1. /\ Statements[row.kind] = <<"queue", "document">> /\ row.at \in {1, 2} /\ Sound(row, held)
      /\ all = held \cup row.todo
  BY StatementLists DEF Runs, Sound, Shape
<1>2. alive
  BY <1>1 DEF Sound, Unchanged
<1>3. \A x \in row.todo : x[1] = IF row.at = 1 THEN "queue" ELSE "document"
  <2>1. ASSUME NEW x \in row.todo PROVE x[1] = IF row.at = 1 THEN "queue" ELSE "document"
    <3>1. Awaits(row, IF x[1] = "key" THEN "claim" ELSE x[1])
      BY <1>1, <2>1 DEF Sound, Shape, Waiting
    <3>2. QED
      BY <1>1, <3>1 DEF Awaits
  <2>2. QED
    BY <2>1
<1>4. CASE row.at = 1
  <2>1. \A d \in stored : <<"queue", d>> \in all
    BY <1>1, <1>4 DEF Sound, Queueing
  <2>2. /\ \A x \in later.todo : \E d \in stored : x = <<"document", d>>
        /\ later.todo \subseteq Row
    <3>1. later.todo = Wanted(all, "revoke", row.rid, "document")
      BY <1>1, <1>4 DEF Runs, Later
    <3>2. \A x \in later.todo : \E d \in stored : x = <<"document", d>>
      BY <3>1, OriginalsWanted
    <3>3. QED
      BY <3>2, RowKinds DEF RowsTyped
  <2>3. /\ later.kind = row.kind /\ later.rid = row.rid /\ later.at = 2
    BY <1>4, <2>2, LaterTyped
  <2>4. \A x \in all : x[1] # "document"
    BY <1>1, <1>3, <1>4 DEF Sound, Shape, Holding
  <2>5. \A x \in later.todo : x[1] = "document" /\ x \notin all /\ <<"queue", x[2]>> \in all
    BY <2>1, <2>2, <2>4
  <2>6. Waiting(later, all)
    BY <1>1, <2>3, <2>5 DEF Waiting, Awaits
  <2>7. Holding(later, all)
    BY <1>1, <1>3, <1>4, <2>3, RowKinds DEF Holding, Sound, Shape
  <2>8. Unchanged(later) /\ Counted(later) /\ Coherent(later) /\ Queueing(later, all)
    BY <1>1, <1>2, <2>3 DEF Unchanged, Counted, Coherent, Queueing
  <2>9. QED
    BY <2>2, <2>6, <2>7, <2>8, LaterSound
<1>5. CASE row.at = 2
  <2>1. \A x \in row.todo : x[1] = "document" /\ <<"queue", x[2]>> \in held
    <3>1. \A x \in row.todo : x[1] = "document"
      BY <1>3, <1>5
    <3>2. QED
      BY <1>1, <3>1 DEF Sound, Shape, Waiting
  <2>2. row.at = Len(Statements[row.kind])
    BY <1>1, <1>5
  <2>3. /\ later.kind = row.kind /\ later.rid = row.rid /\ later.at = row.at + 1
        /\ later.todo = {} /\ Waiting(later, all)
    BY <2>2, LastStatement
  <2>4. Holding(later, all)
    BY <1>1, <1>5, <2>1, <2>3, RowKinds DEF Holding, Sound, Shape
  <2>5. Unchanged(later) /\ Counted(later) /\ Coherent(later) /\ Queueing(later, all)
    BY <1>1, <1>2, <1>5, <2>3 DEF Unchanged, Counted, Coherent, Queueing
  <2>6. QED
    BY <2>3, <2>4, <2>5, LaterSound
<1>6. QED
  BY <1>1, <1>4, <1>5

(* Whichever transaction runs its next statement.                          *)
LEMMA StatementKeepsSound ==
  ASSUME RowsTyped, RowsOK, NEW row, NEW held, NEW later, NEW all, Runs(row, held, later, all)
  PROVE  Sound(later, all)
<1>1. row.kind \in Kind
  BY DEF Runs, Sound, Transaction
<1>2. QED
  BY <1>1, StatementLists, EditLater, ProfileCreateLater, ChatCreateLater, DiagnoseLater, ItemLater, FinishLater,
     ProfileReadLater, DiagnosisReadLater, ChatCommitLater, FailLater, SweepLater, RevokeLater

(*------------------- Steps that change no shared row --------------------*)

LEMMA SameRows ==
  ASSUME UNCHANGED rows, NEW row, NEW held, Sound(row, held)
  PROVE  Sound(row, held)'
  BY DEF rows, Sound, Shape, Waiting, Holding, Unchanged, Counted, Coherent, Queueing, Messages, Conversations,
     Unfinished

LEMMA SameRowsOK ==
  ASSUME UNCHANGED <<rows, aged>>, RowsTyped, RowsOK
  PROVE  RowsTyped' /\ RowsOK'
<1>1. RowsTyped'
  BY DEF rows, RowsTyped
<1>2. RowsOK'
  BY DEF rows, RowsOK, LimitsHold, OneProfilePerKey, Messages, Conversations, Unfinished
<1>3. QED
  BY <1>1, <1>2

(* One transaction goes on, with locks nobody else holds.                  *)
Over(row, held) == row = Idle /\ held = {}

Compatible(p, row, held) ==
  \A q \in Process \ {p} :
    /\ held \cap lock[q] \subseteq {SessionRow}
    /\ SessionRow \in held \cap lock[q] => ~Exclusive(row.kind) /\ ~Exclusive(op[q].kind)

LEMMA OneMoves ==
  ASSUME TransactionsInv, UNCHANGED <<rows, aged>>, NEW p \in Process, NEW later, NEW all,
         begun' \in Nat,
         op' = [op EXCEPT ![p] = later], lock' = [lock EXCEPT ![p] = all],
         Over(later, all) \/ Sound(later, all), Compatible(p, later, all)
  PROVE  TransactionsInv'
<1>1. /\ op'[p] = later /\ lock'[p] = all
      /\ \A q \in Process \ {p} : op'[q] = op[q] /\ lock'[q] = lock[q]
  BY DEF TransactionsInv, TypeOK
<1>2. RowsTyped' /\ RowsOK'
  BY SameRowsOK DEF TransactionsInv, TypeOK
<1>3. TypeOK'
  <2>1. later \in Transaction \cup {Idle} /\ all \in SUBSET Row
    BY DEF Sound, Over
  <2>2. QED
    BY <1>2, <2>1 DEF TypeOK, TransactionsInv
<1>4. TransactionOK(p)'
  BY <1>1, SameRows DEF TransactionOK, Over
<1>5. ASSUME NEW q \in Process \ {p} PROVE TransactionOK(q)'
  <2>1. TransactionOK(q) /\ op'[q] = op[q] /\ lock'[q] = lock[q]
    BY <1>1, <1>5 DEF TransactionsInv
  <2>2. QED
    BY <2>1, SameRows DEF TransactionOK
<1>6. LocksOK'
  BY <1>1 DEF TransactionsInv, LocksOK, Compatible
<1>7. QED
  BY <1>2, <1>3, <1>4, <1>5, <1>6 DEF TransactionsInv

LEMMA LeaveKeeps ==
  ASSUME TransactionsInv, UNCHANGED <<rows, aged, begun>>, NEW p \in Process, Leave(p)
  PROVE  TransactionsInv'
<1>1. begun' \in Nat /\ op' = [op EXCEPT ![p] = Idle] /\ lock' = [lock EXCEPT ![p] = {}]
  BY DEF Leave, TransactionsInv, TypeOK
<1>2. Over(Idle, {}) /\ Compatible(p, Idle, {}) /\ UNCHANGED <<rows, aged>>
  BY DEF Over, Compatible
<1>3. QED
  BY <1>1, <1>2, OneMoves

LEMMA ExecuteKeeps ==
  ASSUME TransactionsInv, NEW p \in Process, Execute(p)
  PROVE  TransactionsInv'
<1>0. PICK row, held, all : row = op[p] /\ held = lock[p] /\ all = held \cup row.todo
  OBVIOUS
<1>1. /\ row # Idle /\ row.at <= Len(Statements[row.kind]) /\ UNCHANGED <<rows, aged, begun>>
      /\ \A r \in row.todo : ~Held(r)
  BY <1>0 DEF Execute
<1>2. Sound(row, held) /\ row.kind \in Kind
  BY <1>0, <1>1 DEF TransactionsInv, TransactionOK, Sound, Transaction
<1>3. CASE ~Passes(row, Statements[row.kind][row.at])
  BY <1>0, <1>1, <1>3, LeaveKeeps DEF Execute
<1>4. CASE Passes(row, Statements[row.kind][row.at])
  <2>0. PICK later : later = Later(row, all)
    OBVIOUS
  <2>1. row.at \in DOMAIN Statements[row.kind]
    <3>1. DOMAIN Statements[row.kind] = 1 .. Len(Statements[row.kind]) /\ Len(Statements[row.kind]) \in Nat
      BY <1>2, StatementLists
    <3>2. QED
      BY <1>1, <1>2, <3>1 DEF Sound, Shape
  <2>2. Runs(row, held, later, all)
    BY <1>0, <1>2, <1>4, <2>0, <2>1 DEF Runs
  <2>3. Sound(later, all)
    BY <2>2, StatementKeepsSound DEF TransactionsInv, TypeOK
  <2>4. lock' = [lock EXCEPT ![p] = all]
    BY <1>0, <1>4 DEF Execute
  <2>5. op' = [op EXCEPT ![p] = later]
    BY <1>0, <1>4, <2>0 DEF Execute
  <2>6. later.kind = row.kind
    BY <2>0 DEF Later
  <2>7. Compatible(p, later, all)
    <3>1. \A q \in Process : row.todo \cap lock[q] = {}
      BY <1>1 DEF Held
    <3>2. QED
      BY <1>0, <2>6, <3>1 DEF TransactionsInv, LocksOK, Compatible
  <2>8. begun' \in Nat
    BY <1>1 DEF TransactionsInv, TypeOK
  <2>9. QED
    BY <1>1, <2>3, <2>4, <2>5, <2>7, <2>8, OneMoves
<1>5. QED
  BY <1>3, <1>4

(* Only a sweep and a deletion lock several rows in one statement.         *)
LEMMA LockRowKeeps ==
  ASSUME TransactionsInv, NEW p \in Process, LockRow(p)
  PROVE  TransactionsInv'
<1>0. PICK row, held : row = op[p] /\ held = lock[p]
  OBVIOUS
<1>1. PICK x \in row.todo :
        /\ ~Held(x) /\ lock' = [lock EXCEPT ![p] = held \cup {x}]
        /\ op' = [op EXCEPT ![p] = [row EXCEPT !.todo = row.todo \ {x}]]
  BY <1>0 DEF LockRow
<1>2. Sound(row, held)
  BY <1>0, <1>1 DEF TransactionsInv, TransactionOK, Idle
<1>3. row.kind \in {"sweep", "revoke"}
  <2>1. CASE \A y \in row.todo : y = x
    <3>1. row.todo = {x}
      BY <2>1
    <3>2. Cardinality(row.todo) = 1
      BY <3>1, FS_Singleton
    <3>3. QED
      BY <1>0, <3>2 DEF LockRow
  <2>2. CASE \E y \in row.todo : y # x
    BY <1>2, <2>2 DEF Sound, Shape, Waiting
  <2>3. QED
    BY <2>1, <2>2
<1>4. PICK later, all : later = [row EXCEPT !.todo = row.todo \ {x}] /\ all = held \cup {x}
  OBVIOUS
<1>5. /\ later.kind = row.kind /\ later.rid = row.rid /\ later.base = row.base /\ later.at = row.at
      /\ later.saw = row.saw /\ later.todo = row.todo \ {x}
      /\ later \in Transaction /\ all \subseteq Row
  <2>1. row \in Transaction /\ row.todo \subseteq Row /\ row.todo \ {x} \in SUBSET Row /\ x \in Row
    BY <1>1, <1>2 DEF Sound, Transaction
  <2>2. QED
    BY <1>2, <1>4, <2>1 DEF Sound, Transaction
<1>6. /\ x \notin held /\ x[1] \in {"queue", "document"}
      /\ row.kind = "sweep" => x[1] = "document"
      /\ row.kind = "revoke" => (x[1] = "document" <=> row.at = 2)
      /\ x[1] = "document" => <<"queue", x[2]>> \in held
  <2>1. Statements["sweep"] = <<"document">> /\ Statements["revoke"] = <<"queue", "document">>
    BY StatementLists
  <2>2. x \notin held /\ Awaits(row, IF x[1] = "key" THEN "claim" ELSE x[1])
        /\ (x[1] = "document" => <<"queue", x[2]>> \in held)
    BY <1>1, <1>2 DEF Sound, Shape, Waiting
  <2>3. QED
    BY <1>3, <2>1, <2>2 DEF Awaits
<1>7. Shape(later, all)
  <2>1. ~Awaits(row, "parent") /\ ~Awaits(row, "task") /\ ~Awaits(row, "claim")
    BY <1>3, StatementLists DEF Awaits
  <2>2. Waiting(later, all)
    BY <1>2, <1>3, <1>4, <1>5, <2>1 DEF Waiting, Awaits, Sound, Shape
  <2>3. Holding(later, all)
    BY <1>2, <1>3, <1>4, <1>5, <1>6, RowKinds DEF Holding, Sound, Shape
  <2>4. QED
    BY <1>2, <1>5, <2>2, <2>3 DEF Sound, Shape
<1>8. Sound(later, all)
  <2>1. Unchanged(later) /\ Counted(later) /\ Coherent(later)
    BY <1>2, <1>3, <1>5 DEF Sound, Unchanged, Counted, Coherent
  <2>2. Queueing(later, all)
    BY <1>2, <1>3, <1>4, <1>5 DEF Sound, Queueing
  <2>3. QED
    BY <1>5, <1>7, <2>1, <2>2 DEF Sound
<1>9. Compatible(p, later, all)
  BY <1>0, <1>1, <1>4, <1>5 DEF Held, TransactionsInv, LocksOK, Compatible
<1>10. UNCHANGED <<rows, aged>> /\ begun' \in Nat
  BY DEF LockRow, TransactionsInv, TypeOK
<1>11. QED
  BY <1>1, <1>4, <1>8, <1>9, <1>10, OneMoves

LEMMA NamedTyped ==
  ASSUME RowsTyped, NEW kind \in Kind, NEW rid \in Subjects[kind]
  PROVE  Named(kind, rid) \in Nat
<1>1. CASE kind = "commit_chat"
  BY <1>1, SubjectsOf DEF Named, RowsTyped
<1>2. CASE kind \in {"edit", "confirm", "create_chat", "diagnose"}
  <2>1. rid \in Profile \cup Chat \cup Diagnosis
    BY <1>2, SubjectsOf
  <2>2. Of(rid) \in Profile
    BY <2>1, Parents
  <2>3. QED
    BY <1>2, <2>2 DEF Named, RowsTyped
<1>3. CASE kind \notin {"commit_chat", "edit", "confirm", "create_chat", "diagnose"}
  BY <1>3 DEF Named
<1>4. QED
  BY <1>1, <1>2, <1>3

(* A transaction as it begins, with the rows of its first statement.       *)
First(row, held) ==
  /\ row.kind \in Kind /\ row.rid \in Subjects[row.kind] /\ Callable(row.kind, row.rid) /\ row.at = 1
  /\ held = FirstRows(row.kind)
  /\ row = [kind |-> row.kind, rid |-> row.rid, base |-> Named(row.kind, row.rid), at |-> 1, saw |-> Nothing,
            todo |-> Wanted(held, row.kind, row.rid, Statements[row.kind][1])]

LEMMA FirstTyped ==
  ASSUME RowsTyped, alive, NEW row, NEW held, First(row, held), row.todo \subseteq Row
  PROVE  /\ row \in Transaction /\ held \subseteq Row
         /\ Unchanged(row) /\ Counted(row) /\ Coherent(row)
<1>1. row.rid \in Profile \cup Task \cup {"new", "all"}
  BY StatementLists, SubjectsOf DEF First, Task
<1>2. Nothing \in Seen
  BY DEF Nothing, Seen, Status
<1>3. row.base \in Nat /\ row.saw \in Seen /\ row.at \in Nat /\ row.kind \in Kind
  BY <1>2, NamedTyped DEF First
<1>4. row = [kind |-> row.kind, rid |-> row.rid, base |-> row.base, at |-> row.at, saw |-> row.saw,
             todo |-> row.todo]
  BY DEF First
<1>5. row \in Transaction
  BY <1>1, <1>3, <1>4 DEF Transaction
<1>6. held \subseteq Row
  BY RowKinds DEF First, FirstRows
<1>7. Unchanged(row) /\ Counted(row) /\ Coherent(row)
  BY DEF First, Unchanged, Counted, Coherent, Callable
<1>8. QED
  BY <1>5, <1>6, <1>7

LEMMA FirstSound ==
  ASSUME RowsTyped, alive, NEW row, NEW held, First(row, held)
  PROVE  Sound(row, held)
<1>1. /\ row.kind \in Kind /\ row.rid \in Subjects[row.kind] /\ row.at = 1
      /\ row.todo = Wanted(held, row.kind, row.rid, Statements[row.kind][1])
  BY DEF First
<1>3. SUFFICES row.todo \subseteq Row /\ Waiting(row, held) /\ Holding(row, held) /\ Queueing(row, held)
  <2>1. row.at \in 1 .. Len(Statements[row.kind]) + 1
    BY <1>1, StatementLists
  <2>2. QED
    BY <1>1, <1>3, <2>1, FirstTyped DEF Sound, Shape
<1>4. CASE row.kind \in {"create_profile", "diagnose", "owned_profile", "owned_diagnosis"}
  <2>1. Statements[row.kind][1] \in {"key", "versions", "version", "status"}
    BY <1>4, StatementLists
  <2>2. row.todo = {}
    BY <1>1, <2>1 DEF Wanted
  <2>3. ~Awaits(row, "parent") /\ ~Awaits(row, "task") /\ ~Awaits(row, "claim")
    BY <1>1, <2>1 DEF Awaits
  <2>4. held = {SessionRow}
    BY <1>4 DEF First, FirstRows
  <2>5. QED
    BY <1>1, <1>4, <2>2, <2>3, <2>4, RowKinds DEF Waiting, Holding, Queueing
<1>5. CASE row.kind \in {"edit", "confirm", "create_chat"}
  <2>1. Statements[row.kind][1] = "parent" /\ 1 \in DOMAIN Statements[row.kind] /\ Of(row.rid) \in Profile
    BY <1>1, <1>5, StatementLists, SubjectsOf, Parents
  <2>2. row.todo = {<<"parent", Of(row.rid)>>} /\ row.todo \subseteq Row
    BY <1>1, <2>1, RowKinds DEF Wanted, ParentRows
  <2>3. held = {SessionRow}
    BY <1>5 DEF First, FirstRows
  <2>4. Waiting(row, held)
    <3>1. Awaits(row, "parent") /\ ~Awaits(row, "task") /\ ~Awaits(row, "claim")
      BY <1>1, <2>1 DEF Awaits
    <3>2. \A x \in row.todo : x = <<"parent", Of(row.rid)>> /\ x[1] = "parent" /\ x \notin held
      BY <2>2, <2>3, RowKinds
    <3>3. QED
      BY <2>2, <3>1, <3>2 DEF Waiting
  <2>5. QED
    BY <1>1, <1>5, <2>2, <2>3, <2>4, RowKinds DEF Holding, Queueing
<1>6. CASE row.kind \in {"commit_chat", "finish_item", "finish", "fail"}
  <2>1. Statements[row.kind][1] = "task" /\ 1 \in DOMAIN Statements[row.kind] /\ row.rid \in Task
    BY <1>1, <1>6, StatementLists, SubjectsOf DEF Task
  <2>2. row.todo = {<<"task", row.rid>>} /\ row.todo \subseteq Row
    BY <1>1, <2>1, RowKinds DEF Wanted
  <2>3. held = {SessionRow}
    BY <1>6 DEF First, FirstRows
  <2>4. Waiting(row, held)
    <3>1. Awaits(row, "task") /\ ~Awaits(row, "parent") /\ ~Awaits(row, "claim")
      BY <1>1, <2>1 DEF Awaits
    <3>2. \A x \in row.todo : x = <<"task", row.rid>> /\ x[1] = "task" /\ x \notin held
      BY <2>2, <2>3, RowKinds
    <3>3. QED
      BY <2>2, <3>1, <3>2 DEF Waiting
  <2>5. QED
    BY <1>1, <1>6, <2>2, <2>3, <2>4, RowKinds DEF Holding, Queueing
<1>7. CASE row.kind = "revoke"
  <2>1. Statements[row.kind][1] = "queue" /\ 1 \in DOMAIN Statements[row.kind]
    BY <1>7, StatementLists
  <2>2. row.todo = {<<"queue", d>> : d \in stored}
    BY <1>1, <1>7, <2>1, OriginalsWanted
  <2>3. row.todo \subseteq Row /\ \A x \in row.todo : x[1] = "queue"
    <3>1. \A d \in stored : <<"queue", d>> \in Row /\ <<"queue", d>>[1] = "queue"
      BY RowKinds DEF RowsTyped
    <3>2. QED
      BY <2>2, <3>1
  <2>4. held = {SessionRow}
    BY <1>7 DEF First, FirstRows
  <2>5. Waiting(row, held)
    BY <1>1, <1>7, <2>1, <2>3, <2>4, RowKinds DEF Waiting, Awaits
  <2>6. QED
    BY <1>1, <1>7, <2>2, <2>3, <2>4, <2>5, RowKinds DEF Holding, Queueing
<1>8. CASE row.kind = "sweep"
  <2>1. Statements[row.kind][1] = "document" /\ 1 \in DOMAIN Statements[row.kind]
    BY <1>8, StatementLists
  <2>2. \A x \in row.todo : \E d \in stored : x = <<"document", d>> /\ <<"queue", d>> \in held
    BY <1>1, <1>8, <2>1, OriginalsWanted
  <2>3. row.todo \subseteq Row
    BY <2>2, RowKinds DEF RowsTyped
  <2>4. \A x \in held : x[1] = "queue"
    <3>1. \A x \in FirstRows("sweep") : \E d \in Doc : x = <<"queue", d>>
      BY DEF FirstRows
    <3>2. QED
      BY <1>8, <3>1 DEF First
  <2>5. Waiting(row, held)
    <3>1. Awaits(row, "document") /\ ~Awaits(row, "parent") /\ ~Awaits(row, "task") /\ ~Awaits(row, "claim")
      BY <1>1, <2>1 DEF Awaits
    <3>2. ASSUME NEW x \in row.todo
          PROVE  x[1] = "document" /\ x \notin held /\ <<"queue", x[2]>> \in held
      <4>1. PICK d \in stored : x = <<"document", d>> /\ <<"queue", d>> \in held
        BY <2>2
      <4>2. x[1] = "document" /\ x[2] = d
        BY <4>1
      <4>3. QED
        BY <2>4, <4>1, <4>2
    <3>3. QED
      BY <1>8, <3>1, <3>2 DEF Waiting
  <2>6. QED
    BY <1>1, <1>8, <2>3, <2>4, <2>5, RowKinds DEF Holding, Queueing
<1>9. QED
  BY <1>1, <1>4, <1>5, <1>6, <1>7, <1>8, StatementLists

LEMMA BeginKeeps ==
  ASSUME TransactionsInv, NEW p \in Process, Begin(p)
  PROVE  TransactionsInv'
<1>1. PICK kind \in Kind : \E rid \in Subjects[kind] :
        /\ alive /\ op[p] = Idle /\ Callable(kind, rid)
        /\ kind # "sweep" => SessionFree(kind)
        /\ lock' = [lock EXCEPT ![p] = FirstRows(kind)]
        /\ op' = [op EXCEPT ![p] =
             [kind |-> kind, rid |-> rid, base |-> Named(kind, rid), at |-> 1, saw |-> Nothing,
              todo |-> Wanted(FirstRows(kind), kind, rid, Statements[kind][1])]]
        /\ begun' = begun + 1 /\ UNCHANGED <<rows, aged>>
  BY DEF Begin, Kind
<1>2. PICK rid \in Subjects[kind] :
        /\ alive /\ op[p] = Idle /\ Callable(kind, rid)
        /\ kind # "sweep" => SessionFree(kind)
        /\ lock' = [lock EXCEPT ![p] = FirstRows(kind)]
        /\ op' = [op EXCEPT ![p] =
             [kind |-> kind, rid |-> rid, base |-> Named(kind, rid), at |-> 1, saw |-> Nothing,
              todo |-> Wanted(FirstRows(kind), kind, rid, Statements[kind][1])]]
        /\ begun' = begun + 1 /\ UNCHANGED <<rows, aged>>
  BY <1>1
<1>3. PICK row, held :
        /\ held = FirstRows(kind)
        /\ row = [kind |-> kind, rid |-> rid, base |-> Named(kind, rid), at |-> 1, saw |-> Nothing,
                  todo |-> Wanted(held, kind, rid, Statements[kind][1])]
  OBVIOUS
<1>4. row.kind = kind /\ row.rid = rid /\ op' = [op EXCEPT ![p] = row] /\ lock' = [lock EXCEPT ![p] = held]
  BY <1>2, <1>3
<1>5. First(row, held)
  BY <1>2, <1>3, <1>4 DEF First
<1>6. Sound(row, held)
  BY <1>2, <1>5, FirstSound DEF TransactionsInv, TypeOK
<1>7. Compatible(p, row, held)
  <2>1. CASE kind = "sweep"
    BY <1>3, <2>1 DEF FirstRows, Held, Compatible, SessionRow
  <2>2. CASE kind # "sweep"
    BY <1>2, <1>3, <1>4, <2>2 DEF FirstRows, SessionFree, Compatible
  <2>3. QED
    BY <2>1, <2>2
<1>8. begun' \in Nat /\ UNCHANGED <<rows, aged>>
  BY <1>2 DEF TransactionsInv, TypeOK
<1>9. QED
  BY <1>4, <1>6, <1>7, <1>8, OneMoves

(*-------------------------------- Commits -------------------------------*)

(* A commit changes rows and lets go of the locks: enough that the others  *)
(* find what they rely on.                                                 *)
Relied(row, held) == Unchanged(row) /\ Counted(row) /\ Coherent(row) /\ Queueing(row, held)

LEMMA CommitsKeep ==
  ASSUME TransactionsInv, NEW p \in Process, Leave(p), UNCHANGED begun, RowsTyped', RowsOK',
         \A q \in Process \ {p} : \A row, held :
           row = op[q] /\ held = lock[q] /\ Sound(row, held) => Relied(row, held)'
  PROVE  TransactionsInv'
<1>1. /\ op'[p] = Idle /\ lock'[p] = {}
      /\ \A q \in Process \ {p} : op'[q] = op[q] /\ lock'[q] = lock[q]
  BY DEF Leave, TransactionsInv, TypeOK
<1>2. TypeOK'
  BY DEF Leave, TypeOK, TransactionsInv
<1>3. ASSUME NEW q \in Process \ {p} PROVE TransactionOK(q)'
  <2>1. PICK row, held : row = op[q] /\ held = lock[q]
    OBVIOUS
  <2>2. op'[q] = row /\ lock'[q] = held
    BY <1>1, <2>1
  <2>3. CASE row = Idle /\ held = {}
    BY <2>2, <2>3 DEF TransactionOK
  <2>4. CASE Sound(row, held)
    <3>1. Relied(row, held)'
      BY <2>1, <2>4
    <3>2. Sound(row, held)'
      BY <2>4, <3>1 DEF Sound, Relied, Shape, Waiting, Holding
    <3>3. QED
      BY <2>2, <3>2 DEF TransactionOK
  <2>5. QED
    BY <2>1, <2>3, <2>4 DEF TransactionsInv, TransactionOK
<1>4. TransactionOK(p)'
  BY <1>1 DEF TransactionOK
<1>5. LocksOK'
  BY <1>1 DEF TransactionsInv, LocksOK
<1>6. QED
  BY <1>2, <1>3, <1>4, <1>5 DEF TransactionsInv

(* A transaction that commits has run all its statements.                  *)
LEMMA Committing ==
  ASSUME TransactionsInv, NEW p \in Process, NEW kind \in Kind, Ready(p, kind)
  PROVE  /\ Sound(op[p], lock[p]) /\ op[p].kind = kind /\ op[p].rid \in Subjects[kind] /\ op[p].base \in Nat
         /\ op[p].at > Len(Statements[kind])
<1>1. op[p].kind = kind /\ op[p].at > Len(Statements[kind]) /\ kind # "none"
  BY StatementLists DEF Ready
<1>2. op[p] # Idle
  BY <1>1 DEF Idle
<1>3. Sound(op[p], lock[p])
  BY <1>2 DEF TransactionsInv, TransactionOK
<1>4. QED
  BY <1>1, <1>3 DEF Sound, Shape, Transaction

(* What other transactions of the session can be under way meanwhile.      *)
LEMMA Others ==
  ASSUME TransactionsInv, NEW p \in Process, NEW q \in Process \ {p},
         Sound(op[p], lock[p]), Sound(op[q], lock[q]), op[p].kind # "sweep"
  PROVE  /\ op[q].kind \notin {"create_chat", "diagnose", "revoke"}
         /\ op[p].kind \in {"create_chat", "diagnose", "revoke"} => op[q].kind = "sweep"
         /\ lock[p] \cap lock[q] \subseteq {SessionRow}
<1>1. SessionRow \in lock[p] /\ (op[q].kind # "sweep" => SessionRow \in lock[q])
  BY DEF Sound, Shape, Holding
<1>2. QED
  BY <1>1 DEF TransactionsInv, LocksOK, Exclusive

(* No two hold the same row.                                               *)
LEMMA RowsApart ==
  ASSUME TransactionsInv, NEW p \in Process, NEW q \in Process \ {p}
  PROVE  /\ KeyRow \in lock[p] => KeyRow \notin lock[q]
         /\ \A x : <<"parent", x>> \in lock[p] => <<"parent", x>> \notin lock[q]
         /\ \A x : <<"task", x>> \in lock[p] => <<"task", x>> \notin lock[q]
  BY DEF TransactionsInv, LocksOK, KeyRow, SessionRow

LEMMA EditKeeps ==
  ASSUME TransactionsInv, NEW p \in Process, CommitEdit(p)
  PROVE  TransactionsInv'
<1>1. PICK profile \in Profile : /\ op[p].rid = profile /\ <<"parent", profile>> \in lock[p]
                                 /\ op[p].kind = "edit" /\ Sound(op[p], lock[p])
  <2>1. Ready(p, "edit") /\ "edit" \in Kind /\ Len(Statements["edit"]) = 1 /\ Subjects["edit"] = Profile
    BY StatementLists, SubjectsOf DEF CommitEdit, Commits
  <2>2. /\ Sound(op[p], lock[p]) /\ op[p].kind = "edit" /\ op[p].rid \in Profile
        /\ op[p].at > 1
    BY <2>1, Committing
  <2>3. <<"parent", op[p].rid>> \in lock[p]
    BY <2>2 DEF Sound, Shape, Holding
  <2>4. QED
    BY <2>2, <2>3
<1>2. /\ Leave(p) /\ UNCHANGED <<aged, begun>> /\ latest' = [latest EXCEPT ![profile] = @ + 1]
      /\ UNCHANGED <<alive, status, base, confirmed, turn, settled, stored, queue, key, created>>
  BY <1>1 DEF CommitEdit, Commits, WriteVersion
<1>3. /\ \A q \in Profile : latest[q] \in Nat /\ latest'[q] \in Nat /\ latest[q] <= latest'[q]
      /\ \A q \in Profile \ {profile} : latest'[q] = latest[q]
  BY <1>2 DEF TransactionsInv, TypeOK, RowsTyped
<1>4. RowsTyped'
  BY <1>2 DEF TransactionsInv, TypeOK, RowsTyped
<1>5. RowsOK'
  <2>1. \A c \in Chat : turn[c] \in Nat /\ About[c] \in Profile
    BY Parents DEF TransactionsInv, TypeOK, RowsTyped
  <2>2. \A c \in Chat : turn'[c] <= latest'[About[c]]
    BY <1>2, <1>3, <2>1 DEF TransactionsInv, RowsOK
  <2>3. LimitsHold' /\ OneProfilePerKey'
    BY <1>2 DEF TransactionsInv, RowsOK, LimitsHold, OneProfilePerKey, Messages, Conversations, Unfinished
  <2>4. QED
    BY <1>2, <2>2, <2>3 DEF TransactionsInv, RowsOK
<1>6. ASSUME NEW q \in Process \ {p}, NEW row, NEW held, row = op[q], held = lock[q], Sound(row, held)
      PROVE  Relied(row, held)'
  <2>1. row.kind \notin {"create_chat", "diagnose", "revoke"} /\ row.rid \in Subjects[row.kind]
    BY <1>1, <1>6, Others DEF Sound, Shape
  <2>2. <<"parent", profile>> \notin held
    BY <1>1, <1>6, RowsApart
  <2>3. Unchanged(row)'
    <3>1. row.kind \in {"edit", "confirm"} /\ row.at > 1 => row.rid \in Profile \ {profile}
      BY <1>6, <2>1, <2>2, SubjectsOf DEF Sound, Shape, Holding
    <3>2. row.kind = "commit_chat" /\ row.at > 2 => About[row.rid] \in Profile \ {profile}
      BY <1>6, <2>1, <2>2, SubjectsOf, Parents DEF Sound, Shape, Holding
    <3>3. QED
      BY <1>2, <1>3, <1>6, <3>1, <3>2 DEF Sound, Unchanged
  <2>4. Coherent(row)'
    <3>1. row.kind = "owned_profile" => row.rid \in Profile /\ row.saw.version \in Nat
      BY <1>6, <2>1, SubjectsOf DEF Sound, Transaction, Seen
    <3>2. row.kind = "owned_profile" /\ row.at > 1 => row.saw.version <= latest'[row.rid]
      BY <1>3, <1>6, <3>1 DEF Sound, Coherent
    <3>3. QED
      BY <1>2, <1>6, <3>2 DEF Sound, Coherent
  <2>5. Counted(row)' /\ Queueing(row, held)'
    BY <1>2, <1>6, <2>1 DEF Sound, Counted, Queueing
  <2>6. QED
    BY <2>3, <2>4, <2>5 DEF Relied
<1>7. QED
  BY <1>2, <1>4, <1>5, <1>6, CommitsKeep

LEMMA SweepRelies ==
  ASSUME NEW row, NEW held, row.kind = "sweep"
  PROVE  Relied(row, held)'
  BY DEF Relied, Unchanged, Counted, Coherent, Queueing

LEMMA ConfirmKeeps ==
  ASSUME TransactionsInv, NEW p \in Process, CommitConfirm(p)
  PROVE  TransactionsInv'
<1>1. op[p].rid \in Profile /\ op[p].base \in Nat
  <2>1. Ready(p, "confirm") /\ "confirm" \in Kind /\ Subjects["confirm"] = Profile
    BY StatementLists, SubjectsOf DEF CommitConfirm, Commits
  <2>2. QED
    BY <2>1, Committing
<1>2. /\ Leave(p) /\ UNCHANGED <<aged, begun>>
      /\ confirmed' = [confirmed EXCEPT ![op[p].rid] = @ \cup {op[p].base}]
      /\ UNCHANGED <<alive, status, base, latest, turn, settled, stored, queue, key, created>>
  BY DEF CommitConfirm, Commits
<1>3. RowsTyped'
  BY <1>1, <1>2 DEF TransactionsInv, TypeOK, RowsTyped
<1>4. RowsOK'
  BY <1>2 DEF TransactionsInv, RowsOK, LimitsHold, OneProfilePerKey, Messages, Conversations, Unfinished
<1>5. ASSUME NEW row, NEW held, Sound(row, held) PROVE Relied(row, held)'
  BY <1>2, <1>5 DEF Sound, Relied, Unchanged, Counted, Coherent, Queueing, Messages, Conversations, Unfinished
<1>6. QED
  BY <1>2, <1>3, <1>4, <1>5, CommitsKeep

LEMMA ProfileCreateKeeps ==
  ASSUME TransactionsInv, NEW p \in Process, CommitProfileCreate(p)
  PROVE  TransactionsInv'
<1>1. /\ op[p].kind = "create_profile" /\ Sound(op[p], lock[p]) /\ KeyRow \in lock[p]
      /\ key # "live" /\ alive
  <2>1. Ready(p, "create_profile") /\ "create_profile" \in Kind /\ Len(Statements["create_profile"]) = 2
    BY StatementLists DEF CommitProfileCreate, Commits
  <2>2. Sound(op[p], lock[p]) /\ op[p].kind = "create_profile" /\ op[p].at > 2
    BY <2>1, Committing
  <2>3. QED
    BY <2>2 DEF Sound, Shape, Holding, Unchanged
<1>2. /\ Leave(p) /\ UNCHANGED <<aged, begun>> /\ key' = "live" /\ created' = created + 1
      /\ UNCHANGED <<alive, status, base, latest, confirmed, turn, settled, stored, queue>>
  BY DEF CommitProfileCreate, Commits
<1>3. RowsTyped'
  BY <1>2 DEF TransactionsInv, TypeOK, RowsTyped
<1>4. RowsOK'
  <2>1. created' <= aged' + 1
    BY <1>1, <1>2 DEF TransactionsInv, TypeOK, RowsTyped, RowsOK
  <2>2. LimitsHold'
    BY <1>2 DEF TransactionsInv, RowsOK, LimitsHold, Messages, Conversations, Unfinished
  <2>3. QED
    BY <1>2, <2>1, <2>2 DEF TransactionsInv, RowsOK, OneProfilePerKey
<1>5. ASSUME NEW q \in Process \ {p}, NEW row, NEW held, row = op[q], held = lock[q], Sound(row, held)
      PROVE  Relied(row, held)'
  <2>1. KeyRow \notin held
    BY <1>1, <1>5, RowsApart
  <2>2. ~(row.kind = "create_profile" /\ row.at > 2)
    BY <1>5, <2>1 DEF Sound, Shape, Holding
  <2>3. Unchanged(row)'
    BY <1>2, <1>5, <2>2 DEF Sound, Unchanged
  <2>4. QED
    BY <1>2, <1>5, <2>3 DEF Sound, Relied, Counted, Coherent, Queueing, Messages, Conversations, Unfinished
<1>6. QED
  BY <1>2, <1>3, <1>4, <1>5, CommitsKeep

(* The tasks and the messages of a session are finitely many.              *)
LEMMA FiniteTasks ==
  /\ IsFiniteSet(Unfinished) /\ IsFiniteSet(Conversations) /\ IsFiniteSet(Messages)
  /\ Cardinality(Unfinished) \in Nat /\ Cardinality(Conversations) \in Nat /\ Cardinality(Messages) \in Nat
<1>1. Unfinished \subseteq Task /\ Conversations \subseteq Task /\ Messages \subseteq Task
  BY DEF Unfinished, Conversations, Messages, Task
<1>2. IsFiniteSet(Unfinished) /\ IsFiniteSet(Conversations) /\ IsFiniteSet(Messages)
  BY <1>1, FS_Subset, TransactionsAssumption
<1>3. QED
  BY <1>2, FS_CardinalityType

(* One more element at most.                                               *)
LEMMA OneMore ==
  ASSUME NEW S, NEW T, NEW x, IsFiniteSet(S), T \subseteq S \cup {x}
  PROVE  IsFiniteSet(T) /\ Cardinality(T) \in Nat /\ Cardinality(T) <= Cardinality(S) + 1
<1>1. IsFiniteSet(S \cup {x}) /\ Cardinality(S \cup {x}) <= Cardinality(S) + 1 /\ Cardinality(S) \in Nat
  <2>1. Cardinality(S) \in Nat
    BY FS_CardinalityType
  <2>2. IsFiniteSet(S \cup {x}) /\ Cardinality(S \cup {x}) = IF x \in S THEN Cardinality(S) ELSE Cardinality(S) + 1
    BY FS_AddElement
  <2>3. QED
    BY <2>1, <2>2
<1>2. IsFiniteSet(T) /\ Cardinality(T) <= Cardinality(S \cup {x})
  BY <1>1, FS_Subset
<1>3. Cardinality(T) \in Nat /\ Cardinality(S \cup {x}) \in Nat
  BY <1>1, <1>2, FS_CardinalityType
<1>4. QED
  BY <1>1, <1>2, <1>3

(* While a transaction that counts holds the session, none of the others   *)
(* changes what it counted.                                                *)
LEMMA TaskCreateKeeps ==
  ASSUME TransactionsInv, NEW p \in Process, CommitTaskCreate(p)
  PROVE  TransactionsInv'
<1>1. PICK kind \in {"create_chat", "diagnose"} : Commits(p, kind)
  BY DEF CommitTaskCreate
<1>2. PICK task \in Chat \cup Diagnosis : /\ op[p].rid = task /\ op[p].kind = kind /\ op[p].base \in Nat
                                          /\ Sound(op[p], lock[p])
                                          /\ kind = "create_chat" => task \in Chat
                                          /\ kind = "diagnose" => task \in Diagnosis
                                          /\ op[p].at > IF kind = "create_chat" THEN 4 ELSE 2
  <2>1. /\ Ready(p, kind) /\ kind \in Kind
        /\ Len(Statements[kind]) = IF kind = "create_chat" THEN 4 ELSE 2
        /\ Subjects[kind] = IF kind = "create_chat" THEN Chat ELSE Diagnosis
    <3>1. CASE kind = "create_chat"
      BY <1>1, <3>1, StatementLists, SubjectsOf DEF Commits
    <3>2. CASE kind = "diagnose"
      BY <1>1, <3>2, StatementLists, SubjectsOf DEF Commits
    <3>3. QED
      BY <3>1, <3>2
  <2>2. QED
    BY <2>1, Committing
<1>3. /\ Leave(p) /\ UNCHANGED <<aged, begun>> /\ status' = [status EXCEPT ![task] = "open"]
      /\ base' = [base EXCEPT ![task] = op[p].base]
      /\ UNCHANGED <<alive, latest, confirmed, turn, settled, stored, queue, key, created>>
  BY <1>1, <1>2 DEF CommitTaskCreate, Commits
<1>4. RowsTyped'
  BY <1>2, <1>3 DEF TransactionsInv, TypeOK, RowsTyped, Status
<1>5. /\ Cardinality(Unfinished) < MAX_ACTIVE
      /\ kind = "create_chat" => Cardinality(Messages) + Cardinality(Conversations) < MAX_ROUNDS
  <2>1. op[p].at \in Nat
    BY <1>2 DEF Sound, Transaction
  <2>2. CASE kind = "create_chat"
    <3>1. op[p].at > 3 /\ op[p].at > 4
      BY <1>2, <2>1, <2>2
    <3>2. QED
      BY <1>2, <2>2, <3>1 DEF Sound, Counted
  <2>3. CASE kind = "diagnose"
    BY <1>2, <2>3 DEF Sound, Counted
  <2>4. QED
    BY <2>2, <2>3
<1>6. /\ status'[task] = "open" /\ \A t \in Task \ {task} : status'[t] = status[t]
      /\ status \in [Task -> Status]
  BY <1>2, <1>3 DEF TransactionsInv, TypeOK, RowsTyped, Task
<1>7. LimitsHold'
  <2>1. Unfinished' \subseteq Unfinished \cup {task} /\ Messages' = Messages
    BY <1>3, <1>6 DEF Unfinished, Messages
  <2>2. /\ kind = "create_chat" => Conversations' \subseteq Conversations \cup {task}
        /\ kind = "diagnose" => Conversations' = Conversations
    BY <1>2, <1>6, <2>1, TransactionsAssumption DEF Conversations, Unfinished, Task
  <2>3. Cardinality(Unfinished') <= MAX_ACTIVE
    <3>1. Cardinality(Unfinished') \in Nat /\ Cardinality(Unfinished') <= Cardinality(Unfinished) + 1
      BY <2>1, FiniteTasks, OneMore
    <3>2. QED
      BY <1>5, <3>1, FiniteTasks, TransactionsAssumption
  <2>4. Cardinality(Messages') + Cardinality(Conversations') <= MAX_ROUNDS
    <3>1. CASE kind = "create_chat"
      <4>1. Cardinality(Conversations') \in Nat /\ Cardinality(Conversations') <= Cardinality(Conversations) + 1
        BY <2>2, <3>1, FiniteTasks, OneMore
      <4>2. QED
        BY <1>5, <2>1, <3>1, <4>1, FiniteTasks, TransactionsAssumption
    <3>2. CASE kind = "diagnose"
      BY <2>1, <2>2, <3>2 DEF TransactionsInv, RowsOK, LimitsHold
    <3>3. QED
      BY <3>1, <3>2
  <2>5. QED
    BY <2>3, <2>4 DEF LimitsHold
<1>8. RowsOK'
  <2>1. \A g \in Diagnosis : status'[g] # "failed" /\ (status'[g] = "succeeded" => settled[g] = Job)
    BY <1>6 DEF TransactionsInv, RowsOK, Task
  <2>2. QED
    BY <1>3, <1>7, <2>1 DEF TransactionsInv, RowsOK, OneProfilePerKey
<1>9. ASSUME NEW q \in Process \ {p}, NEW row, NEW held, row = op[q], held = lock[q], Sound(row, held)
      PROVE  Relied(row, held)'
  <2>1. row.kind = "sweep"
    BY <1>2, <1>9, Others
  <2>2. QED
    BY <2>1, SweepRelies
<1>10. QED
  BY <1>3, <1>4, <1>8, <1>9, CommitsKeep

(* A conversation that ends turns one unfinished task into one message.    *)
LEMMA ChatKeeps ==
  ASSUME TransactionsInv, NEW p \in Process, CommitChat(p)
  PROVE  TransactionsInv'
<1>1. PICK c \in Chat :
        /\ op[p].rid = c /\ op[p].kind = "commit_chat" /\ Sound(op[p], lock[p])
        /\ <<"task", c>> \in lock[p] /\ <<"parent", About[c]>> \in lock[p]
        /\ status[c] = "open" /\ latest[About[c]] = op[p].base /\ op[p].base \in Nat
  <2>1. Ready(p, "commit_chat") /\ "commit_chat" \in Kind /\ Len(Statements["commit_chat"]) = 2
        /\ Subjects["commit_chat"] = Chat
    BY StatementLists, SubjectsOf DEF CommitChat, Commits
  <2>2. /\ Sound(op[p], lock[p]) /\ op[p].kind = "commit_chat" /\ op[p].rid \in Chat /\ op[p].base \in Nat
        /\ op[p].at > 2 /\ op[p].at \in Nat
    BY <2>1, Committing DEF Sound, Transaction
  <2>3. op[p].at > 1
    BY <2>2
  <2>4. /\ <<"task", op[p].rid>> \in lock[p] /\ <<"parent", About[op[p].rid]>> \in lock[p]
        /\ status[op[p].rid] = "open" /\ latest[About[op[p].rid]] = op[p].base
    BY <2>2, <2>3 DEF Sound, Shape, Holding, Unchanged
  <2>5. QED
    BY <2>2, <2>4
<1>2. PICK profile \in Profile : profile = About[c]
  BY Parents
<1>3. /\ Leave(p) /\ UNCHANGED <<aged, begun>>
      /\ latest' = [latest EXCEPT ![profile] = @ + 1]
      /\ turn' = [turn EXCEPT ![c] = op[p].base + 1] /\ status' = [status EXCEPT ![c] = "succeeded"]
      /\ UNCHANGED <<alive, base, confirmed, settled, stored, queue, key, created>>
  BY <1>1, <1>2 DEF CommitChat, Commits, WriteVersion
<1>4. /\ \A q \in Profile : latest[q] \in Nat /\ latest'[q] \in Nat /\ latest[q] <= latest'[q]
      /\ \A q \in Profile \ {profile} : latest'[q] = latest[q]
      /\ latest'[profile] = latest[profile] + 1
      /\ turn'[c] = latest[profile] + 1 /\ \A d \in Chat \ {c} : turn'[d] = turn[d]
      /\ \A d \in Chat : turn[d] \in Nat
      /\ status'[c] = "succeeded" /\ \A t \in Task \ {c} : status'[t] = status[t]
  BY <1>1, <1>2, <1>3 DEF TransactionsInv, TypeOK, RowsTyped, Task
<1>5. RowsTyped'
  <2>1. op[p].base + 1 \in Nat /\ RowsTyped
    BY <1>1 DEF TransactionsInv, TypeOK
  <2>2. status' \in [Task -> Status]
    BY <1>3, <2>1 DEF RowsTyped, Status
  <2>3. latest' \in [Profile -> Nat]
    BY <1>3, <2>1 DEF RowsTyped
  <2>4. turn' \in [Chat -> Nat]
    BY <1>3, <2>1 DEF RowsTyped
  <2>5. QED
    BY <1>3, <2>1, <2>2, <2>3, <2>4 DEF RowsTyped
<1>6. c \in Task /\ c \notin Diagnosis /\ c \notin Doc
  BY TransactionsAssumption DEF Task
<1>7. RowsOK'
  <2>1. \A d \in Chat : turn'[d] <= latest'[About[d]]
    BY <1>2, <1>4, Parents DEF TransactionsInv, RowsOK
  <2>2. LimitsHold'
    <3>1. Unfinished' \subseteq Unfinished
      BY <1>4 DEF Unfinished
    <3>2. Cardinality(Unfinished') <= MAX_ACTIVE
      <4>1. Cardinality(Unfinished') <= Cardinality(Unfinished) /\ Cardinality(Unfinished') \in Nat
        BY <3>1, FiniteTasks, FS_Subset, FS_CardinalityType
      <4>2. QED
        BY <4>1, FiniteTasks, TransactionsAssumption DEF TransactionsInv, RowsOK, LimitsHold
    <3>3. c \in Conversations /\ Conversations' = Conversations \ {c}
      BY <1>1, <1>4, <1>6 DEF Conversations, Unfinished, Task
    <3>4. Messages' \subseteq Messages \cup {c}
      BY <1>4 DEF Messages
    <3>5. /\ Cardinality(Conversations') = Cardinality(Conversations) - 1
          /\ Cardinality(Messages') \in Nat /\ Cardinality(Messages') <= Cardinality(Messages) + 1
      <4>1. Cardinality(Conversations') = Cardinality(Conversations) - 1
        BY <3>3, FiniteTasks, FS_RemoveElement
      <4>2. QED
        BY <3>4, <4>1, FiniteTasks, OneMore
    <3>6. Cardinality(Messages') + Cardinality(Conversations') <= MAX_ROUNDS
      BY <3>5, FiniteTasks, TransactionsAssumption DEF TransactionsInv, RowsOK, LimitsHold
    <3>7. QED
      BY <3>2, <3>6 DEF LimitsHold
  <2>3. \A g \in Diagnosis : status'[g] = status[g]
    BY <1>4, <1>6 DEF Task
  <2>4. QED
    BY <1>3, <2>1, <2>2, <2>3 DEF TransactionsInv, RowsOK, OneProfilePerKey
<1>8. ASSUME NEW q \in Process \ {p}, NEW row, NEW held, row = op[q], held = lock[q], Sound(row, held)
      PROVE  Relied(row, held)'
  <2>1. row.kind \notin {"create_chat", "diagnose", "revoke"} /\ row.rid \in Subjects[row.kind]
    BY <1>1, <1>8, Others DEF Sound, Shape
  <2>2. <<"parent", profile>> \notin held /\ <<"task", c>> \notin held
    BY <1>1, <1>2, <1>8, RowsApart
  <2>3. Unchanged(row)'
    <3>1. row.kind \in {"edit", "confirm"} /\ row.at > 1 => row.rid \in Profile \ {profile}
      BY <1>8, <2>1, <2>2, SubjectsOf DEF Sound, Shape, Holding
    <3>2. row.kind = "commit_chat" /\ row.at > 2 => About[row.rid] \in Profile \ {profile}
      BY <1>8, <2>1, <2>2, SubjectsOf, Parents DEF Sound, Shape, Holding
    <3>3. row.kind = "commit_chat" /\ row.at > 1 => row.rid \in Task \ {c}
      BY <1>8, <2>1, <2>2, SubjectsOf DEF Sound, Shape, Holding, Task
    <3>4. QED
      BY <1>3, <1>4, <1>8, <3>1, <3>2, <3>3 DEF Sound, Unchanged
  <2>4. Coherent(row)'
    <3>1. CASE row.kind = "owned_profile"
      <4>1. row.rid \in Profile /\ row.saw.version \in Nat
        BY <1>8, <2>1, <3>1, SubjectsOf DEF Sound, Transaction, Seen
      <4>2. row.at > 1 => row.saw.version <= latest[row.rid]
        BY <1>8, <3>1 DEF Sound, Coherent
      <4>3. row.at > 1 => row.saw.version <= latest'[row.rid]
        BY <1>4, <4>1, <4>2
      <4>4. ASSUME row.at > 2, NEW d \in Chat, About[d] = row.rid, turn'[d] \in 1..row.saw.version
            PROVE  d \in row.saw.messages
        <5>1. row.at > 1
          BY <1>8, <4>4 DEF Sound, Transaction
        <5>2. d # c
          BY <1>2, <1>4, <4>1, <4>2, <4>4, <5>1
        <5>3. QED
          BY <1>4, <1>8, <3>1, <4>4, <5>2 DEF Sound, Coherent
      <4>5. QED
        BY <3>1, <4>3, <4>4 DEF Coherent
    <3>2. CASE row.kind = "owned_diagnosis"
      <4>1. status'[row.rid] = status[row.rid]
        BY <1>4, <1>6, <2>1, <3>2, SubjectsOf DEF Task
      <4>2. QED
        BY <1>3, <1>8, <3>2, <4>1 DEF Sound, Coherent
    <3>3. QED
      BY <3>1, <3>2 DEF Coherent
  <2>5. Counted(row)' /\ Queueing(row, held)'
    BY <1>3, <1>8, <2>1 DEF Sound, Counted, Queueing
  <2>6. QED
    BY <2>3, <2>4, <2>5 DEF Relied
<1>9. QED
  BY <1>3, <1>5, <1>7, <1>8, CommitsKeep

(* Once all items of a diagnosis are settled they stay so.                 *)
LEMMA ItemKeeps ==
  ASSUME TransactionsInv, NEW p \in Process, CommitItem(p)
  PROVE  TransactionsInv'
<1>1. op[p].kind = "finish_item" /\ Sound(op[p], lock[p]) /\ op[p].rid \in Diagnosis
  <2>1. Ready(p, "finish_item") /\ "finish_item" \in Kind /\ Subjects["finish_item"] = Diagnosis
    BY StatementLists, SubjectsOf DEF CommitItem, Commits
  <2>2. QED
    BY <2>1, Committing
<1>2. PICK j \in Job :
        /\ Leave(p) /\ UNCHANGED <<aged, begun>> /\ settled' = [settled EXCEPT ![op[p].rid] = @ \cup {j}]
        /\ UNCHANGED <<alive, status, base, latest, confirmed, turn, stored, queue, key, created>>
  BY DEF CommitItem, Commits
<1>3. RowsTyped' /\ \A g \in Diagnosis : settled[g] = Job => settled'[g] = Job
  BY <1>1, <1>2 DEF TransactionsInv, TypeOK, RowsTyped
<1>4. RowsOK'
  BY <1>2, <1>3 DEF TransactionsInv, RowsOK, LimitsHold, OneProfilePerKey, Messages, Conversations, Unfinished
<1>5. ASSUME NEW q \in Process \ {p}, NEW row, NEW held, row = op[q], held = lock[q], Sound(row, held)
      PROVE  Relied(row, held)'
  <2>1. row.kind \in {"finish", "owned_diagnosis"} => row.rid \in Diagnosis
    BY <1>5, SubjectsOf DEF Sound, Shape
  <2>2. Unchanged(row)' /\ Coherent(row)'
    BY <1>2, <1>3, <1>5, <2>1 DEF Sound, Unchanged, Coherent
  <2>3. QED
    BY <1>2, <1>5, <2>2 DEF Sound, Relied, Counted, Queueing, Messages, Conversations, Unfinished
<1>6. QED
  BY <1>2, <1>3, <1>4, <1>5, CommitsKeep

(* A task that ends takes up less of what a session may hold.              *)
LEMMA EndingFits ==
  ASSUME TransactionsInv, NEW task \in Task, NEW end \in Status \ {"open"},
         status' = [status EXCEPT ![task] = end], UNCHANGED turn
  PROVE  /\ LimitsHold'
         /\ status'[task] = end /\ \A t \in Task \ {task} : status'[t] = status[t]
         /\ status' \in [Task -> Status]
<1>1. status \in [Task -> Status]
  BY DEF TransactionsInv, TypeOK, RowsTyped
<1>2. /\ status'[task] = end /\ \A t \in Task \ {task} : status'[t] = status[t]
      /\ status' \in [Task -> Status]
  BY <1>1
<1>3. Unfinished' \subseteq Unfinished /\ Messages' = Messages
  BY <1>2 DEF Unfinished, Messages
<1>4. Conversations' \subseteq Conversations
  BY <1>3 DEF Conversations
<1>5. /\ Cardinality(Unfinished') \in Nat /\ Cardinality(Unfinished') <= Cardinality(Unfinished)
      /\ Cardinality(Conversations') \in Nat /\ Cardinality(Conversations') <= Cardinality(Conversations)
  BY <1>3, <1>4, FiniteTasks, FS_Subset, FS_CardinalityType
<1>6. LimitsHold'
  BY <1>3, <1>5, FiniteTasks, TransactionsAssumption DEF TransactionsInv, RowsOK, LimitsHold
<1>7. QED
  BY <1>2, <1>6

LEMMA FinishKeeps ==
  ASSUME TransactionsInv, NEW p \in Process, CommitFinish(p)
  PROVE  TransactionsInv'
<1>1. PICK g \in Diagnosis : op[p].rid = g /\ op[p].kind = "finish" /\ Sound(op[p], lock[p]) /\ settled[g] = Job
  <2>1. Ready(p, "finish") /\ "finish" \in Kind /\ Len(Statements["finish"]) = 2
        /\ Subjects["finish"] = Diagnosis
    BY StatementLists, SubjectsOf DEF CommitFinish, Commits
  <2>2. Sound(op[p], lock[p]) /\ op[p].kind = "finish" /\ op[p].rid \in Diagnosis /\ op[p].at > 2
    BY <2>1, Committing
  <2>3. QED
    BY <2>2 DEF Sound, Unchanged
<1>2. /\ Leave(p) /\ UNCHANGED <<aged, begun>> /\ status' = [status EXCEPT ![g] = "succeeded"]
      /\ UNCHANGED <<alive, base, latest, confirmed, turn, settled, stored, queue, key, created>>
  BY <1>1 DEF CommitFinish, Commits
<1>3. g \in Task /\ g \notin Chat
  BY TransactionsAssumption DEF Task
<1>4. /\ LimitsHold' /\ status' \in [Task -> Status]
      /\ status'[g] = "succeeded" /\ \A t \in Task \ {g} : status'[t] = status[t]
  <2>1. "succeeded" \in Status \ {"open"}
    BY DEF Status
  <2>2. QED
    BY <1>2, <1>3, <2>1, EndingFits
<1>5. RowsTyped'
  BY <1>2, <1>4 DEF TransactionsInv, TypeOK, RowsTyped
<1>6. RowsOK'
  <2>1. \A h \in Diagnosis : status'[h] # "failed" /\ (status'[h] = "succeeded" => settled[h] = Job)
    BY <1>1, <1>4 DEF TransactionsInv, RowsOK, Task
  <2>2. QED
    BY <1>2, <1>4, <2>1 DEF TransactionsInv, RowsOK, OneProfilePerKey
<1>7. ASSUME NEW q \in Process \ {p}, NEW row, NEW held, row = op[q], held = lock[q], Sound(row, held)
      PROVE  Relied(row, held)'
  <2>1. row.kind \notin {"create_chat", "diagnose", "revoke"} /\ row.rid \in Subjects[row.kind]
    BY <1>1, <1>7, Others DEF Sound, Shape
  <2>2. Unchanged(row)'
    <3>1. row.kind = "commit_chat" => row.rid \in Task \ {g}
      BY <1>3, <2>1, SubjectsOf DEF Task
    <3>2. QED
      BY <1>2, <1>4, <1>7, <3>1 DEF Sound, Unchanged
  <2>3. Coherent(row)'
    <3>1. row.kind = "owned_diagnosis" => status'[row.rid] # "none"
      BY <1>4, <1>7, <2>1, SubjectsOf DEF Sound, Coherent, Task
    <3>2. QED
      BY <1>2, <1>7, <3>1 DEF Sound, Coherent
  <2>4. Counted(row)' /\ Queueing(row, held)'
    BY <1>2, <1>7, <2>1 DEF Sound, Counted, Queueing
  <2>5. QED
    BY <2>2, <2>3, <2>4 DEF Relied
<1>8. QED
  BY <1>2, <1>5, <1>6, <1>7, CommitsKeep

LEMMA EndKeeps ==
  ASSUME TransactionsInv, NEW p \in Process, CommitEnd(p)
  PROVE  TransactionsInv'
<1>1. PICK task \in Chat \cup Doc : /\ op[p].rid = task /\ op[p].kind = "fail" /\ Sound(op[p], lock[p])
                                    /\ <<"task", task>> \in lock[p]
  <2>1. Ready(p, "fail") /\ "fail" \in Kind /\ Len(Statements["fail"]) = 3 /\ Subjects["fail"] = Chat \cup Doc
    BY StatementLists, SubjectsOf DEF CommitEnd, Commits
  <2>2. /\ Sound(op[p], lock[p]) /\ op[p].kind = "fail" /\ op[p].rid \in Chat \cup Doc
        /\ op[p].at > 3 /\ op[p].at \in Nat
    BY <2>1, Committing DEF Sound, Transaction
  <2>3. op[p].at > 1
    BY <2>2
  <2>4. QED
    BY <2>2, <2>3 DEF Sound, Shape, Holding
<1>2. /\ Leave(p) /\ UNCHANGED <<aged, begun>> /\ status' = [status EXCEPT ![task] = "failed"]
      /\ queue' = IF <<"queue", task>> \in lock[p] THEN [queue EXCEPT ![task] = "due"] ELSE queue
      /\ UNCHANGED <<alive, base, latest, confirmed, turn, settled, stored, key, created>>
  BY <1>1 DEF CommitEnd, Commits
<1>3. task \in Task /\ task \notin Diagnosis
  BY TransactionsAssumption DEF Task
<1>4. /\ LimitsHold' /\ status' \in [Task -> Status]
      /\ status'[task] = "failed" /\ \A t \in Task \ {task} : status'[t] = status[t]
  <2>1. "failed" \in Status \ {"open"}
    BY DEF Status
  <2>2. QED
    BY <1>2, <1>3, <2>1, EndingFits
<1>5. RowsTyped'
  <2>1. queue' \in [Doc -> {"none", "later", "due"}]
    BY <1>2 DEF TransactionsInv, TypeOK, RowsTyped
  <2>2. QED
    BY <1>2, <1>4, <2>1 DEF TransactionsInv, TypeOK, RowsTyped
<1>6. \A g \in Diagnosis : status'[g] = status[g]
  BY <1>3, <1>4 DEF Task
<1>7. RowsOK'
  BY <1>2, <1>4, <1>6 DEF TransactionsInv, RowsOK, OneProfilePerKey
<1>8. ASSUME NEW q \in Process \ {p}, NEW row, NEW held, row = op[q], held = lock[q], Sound(row, held)
      PROVE  Relied(row, held)'
  <2>1. row.kind \notin {"create_chat", "diagnose", "revoke"} /\ row.rid \in Subjects[row.kind]
    BY <1>1, <1>8, Others DEF Sound, Shape
  <2>2. <<"task", task>> \notin held
    BY <1>1, <1>8, RowsApart
  <2>3. Unchanged(row)'
    <3>1. row.kind = "commit_chat" /\ row.at > 1 => row.rid \in Task \ {task}
      BY <1>8, <2>1, <2>2, SubjectsOf DEF Sound, Shape, Holding, Task
    <3>2. QED
      BY <1>2, <1>4, <1>8, <3>1 DEF Sound, Unchanged
  <2>4. Coherent(row)'
    <3>1. row.kind = "owned_diagnosis" => status'[row.rid] = status[row.rid]
      BY <1>6, <2>1, SubjectsOf
    <3>2. QED
      BY <1>2, <1>8, <3>1 DEF Sound, Coherent
  <2>5. Counted(row)' /\ Queueing(row, held)'
    BY <1>2, <1>8, <2>1 DEF Sound, Counted, Queueing
  <2>6. QED
    BY <2>3, <2>4, <2>5 DEF Relied
<1>9. QED
  BY <1>2, <1>5, <1>7, <1>8, CommitsKeep

LEMMA SweepKeeps ==
  ASSUME TransactionsInv, NEW p \in Process, CommitSweep(p)
  PROVE  TransactionsInv'
<1>1. /\ Leave(p) /\ UNCHANGED <<aged, begun>> /\ stored' \subseteq stored
      /\ queue' = [d \in Doc |-> IF d \in {e \in Doc : <<"queue", e>> \in lock[p]} THEN "none" ELSE queue[d]]
      /\ UNCHANGED <<alive, status, base, latest, confirmed, turn, settled, key, created>>
  BY DEF CommitSweep, Commits
<1>2. RowsTyped'
  BY <1>1 DEF TransactionsInv, TypeOK, RowsTyped
<1>3. RowsOK'
  BY <1>1 DEF TransactionsInv, RowsOK, LimitsHold, OneProfilePerKey, Messages, Conversations, Unfinished
<1>4. ASSUME NEW row, NEW held, Sound(row, held) PROVE Relied(row, held)'
  <2>1. Unchanged(row)' /\ Counted(row)' /\ Coherent(row)'
    BY <1>1, <1>4 DEF Sound, Unchanged, Counted, Coherent, Messages, Conversations, Unfinished
  <2>2. Queueing(row, held)'
    BY <1>1, <1>4 DEF Sound, Queueing
  <2>3. QED
    BY <2>1, <2>2 DEF Relied
<1>5. QED
  BY <1>1, <1>2, <1>3, <1>4, CommitsKeep

(* Nobody but a sweep is under way when a session is deleted.              *)
LEMMA RevokeKeeps ==
  ASSUME TransactionsInv, NEW p \in Process, CommitRevoke(p)
  PROVE  TransactionsInv'
<1>1. op[p].kind = "revoke" /\ Sound(op[p], lock[p])
  <2>1. Ready(p, "revoke") /\ "revoke" \in Kind
    BY StatementLists DEF CommitRevoke, Commits
  <2>2. QED
    BY <2>1, Committing
<1>2. /\ Leave(p) /\ UNCHANGED <<aged, begun>> /\ alive' = FALSE /\ stored' = {} /\ key' = "none"
      /\ queue' = [d \in Doc |-> IF <<"queue", d>> \in lock[p] THEN "due" ELSE queue[d]]
      /\ status' = [t \in Task |-> "none"] /\ turn' = [c \in Chat |-> 0]
      /\ settled' = [g \in Diagnosis |-> {}] /\ confirmed' = [q \in Profile |-> {}]
      /\ UNCHANGED <<base, latest, created>>
  BY DEF CommitRevoke, Commits
<1>3. RowsTyped'
  <2>1. RowsTyped
    BY DEF TransactionsInv, TypeOK
  <2>2. status' \in [Task -> Status] /\ turn' \in [Chat -> Nat]
    BY <1>2 DEF Status
  <2>3. settled' \in [Diagnosis -> SUBSET Job] /\ confirmed' \in [Profile -> SUBSET Nat]
    BY <1>2
  <2>4. queue' \in [Doc -> {"none", "later", "due"}]
    BY <1>2, <2>1 DEF RowsTyped
  <2>5. QED
    BY <1>2, <2>1, <2>2, <2>3, <2>4 DEF RowsTyped
<1>4. RowsOK'
  <2>1. \A c \in Chat : turn'[c] <= latest'[About[c]]
    BY <1>2, Parents DEF TransactionsInv, TypeOK, RowsTyped
  <2>2. \A g \in Diagnosis : status'[g] = "none"
    BY <1>2 DEF Task
  <2>3. Unfinished' = {} /\ Messages' = {}
    BY <1>2 DEF Unfinished, Messages
  <2>4. Conversations' = {}
    BY <2>3 DEF Conversations
  <2>5. LimitsHold'
    BY <2>3, <2>4, FS_EmptySet, TransactionsAssumption DEF LimitsHold
  <2>6. OneProfilePerKey'
    BY <1>2 DEF TransactionsInv, RowsOK, OneProfilePerKey
  <2>7. QED
    BY <1>2, <2>1, <2>2, <2>5, <2>6 DEF RowsOK
<1>5. ASSUME NEW q \in Process \ {p}, NEW row, NEW held, row = op[q], held = lock[q], Sound(row, held)
      PROVE  Relied(row, held)'
  <2>1. row.kind = "sweep"
    BY <1>1, <1>5, Others
  <2>2. QED
    BY <2>1, SweepRelies
<1>6. QED
  BY <1>2, <1>3, <1>4, <1>5, CommitsKeep

(*--------------------------- The day of a key ---------------------------*)

(* The key of a request grows old, or is deleted: what a transaction that  *)
(* claims it found, that it is not live, stays so.                         *)
LEMMA KeyChangeKeeps ==
  ASSUME TransactionsInv, RowsTyped', RowsOK', key' # "live",
         UNCHANGED <<alive, status, base, latest, confirmed, turn, settled, stored, queue, created, op, lock, begun>>
  PROVE  TransactionsInv'
<1>1. TypeOK' /\ LocksOK'
  BY DEF TransactionsInv, TypeOK, LocksOK
<1>2. ASSUME NEW p \in Process PROVE TransactionOK(p)'
  <2>1. PICK row, held : row = op[p] /\ held = lock[p]
    OBVIOUS
  <2>2. CASE row = Idle /\ held = {}
    BY <2>1, <2>2 DEF TransactionOK
  <2>3. CASE Sound(row, held)
    <3>1. Unchanged(row)' /\ Counted(row)' /\ Coherent(row)' /\ Queueing(row, held)'
      BY <2>3 DEF Sound, Unchanged, Counted, Coherent, Queueing, Messages, Conversations, Unfinished
    <3>2. Sound(row, held)'
      BY <2>3, <3>1 DEF Sound, Shape, Waiting, Holding
    <3>3. QED
      BY <2>1, <3>2 DEF TransactionOK
  <2>4. QED
    BY <2>1, <2>2, <2>3 DEF TransactionsInv, TransactionOK
<1>3. QED
  BY <1>1, <1>2 DEF TransactionsInv

LEMMA KeyAgesKeeps ==
  ASSUME TransactionsInv, KeyAges \/ DeleteOldKey
  PROVE  TransactionsInv'
<1>1. /\ UNCHANGED <<alive, status, base, latest, confirmed, turn, settled, stored, queue, created, op, lock, begun>>
      /\ \/ key = "live" /\ key' = "old" /\ aged' = aged + 1
         \/ key = "old" /\ key' = "none" /\ aged' = aged
  BY DEF KeyAges, DeleteOldKey
<1>2. RowsTyped'
  BY <1>1 DEF TransactionsInv, TypeOK, RowsTyped
<1>3. RowsOK'
  <2>1. created \in Nat /\ aged \in Nat
    BY DEF TransactionsInv, TypeOK, RowsTyped
  <2>2. OneProfilePerKey' /\ (alive' /\ key' # "live" => created' <= aged')
    BY <1>1, <2>1 DEF TransactionsInv, RowsOK, OneProfilePerKey
  <2>3. LimitsHold'
    BY <1>1 DEF TransactionsInv, RowsOK, LimitsHold, Messages, Conversations, Unfinished
  <2>4. QED
    BY <1>1, <2>2, <2>3 DEF TransactionsInv, RowsOK
<1>4. key' # "live"
  BY <1>1
<1>5. QED
  BY <1>1, <1>2, <1>3, <1>4, KeyChangeKeeps

(*------------------------ The invariant is inductive --------------------*)

LEMMA InitTransactions == Init => TransactionsInv
<1> SUFFICES ASSUME Init PROVE TransactionsInv
  OBVIOUS
<1>1. PICK running \in SUBSET (Doc \cup Diagnosis) : \E due \in SUBSET Doc :
        /\ Cardinality(running) <= MAX_ACTIVE
        /\ status = [t \in Task |-> IF t \in running THEN "open"
                                    ELSE IF t \in Doc THEN "succeeded" ELSE "none"]
        /\ queue = [d \in Doc |-> IF d \in due THEN "due" ELSE "later"]
        /\ base = [t \in Chat \cup Diagnosis |-> IF t \in running THEN 1 ELSE 0]
        /\ confirmed = [q \in Profile |-> IF Diagnosis \cap running = {} THEN {} ELSE {1}]
  BY DEF Init
<1>2. /\ alive = TRUE /\ latest = [q \in Profile |-> 1] /\ turn = [c \in Chat |-> 0]
      /\ settled = [g \in Diagnosis |-> {}] /\ stored = Doc
      /\ key = "none" /\ created = 0 /\ aged = 0 /\ begun = 0
      /\ op = [p \in Process |-> Idle] /\ lock = [p \in Process |-> {}]
  BY DEF Init
<1>3. TypeOK
  <2>1. status \in [Task -> Status]
    BY <1>1 DEF Status
  <2>2. base \in [Chat \cup Diagnosis -> Nat] /\ confirmed \in [Profile -> SUBSET Nat]
    BY <1>1
  <2>3. queue \in [Doc -> {"none", "later", "due"}]
    BY <1>1
  <2>4. /\ latest \in [Profile -> Nat] /\ turn \in [Chat -> Nat] /\ settled \in [Diagnosis -> SUBSET Job]
        /\ op \in [Process -> Transaction \cup {Idle}] /\ lock \in [Process -> SUBSET Row]
    BY <1>2
  <2>5. QED
    BY <1>2, <2>1, <2>2, <2>3, <2>4 DEF TypeOK, RowsTyped
<1>4. \A p \in Process : TransactionOK(p)
  BY <1>2 DEF TransactionOK
<1>5. LocksOK
  BY <1>2 DEF LocksOK
<1>6. LimitsHold
  <2>1. Messages = {}
    BY <1>2 DEF Messages
  <2>2. Unfinished = running
    BY <1>1 DEF Unfinished, Task
  <2>3. Conversations = {}
    BY <2>2, TransactionsAssumption DEF Conversations
  <2>4. QED
    BY <1>1, <2>1, <2>2, <2>3, FS_EmptySet, TransactionsAssumption DEF LimitsHold
<1>7. \A g \in Diagnosis : status[g] # "failed" /\ status[g] # "succeeded"
  BY <1>1, TransactionsAssumption DEF Task
<1>8. RowsOK
  BY <1>2, <1>6, <1>7, Parents DEF RowsOK, OneProfilePerKey
<1>9. QED
  BY <1>3, <1>4, <1>5, <1>8 DEF TransactionsInv

LEMMA NextTransactions ==
  ASSUME TransactionsInv, [Next]_vars
  PROVE  TransactionsInv'
<1>1. CASE \E p \in Process : Begin(p)
  BY <1>1, BeginKeeps
<1>2. CASE \E p \in Process : LockRow(p)
  BY <1>2, LockRowKeeps
<1>3. CASE \E p \in Process : Execute(p)
  BY <1>3, ExecuteKeeps
<1>4. CASE \E p \in Process : Rollback(p)
  BY <1>4, LeaveKeeps DEF Rollback
<1>5. ASSUME NEW p \in Process, Commit(p) PROVE TransactionsInv'
  <2>1. CASE CommitEdit(p) \/ CommitConfirm(p) \/ CommitProfileCreate(p) \/ CommitTaskCreate(p)
    BY <2>1, EditKeeps, ConfirmKeeps, ProfileCreateKeeps, TaskCreateKeeps
  <2>2. CASE CommitChat(p) \/ CommitItem(p) \/ CommitFinish(p) \/ CommitEnd(p)
    BY <2>2, ChatKeeps, ItemKeeps, FinishKeeps, EndKeeps
  <2>3. CASE CommitSweep(p) \/ CommitRevoke(p)
    BY <2>3, SweepKeeps, RevokeKeeps
  <2>4. CASE EndRead(p)
    <3>1. Leave(p) /\ UNCHANGED <<rows, aged, begun>>
      BY <2>4 DEF EndRead, Commits
    <3>2. QED
      BY <3>1, LeaveKeeps
  <2>5. QED
    BY <1>5, <2>1, <2>2, <2>3, <2>4 DEF Commit
<1>6. CASE KeyAges \/ DeleteOldKey
  BY <1>6, KeyAgesKeeps
<1>7. CASE UNCHANGED vars
  <2>1. UNCHANGED <<rows, aged, op, lock, begun>>
    BY <1>7 DEF vars
  <2>2. TypeOK' /\ RowsOK'
    BY <2>1, SameRowsOK DEF TransactionsInv, TypeOK
  <2>3. LocksOK'
    BY <2>1 DEF TransactionsInv, LocksOK
  <2>4. ASSUME NEW p \in Process PROVE TransactionOK(p)'
    <3>1. CASE op[p] = Idle /\ lock[p] = {}
      BY <2>1, <3>1 DEF TransactionOK
    <3>2. CASE Sound(op[p], lock[p])
      <4>1. PICK row, held : row = op[p] /\ held = lock[p]
        OBVIOUS
      <4>2. Sound(row, held)'
        BY <2>1, <3>2, <4>1, SameRows
      <4>3. QED
        BY <2>1, <4>1, <4>2 DEF TransactionOK
    <3>3. QED
      BY <3>1, <3>2 DEF TransactionsInv, TransactionOK
  <2>5. QED
    BY <2>2, <2>3, <2>4 DEF TransactionsInv
<1>8. QED
  BY <1>1, <1>2, <1>3, <1>4, <1>5, <1>6, <1>7 DEF Next

LEMMA TransactionsInvHolds == Spec => []TransactionsInv
<1>1. Init => TransactionsInv
  BY InitTransactions
<1>2. TransactionsInv /\ [Next]_vars => TransactionsInv'
  BY NextTransactions
<1>3. QED
  BY <1>1, <1>2, PTL DEF Spec

(* Every variable keeps its type, whatever the transactions do.            *)
THEOREM TransactionsTyped == Spec => []TypeOK
<1>1. TransactionsInv => TypeOK
  BY DEF TransactionsInv
<1>2. QED
  BY <1>1, TransactionsInvHolds, PTL

(* The messages of a session with those its running conversations will add *)
(* stay within the limit, and so do its unfinished tasks: what counts them *)
(* has the session to itself from the count to its commit.                 *)
THEOREM SessionWithinLimits == Spec => []LimitsHold
<1>1. TransactionsInv => LimitsHold
  BY DEF TransactionsInv, RowsOK
<1>2. QED
  BY <1>1, TransactionsInvHolds, PTL

(* Requests with one idempotency key create one profile a day: whoever has *)
(* claimed its row finds it free up to the commit that fills it.           *)
THEOREM OneProfileADay == Spec => []OneProfilePerKey
<1>1. TransactionsInv => OneProfilePerKey
  BY DEF TransactionsInv, RowsOK
<1>2. QED
  BY <1>1, TransactionsInvHolds, PTL

(* An answer read by several statements agrees with itself: versions only  *)
(* grow, a message is written with its version, and the items of a         *)
(* finished diagnosis are all there when the second statement reads them.  *)
THEOREM AnswersCohere == Spec => []ReadsCoherent
<1>1. TransactionsInv => ReadsCoherent
  <2> SUFFICES ASSUME TransactionsInv, NEW p \in Process
               PROVE  /\ Ready(p, "owned_profile") =>
                           \A c \in Chat : About[c] = op[p].rid /\ turn[c] \in 1..op[p].saw["version"]
                                             => c \in op[p].saw["messages"]
                      /\ Ready(p, "owned_diagnosis") =>
                           (op[p].saw["status"] # "open" => op[p].saw["items"] = Job)
    BY DEF ReadsCoherent
  <2>1. /\ "owned_profile" \in Kind /\ Len(Statements["owned_profile"]) = 2
        /\ "owned_diagnosis" \in Kind /\ Len(Statements["owned_diagnosis"]) = 2
    BY StatementLists
  <2>2. CASE Ready(p, "owned_profile")
    <3>1. /\ Sound(op[p], lock[p]) /\ op[p].kind = "owned_profile"
          /\ op[p].at > Len(Statements["owned_profile"])
      BY <2>1, <2>2, Committing
    <3>2. op[p].at > 2
      BY <2>1, <3>1
    <3>3. QED
      BY <3>1, <3>2 DEF Sound, Coherent, Ready
  <2>3. CASE Ready(p, "owned_diagnosis")
    <3>1. /\ Sound(op[p], lock[p]) /\ op[p].kind = "owned_diagnosis"
          /\ op[p].at > Len(Statements["owned_diagnosis"])
      BY <2>1, <2>3, Committing
    <3>2. op[p].at > 2
      BY <2>1, <3>1
    <3>3. QED
      BY <3>1, <3>2 DEF Sound, Coherent, Ready
  <2>4. QED
    BY <2>2, <2>3
<1>2. QED
  BY <1>1, TransactionsInvHolds, PTL

(* Only a confirmation adds a confirmed version, and it holds the row of   *)
(* the profile since it found that version to be the newest.               *)
LEMMA ConfirmsSeen ==
  ASSUME TransactionsInv, NEW p \in Process, CommitConfirm(p), NEW q \in Profile
  PROVE  /\ confirmed'[q] \ confirmed[q] \subseteq {latest[q]}
         /\ latest'[q] = latest[q]
<1>1. /\ confirmed' = [confirmed EXCEPT ![op[p].rid] = @ \cup {op[p].base}] /\ latest' = latest
      /\ Ready(p, "confirm")
  BY DEF CommitConfirm, Commits
<1>2. "confirm" \in Kind /\ Len(Statements["confirm"]) = 1 /\ Subjects["confirm"] = Profile
  BY StatementLists, SubjectsOf
<1>3. Sound(op[p], lock[p]) /\ op[p].kind = "confirm" /\ op[p].rid \in Profile /\ op[p].at > 1
  BY <1>1, <1>2, Committing
<1>4. latest[op[p].rid] = op[p].base
  BY <1>3 DEF Sound, Unchanged
<1>5. confirmed \in [Profile -> SUBSET Nat]
  BY DEF TransactionsInv, TypeOK, RowsTyped
<1>6. QED
  BY <1>1, <1>4, <1>5

(* A user confirms the newest version: between the statement that compares *)
(* it and the commit of the confirmation no newer one is written.          *)
THEOREM NewestConfirmed == Spec => ConfirmedAsSeen
<1>1. ASSUME TransactionsInv, [Next]_vars, NEW q \in Profile
      PROVE  /\ confirmed'[q] \ confirmed[q] \subseteq {latest[q]}
             /\ confirmed'[q] # confirmed[q] /\ alive' => latest'[q] = latest[q]
  <2>1. ASSUME NEW p \in Process, CommitConfirm(p)
        PROVE  confirmed'[q] \ confirmed[q] \subseteq {latest[q]} /\ latest'[q] = latest[q]
    BY <1>1, <2>1, ConfirmsSeen
  <2>2. CASE \E p \in Process : CommitRevoke(p)
    BY <2>2 DEF CommitRevoke
  <2>3. CASE /\ \A p \in Process : ~CommitConfirm(p) /\ ~CommitRevoke(p)
             /\ \/ \E p \in Process : Begin(p) \/ LockRow(p) \/ Execute(p) \/ Rollback(p) \/ EndRead(p)
                \/ UNCHANGED vars
    BY <2>3 DEF Begin, LockRow, Execute, Rollback, EndRead, vars, rows
  <2>4. CASE \E p \in Process : \/ CommitEdit(p) \/ CommitProfileCreate(p) \/ CommitTaskCreate(p)
                                \/ CommitChat(p) \/ CommitItem(p) \/ CommitFinish(p) \/ CommitEnd(p)
                                \/ CommitSweep(p)
    BY <2>4 DEF CommitEdit, CommitProfileCreate, CommitTaskCreate, CommitChat, CommitItem, CommitFinish,
                CommitEnd, CommitSweep
  <2>5. CASE KeyAges \/ DeleteOldKey
    BY <2>5 DEF KeyAges, DeleteOldKey
  <2>6. QED
    BY <1>1, <2>1, <2>2, <2>3, <2>4, <2>5 DEF Next, Commit
<1>2. TransactionsInv /\ [Next]_vars =>
        [\A q \in Profile :
           confirmed'[q] \ confirmed[q] \subseteq {latest[q]} /\
           (confirmed'[q] # confirmed[q] /\ alive' => latest'[q] = latest[q])]_vars
  BY <1>1
<1>3. QED
  BY <1>2, TransactionsInvHolds, PTL DEF Spec, ConfirmedAsSeen

(*--------------------------- Who waits for whom -------------------------*)

(* Nobody waits for a document that another transaction holds: both would  *)
(* hold its row of the queue.                                              *)
LEMMA Blocked ==
  ASSUME TransactionsInv, NEW p \in Process, NEW q \in Process, NEW x \in op[p].todo \cap lock[q]
  PROVE  /\ p # q /\ Sound(op[p], lock[p]) /\ Sound(op[q], lock[q])
         /\ x \in Row /\ x[1] \in {"parent", "task", "key", "queue"}
         /\ Awaits(op[p], IF x[1] = "key" THEN "claim" ELSE x[1])
<1>1. Sound(op[p], lock[p]) /\ Sound(op[q], lock[q])
  BY DEF TransactionsInv, TransactionOK, Idle
<1>2. /\ x \notin lock[p] /\ Awaits(op[p], IF x[1] = "key" THEN "claim" ELSE x[1])
      /\ x[1] = "document" => <<"queue", x[2]>> \in lock[p]
  BY <1>1 DEF Sound, Shape, Waiting
<1>3. p # q /\ x \in Row
  BY <1>1, <1>2 DEF Sound
<1>4. x[1] # "document"
  <2>1. SUFFICES ASSUME x[1] = "document" PROVE FALSE
    OBVIOUS
  <2>2. <<"queue", x[2]>> \in lock[p] /\ <<"queue", x[2]>> \in lock[q]
    BY <1>1, <1>2, <2>1 DEF Sound, Shape, Holding
  <2>3. <<"queue", x[2]>> # SessionRow
    BY DEF SessionRow
  <2>4. QED
    BY <1>3, <2>2, <2>3 DEF TransactionsInv, LocksOK
<1>5. x[1] # "session"
  <2>1. op[p].kind \in Kind
    BY <1>1 DEF Sound, Transaction
  <2>2. \A i \in DOMAIN Statements[op[p].kind] : Statements[op[p].kind][i] # "session"
    BY <2>1, StatementLists
  <2>3. QED
    BY <1>2, <2>2 DEF Awaits
<1>6. x[1] \in {"session", "parent", "task", "key", "queue", "document"}
  BY <1>3 DEF Row, SessionRow, KeyRow
<1>7. QED
  BY <1>1, <1>2, <1>3, <1>4, <1>5, <1>6

(* What holds a profile, a key or a row of the queue that somebody waits   *)
(* for has no more to wait for, or only for a document.                    *)
LEMMA HolderGoesOn ==
  ASSUME TransactionsInv, NEW p \in Process, NEW q \in Process, NEW x \in op[p].todo \cap lock[q],
         x[1] # "task"
  PROVE  \A r \in Process : ~WaitsFor(q, r)
<1>1. /\ p # q /\ Sound(op[p], lock[p]) /\ Sound(op[q], lock[q])
      /\ x[1] \in {"parent", "key", "queue"} /\ op[q].kind \in Kind
      /\ Awaits(op[p], IF x[1] = "key" THEN "claim" ELSE x[1])
  BY Blocked DEF Sound, Transaction
<1>2. ASSUME NEW r \in Process, WaitsFor(q, r) PROVE FALSE
  <2>1. PICK y \in op[q].todo \cap lock[r] : TRUE
    BY <1>2 DEF WaitsFor
  <2>2. /\ y[1] \in {"parent", "task", "key", "queue"}
        /\ Awaits(op[q], IF y[1] = "key" THEN "claim" ELSE y[1])
    BY <2>1, Blocked
  <2>3. PICK next \in {"parent", "task", "claim", "queue"} :
          op[q].at \in DOMAIN Statements[op[q].kind] /\ Statements[op[q].kind][op[q].at] = next
    BY <2>2 DEF Awaits
  <2>4. CASE x[1] = "parent"
    <3>1. \/ op[q].kind \in {"edit", "confirm", "create_chat"} /\ op[q].at > 1
          \/ op[q].kind = "commit_chat" /\ op[q].at > 2
      BY <1>1, <2>4 DEF Sound, Shape, Holding
    <3>2. QED
      BY <2>3, <3>1, StatementLists
  <2>5. CASE x[1] = "key"
    <3>1. op[q].kind = "create_profile" /\ op[q].at > 2
      BY <1>1, <2>5 DEF Sound, Shape, Holding
    <3>2. QED
      BY <2>3, <3>1, StatementLists
  <2>6. CASE x[1] = "queue"
    <3>1. op[q].kind \in {"sweep", "revoke"} \/ (op[q].kind = "fail" /\ op[q].at > 2)
      BY <1>1, <2>6 DEF Sound, Shape, Holding
    <3>2. op[p].kind # "sweep"
      BY <1>1, <2>6, StatementLists DEF Awaits
    <3>3. op[q].kind # "revoke"
      BY <1>1, <3>2, Others
    <3>4. QED
      BY <2>3, <3>1, <3>3, StatementLists
  <2>7. QED
    BY <1>1, <2>4, <2>5, <2>6
<1>3. QED
  BY <1>2

(* What holds a task never waits for another.                              *)
LEMMA TaskHolder ==
  ASSUME TransactionsInv, NEW p \in Process, NEW q \in Process, NEW x \in op[p].todo \cap lock[q],
         x[1] = "task", NEW y \in op[q].todo
  PROVE  y[1] # "task"
<1>1. Sound(op[q], lock[q])
  BY Blocked
<1>2. op[q].kind \in {"commit_chat", "finish_item", "finish", "fail"} /\ op[q].at > 1
  BY <1>1 DEF Sound, Shape, Holding
<1>3. Awaits(op[q], IF y[1] = "key" THEN "claim" ELSE y[1])
  BY <1>1 DEF Sound, Shape, Waiting
<1>4. QED
  BY <1>2, <1>3, StatementLists DEF Awaits

(* No circle of waiting: who waits for a task waits for somebody who waits *)
(* for no task, and who waits for anything else waits for somebody who     *)
(* waits for nobody.                                                       *)
THEOREM DeadlockFree == Spec => []NoDeadlock
<1>1. TransactionsInv => NoDeadlock
  <2> SUFFICES ASSUME TransactionsInv, NEW P \in (SUBSET Process) \ {{}},
                      \A p \in P : \E q \in P : WaitsFor(p, q)
               PROVE  FALSE
    BY DEF NoDeadlock
  <2>0. P # {} /\ P \subseteq Process
    OBVIOUS
  <2>1. PICK p \in P : p \in Process
    BY <2>0
  <2>2. PICK q \in P : q \in Process /\ WaitsFor(p, q)
    BY <2>0, <2>1
  <2>3. PICK x \in op[p].todo \cap lock[q] : TRUE
    BY <2>2 DEF WaitsFor
  <2>4. PICK r \in P : r \in Process /\ WaitsFor(q, r)
    BY <2>0, <2>2
  <2>5. PICK y \in op[q].todo \cap lock[r] : TRUE
    BY <2>4 DEF WaitsFor
  <2>6. x[1] = "task"
    BY <2>1, <2>2, <2>3, <2>4, HolderGoesOn
  <2>7. y[1] # "task"
    BY <2>1, <2>2, <2>3, <2>5, <2>6, TaskHolder
  <2>8. \A s \in Process : ~WaitsFor(r, s)
    BY <2>2, <2>4, <2>5, <2>7, HolderGoesOn
  <2>9. PICK s \in P : WaitsFor(r, s)
    BY <2>4
  <2>10. QED
    BY <2>0, <2>8, <2>9
<1>2. QED
  BY <1>1, TransactionsInvHolds, PTL
=============================================================================
