# ResumeDoctor in TLA+

A verification development kept beside the ResumeDoctor code: models of its
job store, workers, transactions, uploads, requests, in-memory platform,
intake, scoring and report checks, model checked with TLC on small instances,
and proofs of their most important promises, checked with TLAPS for every
value of the constants.

ResumeDoctor turns a résumé or a conversation into a versioned profile, pasted
postings into structured jobs, and scores a confirmed profile against confirmed
jobs. The slow steps (extraction, conversation, diagnosis) are *tasks*: rows
the API inserts and separate worker processes execute under leases; without a
database one process runs them as coroutines.

Source paths below are relative to `src/`; `store.py`, `worker.py`,
`__main__.py` are in `backend/app/platform/jobs/`, `postgres.py`, `schema.py`
and `memory.py` in `backend/app/platform/repositories/`.

## 1. Inventory

| Component | State it keeps | Operations | Talks to | Hard behaviour | Correct when |
|---|---|---|---|---|---|
| Job store and leases (`store.py`) | rows of `tasks`, `diagnosis_items`, with lease token, lease end, deadline | `claim`, `reap`, `heartbeat`, and the fenced `load`, `start_item`, `save_score`, `finish_item`, `finish`, `fail`, `commit_job/chat/document` | PostgreSQL; called by workers | row locks, a fence checked twice, leases and deadlines running out inside a transaction, stale clients | one result per task, nothing persisted is changed, only the holder of the latest lease writes, every task ends |
| Worker (`worker.py`, `__main__.py`) | its lease, two coroutines, the loaded snapshot | `run_once`, `execute`, `_perform`, `_heartbeat`, `serve` | store (through `asyncio.to_thread`), gateway, scoring, intake | cancelling a coroutine does not stop its database thread; crash, shutdown, timeout, broken heartbeat | it never needs the store's guards, abandons no lease, reports on the score that was saved |
| PostgreSQL repository (`postgres.py`, `schema.py`) | sessions, versions, documents, messages, idempotency keys, `file_cleanup` | create/append/confirm, `create_task`, `diagnosis_create`, `document_create`, revoke, cleanup, reads of several statements | files on disk, API, workers | shared and exclusive session locks, READ COMMITTED, lock order, file and rows in different stores, ambiguous commits | limits hold under concurrency, no deadlock, coherent reads, no file without a cleanup row, deleted sessions stay deleted |
| DatabasePlatform (`database_service.py`) | sliding window of writes per session | adapters, `write_limit`, `prune`, `sweep` | repository | concurrent requests on one window | at most 20 writes a minute, retries are answered |
| In-memory platform (`platform/service.py`, `memory.py`, `fakes.py`) | rows, futures and reserved profiles in one process | the same operations under asyncio | fake ports | deletion, expiry and edits while a coroutine is suspended; cancellation | nothing returns after its session, no profile stays locked, the same task lifecycle as with a database |
| HTTP API (`api/`, `main.py`) | – | routing, CSRF/session checks, error mapping | platform | – | stateless mapping |
| LLM gateway (`llm/`) | retry budget of a call | `generate_structured` | provider | one budget for two causes of retry, nested timeouts | every call ends |
| Intake (`intake/`, `platform/validation.py`) | a parser process during a call | document and chat extraction, privacy projection, checks of drafts and edits | gateway, worker | a parser that hangs, cancellation, a model that echoes filtered text, edits while it thinks | evidence is verbatim, a turn of the model takes nothing away |
| Scoring (`scoring/`) | – (pure) | matching, merging, weighting, rounding | worker | overlapping months, negation, decimal rounding, merged duplicates | statuses rest on facts, the score is their weighted coverage |
| Reporting (`reporting/`) | – (pure) | checks of a report, numbers in texts, markdown | worker, gateway | two validators of one report, Chinese numerals | reports are honest about the score and the evidence |
| Contracts (`contracts/`) | – | type declarations | all | – | – |
| Frontend (`frontend/src/`) | operation ref of `useAction`, loads, polls, workspace | submit, retry, poll, edit | API over an unreliable network | lost and late answers, frozen bodies | one task per submitted text that does not fail, retries within a day recover lost answers |

Components interact in four ways: the API and the workers share nothing but
PostgreSQL rows (locks order them); a worker's coroutines and its database
threads share the same lease; originals are handed over through `file_cleanup`;
the browser and the API exchange requests identified by idempotency keys.

## 2. Modules

| Module | Models | Composes |
|---|---|---|
| `TaskLifecycle` | abstract promise of a task: one outcome, one result, erased with its session | – |
| `JobStore` | the job store and the repository transactions that compete with it | implements `TaskLifecycle` |
| `JobWorkers` | worker processes, coroutines, orphaned database threads | extends `JobStore`, implements its `Spec` |
| `Transactions` | the transactions on one session, statement by statement and row lock by row lock | – |
| `Uploads` | `document_create`, the cleanup queue, release and revocation | – |
| `Requests` | intake page, network, idempotency keys, versions, conversations | – |
| `MemoryPlatform` | the single-process platform and its coroutines | implements `TaskLifecycle` |
| `Intake` | a profile between documents, conversations, edits and a model; parser and gateway | – |
| `ReportNumbers` | the integers `reporting/validation.py` reads in a text | – |
| `Appraisal` | a job from its draft to its report: merging, matching, scoring, both report checks | extends `ReportNumbers` |
| `MC…` | instances for TLC | extend the module they are named for |
| `JobStoreProofs` | see section 5 | extends `JobStore` |
| `JobWorkersProofs` | see section 5 | extends `JobWorkers` and `JobStoreProofs` |
| `MemoryPlatformProofs`, `IntakeProofs`, `AppraisalProofs`, `RequestsProofs`, `UploadsProofs`, `TransactionsProofs` | see section 5 | each extends the module it is named for |

Definitions named `X_How` state a plausible mistake in `X`. No specification
uses them; they serve to show, for every property, a mistake it would catch.

### TaskLifecycle and JobStore

`task`, `item`, `doc`, `latest` and `made` stand for the rows of `tasks`,
`diagnosis_items`, `documents` with its `file_cleanup` row, `latest_version` of
the profiles, and the number of versions with `created_by_task_id`. A lease
token is a fresh UUID in the code and the number of the claim in the model; a
score is known by the claim that computed it and a report by the score it was
written from, which is all the properties compare.

A fenced operation is two steps, because the code checks its fence twice
(`_transaction`, `store.py:98-123`): `Begin` takes the row lock (`txn`) and
makes the first check, a `Commit` action makes the second check and writes.
`Rollback` stands for an exception, a failed second check and a broken
connection. Between the two the clock runs, sessions expire, profiles change
where no lock forbids it. `heartbeat`, `claim` and `reap` check and write under
one lock and are one step each. The per-task row lock stands for the locks of
the task, its items and its session share; `Transactions` takes them apart.

The clients are the most general ones: anyone may call any operation that fits
the kind of the task with any token ever given out, at any time. Every safety
property of the store therefore holds whatever the workers do.

`ImplementsLifecycle` refines `TaskLifecycle`: the abstract state is derived by
the mapping at the end of `JobStore`.

### JobWorkers

A worker's row says where its coroutine is: between tasks, in the loops of
`reap` and `claim`, in a database call, in a model call. A database call is
issued, opens its transaction in a thread, and returns; if the coroutine is
cancelled (timeout, broken heartbeat, shutdown) the call becomes an orphan that
may still open and commit later, when the worker has gone on. `Crash` ends the
process at any step; a transaction it had open may still commit. Faults
(crashes, shutdowns, lost connections) are counted up to `MaxFaults`.
`WorkersUseStore` states that all this is a behaviour of `JobStore`.

### Transactions

Each process runs one transaction at a time: it locks the rows of its next
statement one after the other (`LockRow`), runs the statement (`Execute`), which
may end it, remembers what later statements use (`saw`), and commits. A
transaction that never gets its lock waits; a broken connection rolls back at
any time. Rows that are only reached under an exclusive lock of the session are
not locked again. At READ COMMITTED every statement sees what is committed when
it runs, which is what makes `ReadsCoherent` a question: the code asks for the
version of a profile before its messages, and for the status of a diagnosis
before its items, and the other order would be wrong.

### Uploads

An upload is one call of `document_create` and draws a storage key of its own;
uploads with one idempotency key are retries of one request, as long as the key
is kept: `_key` (`postgres.py:312-320`) deletes a key that is 24 hours old and
takes the next request under it for a new one. `asked` is the clock when a call
looked for its key, which is the creation time of the row it then writes;
`Replay` compares it with `KEY_LIFE`. The steps are the code's commits and file operations: reservation, session lock and key, file,
commit, and the except and finally clauses. `CommitUnknown` is a commit that
happened although the call saw the connection break. `retry_file_cleanup` is a
transaction over a batch of locked queue rows with an unlink per row, one
commit and a possible rollback after files are gone.

Assumed: no call of `document_create` lasts as long as its own reservation
(`FILE_CLEANUP_DELAY`, 23 h 59 min); `Tick` says so. Known and accepted by the
properties: after `CommitUnknown` the except clause unlinks the original of a
task that exists, and a retry is answered with that task, which then fails when
it cannot read its file. `OriginalKept` speaks of calls that were themselves
told of success. A retry after 24 hours creates a second task for the same file,
as `docs/team/db-01.md:91` allows; `RetriesAgree` says how far apart the two are.

### Requests

`useAction` keeps a key and, once `prepare` has run, the frozen body. One click
on the intake page sends up to three requests (create the profile, read its
version, send the message); each may be lost, answered late, or handled after
the page has given up. The server's handlers are one step each, as each is one
transaction under the session lock; replays answer before anything else is
checked. `rows` are the rows of `idempotency_keys`, with the profile or the task
each stands for. A session lives 7 days and a key 24 hours, so `Expire` may take
any row away between two steps: the next request under that key goes on to the
version check, and either meets it or creates a second task. What remains true
is that a second task comes only after a failed one, since a task that succeeded
has raised the version of the frozen body and one that runs makes the profile
busy. The task may succeed (and raise the version) or fail, another tab may
edit the profile, the write throttle may refuse. While `?task=` is set the form
is disabled; a failed task can be dismissed, a successful one leaves the page.

### MemoryPlatform

Coroutines of one event loop interleave only where they await. `co[t].at` names
that await: `executor.before`, the intake, scoring, reporting, or "scheduled"
for a coroutine that has not taken its first step. From one await to the next a
coroutine is one step, and so is every request. `Revoke` erases the rows first
and then cancels the coroutines, as the code does; `Notice` erases them because
some request found the session expired, and cancels nothing: such coroutines
meet `active()` later and end in `Gone`. A coroutine cancelled before its first
step never enters its `try` (`lost`), so its `finally` does not run; the entries
it leaves behind belong to a session that is gone.

### Intake

One task at a time works on one profile, as the store's `PROFILE_BUSY` check and
leases have it, while users edit. A call reads the profile, may wait for a
parser process, is retried by the gateway within one budget, may be cancelled
at any await, and commits if the version it read is still the latest. The model
sees `Projection`: every text with contacts removed. It may answer anything;
what it echoes unchanged is restored to what was stored, and the result has to
pass the same checks as in the code. A source is a document or a message; of
quotes only their text matters, and `TextOf[s]` says which texts occur in `s`.

### Appraisal and ReportNumbers

A draft is a sequence of requirements with ids, operators, labels, amounts and
quotes; a profile is a set of facts. Labels are model values (the folding of
case and spaces is the identity on them, `ALIASES` is not), months are numbers,
degrees their ranks, a quote is known by what `_enrollment_policy` finds in it.
`Extract` merges and checks a draft, `Edit` replaces it by hand, `Score` runs
the matcher, the calculator and the score guard, `Report` runs both validators
on any answer. A score is judged when it has been saved; that it stays as it is
afterwards is `ResultsFrozen` of the store. `Claims` reads integers in figures
(with 万 and 亿) and in Chinese characters, `Spoken` writes them the way people
do; colloquial abbreviations (“一万五” for fifteen thousand) are read literally
by the code and are not written by `Spoken`.

## 3. Runs

| Run | What it shows |
|---|---|
| `store_diagnosis` | a diagnosis of two jobs under any clients: `LeaseNotStolen`, `WritesWithinLease`, `WritesByHolder` (fencing), `ResultsFrozen`, `StatusSummarisesItems` (results), `ImplementsLifecycle` |
| `store_tasks` | two conversations and an upload, edits, expiry, revocation: `OneResult`, `OneChatPerProfile`, `OriginalReleased`, `ErasedForGood` |
| `workers_safety` | two workers on a diagnosis, an upload or a conversation: `GuardsUnneeded`, `NoAbandonedLease` |
| `workers_live` | one worker, two jobs, one fault, a model that may hang: `ReportRestsOnScore`, `WorkersUseStore`, `EveryTaskEnds` |
| `transactions` | any three transactions on three connections: `NoDeadlock`, `ReadsCoherent`, `LimitsHold`, `OneProfilePerKey`, `ConfirmedAsSeen` |
| `uploads` | a request and its retry, at once or a day later, two cleaners, revocation, two faults: `FileReserved`, `OriginalKept`, `DeletedMeansGone`, `RetriesAgree`, `EveryOriginalRemoved` |
| `requests` | two operations, late and lost messages, keys that get old, edits elsewhere: `OneTaskPerOperation`, `NoKeyConflict`, `AcceptedIsSubmitted`, `LostAnswerRecovered` |
| `requests_busy` | finding 1 (expected violation of `BusyGetsThrough`) |
| `memory` | four coroutines on one session: `ProfileReserved`, `NothingReappears`, `EveryTaskEnds`, `ImplementsLifecycle` |
| `intake` | a document, two messages, edits, any answers: `EvidenceVerbatim`, `ModelKeepsFacts`, `CallsEnd` |
| `appraisal` | every draft of two requirements against every profile of up to three facts, and the answers of a model to each score: `AssessmentsRestOnFacts`, `ScoreIsCoverage`, `ReportHonest`, `ReporterDecides` |
| `unscorable` | finding 2 (expected violation of `MergedBeforeConfirmation`) |

Runs say `CHECK_DEADLOCK FALSE` because the systems really stop: when all tasks
have ended, all files are removed, all transactions are done or the bounded
clock has run out. (`NoDeadlock` is about transactions that wait for each other,
and is an invariant.)

### Bounds

* The clock reaches the deadline of a task created at time 0 in every run of the
  store, so leases and deadlines run out in every order; in `store_diagnosis` a
  lease is shorter than the time of a task, so a second claim happens before the
  deadline (`MAX_ATTEMPTS = 2` as in the code).
* Two items are enough for `partial`, for a claim that resumes after one item
  and for an error on the other. Two conversations and a third task meet both
  limits of a session. In
  `workers_safety` one of the three tasks is created (`MaxRows = 1`): both
  workers contend for its lease, and tasks meet each other only in the rows,
  which is what `store_tasks` explores.
* `Transactions`: three connections can close a circle of three; the two
  conversations, the diagnosis and the two originals contend for every kind of
  row; three transactions are a competing pair and one before, after or between.
  `MAX_ROUNDS = 1` lets two conversations meet the limit of messages (50 in the
  code; nothing but the comparison depends on it). A key ages once.
* Two uploads are a request and its retry; a third would meet the key one of
  them left. Two cleaners are the API's loop and a worker's. `DELAY` (23 h
  59 min) and `KEY_LIFE` (24 h) are both 2: no call lasts until its reservation
  is due, so the minute between them separates nothing. The clock stops at 3, so
  a retry may reserve at 1 and look for a key of time 0 at 2, when it is too old:
  both a replay and a second task are reached. A removal can fail at 2, when a
  reservation falls due, and is tried again at 3.
* Two operations are a message and an edited one; three tries on the wire allow
  a late first request to meet a retry and a new operation. The number of a try
  tells requests on the wire apart and nothing else, so the lowest free one is
  taken. Three tasks are a failed one, its successor under the same key and one
  of the other operation. A key that gets 24 hours old counts in `MaxFaults`;
  two faults are a lost answer and the old key its retry meets.
* `Intake`: a model puts in, changes or drops one piece of evidence and one fact
  per answer, a user one of them per edit; a quote that the filter changes and
  one it does not; a window of one message, so that the older one falls out of
  it; three versions. The proofs have none of these bounds.
* `Appraisal`: two requirements of seven are a duplicate, a conflict, or two
  categories; three facts of eight hold a denial, an overlap and an unfinished
  experience at once; as-of month 6 makes 3 months the edge between `partial`
  and `met`. Gaps are answered up to length two, suggestions and actions one at
  a time, as the checks look at each of them by itself.
* `MaxFaults` limits failures, never ordinary interleavings.
* Symmetry is used in `workers_safety` (workers), `store_tasks` (conversations)
  and `transactions` (connections and originals), which check no liveness.

### Fairness

* Workers: the clock advances, an open transaction nobody waits for commits or
  rolls back (the database ends abandoned ones), the sweeper removes expired
  sessions; polling (`serve` loops) and the steps of a coroutine that does not
  wait for the model are fair, and the timeout of `execute` fires. The model
  and the heartbeat are not fair.
* Uploads: a call runs to its end or crashes, the cleanup loops go on.
* Requests: requests that are not lost are handled, tasks end, the page reacts,
  and the user presses the button again while it is enabled. Losses, give-ups and
  keys that get old are not fair and are bounded by `MaxFaults`.
* MemoryPlatform: the loop starts what is scheduled, delivers cancellations and
  fires the timer of `wait_for`; no port need ever answer.
* Intake: timers fire, a killed process dies, the back-off of the gateway ends
  and the database answers a commit; neither parser nor provider need answer.

## 4. Findings

1. `postgres.py:477` tells a user whose profile is busy to wait and retry, and
   `docs/team/api-01.md:115` has a busy profile answered by a new submission
   after the other task ended. `useAction` (`frontend/src/hooks.ts:73`) keeps
   key *and* frozen body after every refusal; the other task raises the version
   when it succeeds, so the retry carries an outdated `base_version` and is
   refused with `VERSION_CONFLICT` for as long as the text is not changed. The
   trace of `requests_busy`: the answer to a first message is lost, the user
   edits the text and submits, is told to wait, waits, and is refused for ever.
2. `docs/05-scoring.md:56` has duplicate requirements, recognised by their
   normalized key, merged before a job is confirmed. The merge of the intake
   (`intake/validation.py:223-293`) uses a key of its own, without the aliases
   of the vocabulary, and runs on extracted drafts only; an edit by hand is not
   merged at all. `prepare_job` (`scoring/matcher.py:103`) merges after the
   confirmation, in a copy, and the score guard (`platform/validation.py:89`)
   then misses the requirement that was merged away and refuses the score: such
   a job, with “js” and “javascript” say, can be confirmed and never scored.
   Personal requirements, which only `prepare_job` sets aside, end the same way.

Observed on the way, without a run of their own:

* A diagnosis whose items have all succeeded, and whose worker stopped before
  `finish`, is reaped after the deadline as *succeeded* (`store.py:437-447`),
  where `docs/02-architecture.md:70` speaks of failed or partial. Harmless.
* The intake compares months with the local `date.today()`, the platform with
  UTC: on a server east of UTC a draft accepted in the first hours of a month
  may be refused when it is committed.
* The in-memory platform gives all messages of a conversation one source id, so
  the check that new evidence cites a new source looks at less there.

## 5. Proofs

Each theorem holds for any values of the constants under the assumption its
component states: `ConstantsAssumption`, `WorkersAssumption` (there are tasks
and items, `Nobody` is no worker), `MemoryAssumption`, `UploadsAssumption`,
`TransactionsAssumption` (the kinds of tasks are disjoint, tasks are finitely
many), `RequestsAssumption` (bounds are natural numbers), `AppraisalAssumption`
(requirements and facts are as the contracts and `validate_profile` let them be).
`Intake` needs nothing of its own. TLC evaluates each of them in the runs of
its component, and the bounds of the runs (`MaxFaults`, `MaxNow`, `MaxVersion`,
...) are constants like the others: the theorems hold for all of them.

| Theorem | Establishes |
|---|---|
| **`JobStoreProofs`** | |
| `TypeCorrect` | `TypeOK`: well-formed rows, never more than `MAX_ATTEMPTS` claims |
| `FenceHolds` | `OpenFence`: an open transaction keeps the lease it was let in with |
| `ResultOnce` | `OneResult`: one version if a task succeeds, none otherwise |
| `LeasesEnd`, `NoLeaseStolen` | `LeaseWithinDeadline`, `LeaseNotStolen` |
| `PersistedStays` | `ResultsFrozen`: finished tasks, settled items and scores never change |
| `ScoresByHolder` | `WritesByHolder`: a score is written under the latest claim only |
| `WrittenWithinLease` | `WritesWithinLease`: nothing is written after the lease or the deadline |
| `StatusTellsOutcomes` | `StatusSummarisesItems` |
| `OneConversation` | `OneChatPerProfile` |
| `OriginalsReleased`, `ErasedStaysErased` | `OriginalReleased`, `ErasedForGood` |
| `StoreImplementsLifecycle` | the store implements `TaskLifecycle` |
| **`JobWorkersProofs`** | |
| `WorkersAreClients` | `WorkersUseStore`: the workers implement the store's `Spec`, so all of the above holds of them |
| `GuardsNeverNeeded` | `GuardsUnneeded` |
| `ReportsRestOnScores` | `ReportRestsOnScore` |
| `LeasesAreWorked` | `NoAbandonedLease` |
| **`MemoryPlatformProofs`** | |
| `AlwaysReserved`, `DeletedStaysDeleted` | `ProfileReserved`, `NothingReappears` |
| `PlatformImplementsLifecycle` | the platform implements `TaskLifecycle` |
| **`RequestsProofs`** | |
| `OneTask`, `RetriesFit` | `OneTaskPerOperation`, `NoKeyConflict` |
| `AcceptedTaskFits` | `AcceptedIsSubmitted` |
| **`UploadsProofs`** | |
| `OriginalsReserved`, `OpenTaskHasOriginal` | `FileReserved`, `OriginalKept` |
| `GoneIsGone`, `OneTaskPerKey` | `DeletedMeansGone`, `RetriesAgree` |
| **`TransactionsProofs`** | |
| `DeadlockFree` | `NoDeadlock` |
| `AnswersCohere` | `ReadsCoherent` |
| `SessionWithinLimits` | `LimitsHold` |
| `OneProfileADay`, `NewestConfirmed` | `OneProfilePerKey`, `ConfirmedAsSeen` |
| **`IntakeProofs`** | |
| `AlwaysVerbatim`, `TurnsKeepFacts` | `EvidenceVerbatim`, `ModelKeepsFacts` |
| **`AppraisalProofs`** | |
| `UnionMonthsCounts` | `_union_months` counts each month of its intervals once |
| `AssessmentsAlwaysRestOnFacts`, `ScoreIsAlwaysCoverage` | `AssessmentsRestOnFacts`, `ScoreIsCoverage` |
| `ReportAlwaysHonest`, `ReporterAlwaysDecides` | `ReportHonest`, `ReporterDecides` |

*The store: the fence.* `OneResult` is not inductive: a second `commit_result`
on a finished task, or a late `fail`, would break it. What keeps them away is
the fence, and the fence survives because whoever would change the row (`Claim`,
`Reap`, `CreateTask`, `Revoke`) needs the lock the transaction holds. So the
first invariant is `SafetyInv == TypeOK /\ OpenFence /\ OneResult`. On top of
it, `LeaseStep` classifies what any step can do to the lease of a task
(forgotten, created, claimed, renewed, kept); the two facts of `TokenCurrent`
(the token is the number of the latest claim; an unclaimed row has no lease)
and `LeaseWithinDeadline` follow from the classification alone. On top of that,
`ItemKept` says what a step can do to an item, and `Blank` (an absent task has
blank items) covers creation. The action properties follow from these
invariants step by step.

*The store: outcomes and refinement.* `StatusSummarisesItems` needs the
reason of every item's status beside it (`ItemsExplained`), because
`_aggregate` counts and `fail` overwrites; both are kept by a step that touches
one task (`Acts` says which task a step of the store is about, and all others
are untouched). For the refinement every step is mapped to `Submit`, `Begin`,
`Settle`, `Complete` or `Erase` of its task or to a stutter; a failure while
the transaction is open, a retry and a heartbeat are stutters, and what makes
`Settle` and `Complete` possible is that a commit finds its task running and its
items open, which is `OutcomeInv` again.

*The workers.* A coroutine acts on what it read and what its calls answered,
while other coroutines, the reaper and its own cancelled calls go on. `CallsInv`
says of every coroutine whose session is there what it knows (`Working`, with
`Informed`: the scores it loaded are the scores there are, and what is not on
its list is settled or in its hands; `Justified`: what the call it awaits asks
for fits the items), and that every open call and every call that outlived its
coroutine is justified (`TxnsOK`, `OrphansOK`). Knowledge stays true
because settled items and scores never go back (`Evolves`, from the store's
theorems) as long as the session is there; an item read without a score can only
have got one from the coroutine's own claim. `GuardsUnneeded` is the part of it
about calls, `ReportRestsOnScore` needs of the store's side only how a commit
writes a report. `NoAbandonedLease` follows from `LeaseStep`: the one step that
starts a lease leaves a worker under its token (`NewToken`), and a worker under a
token goes on or ends the lease by its last call (`WorkGoesOn`) unless a fault
is counted.

*The in-memory platform.* `ProfileReserved` alone is not inductive either: the
reservation is freed by a coroutine, while the status is a row. `Agrees` ties
them: as long as the session is there, a task is unfinished exactly while its
coroutine is on its way. A step of one coroutine is then a `LocalStep`: it
changes what is its own and frees its profile exactly when it ends. The
refinement adds `Tracked`: where a coroutine is tells the status of its task,
and its list which items are done, which untouched. Coroutines of a session that
is gone may go on; the mapping shows their tasks as erased.

*Requests.* Keys are fresh, and everything that was ever sent under one key is
one body: what the page has frozen, what the wire carries, what the server
recorded (`OneBodyPerKey`, over the set `Sent`). The answer on its way is to the
request the page waits for (`WaitOK`, `AnswersOK`). A key has one row at a time,
which names a task of that key (`RowsOK`), and of the tasks of one key at most one
has not failed (`TasksOK`). As they have one body, this is inductive because of
the two checks of `create_task`: a task that succeeded has moved the profile past
the version of its body for good, and an active one makes the profile busy, so
the body of an old key is accepted again only when all its tasks have failed.

*Uploads.* Each upload is described at each point of its coroutine: what it
holds, what its row and its original must be (`CallOK`, `OriginalOK`), the sweeps
(`SweepsOK`: the rows they hold are due), and the keys (`KeysOK`: a key names the latest upload that committed under it,
and those before it asked `KEY_LIFE` earlier). Every file has
a row, and an upload that has not committed keeps its row from falling due
before `DELAY` (`Reserved`), which its commit checks again: no sweep holds the
row of a reservation.

*Transactions.* The invariant says of every transaction, at each of its statements,
which rows it holds, which it still wants, and which of the things it read are
still so because of those locks (`Sound`). Limits, keys and
confirmations follow at the commit that relies on them. For `NoDeadlock`: nobody
waits for a document another transaction holds, since both would hold its row of
the queue (`Blocked`); the holder of a profile, a key or a row of the queue waits
for nobody (`HolderGoesOn`); the holder of a task waits for no other task
(`TaskHolder`). A chain of waits has at most two links.

*Intake.* The invariant follows a content through a call: what is saved is
verbatim, what the coroutine read is verbatim, what it is about to save passed
`ValidDraft` against what it read, and a version it read tells the content.
That last fact is what carries `ModelKeepsFacts` over the user's edits.

*Appraisal.* Assessments are looked up by the id of their requirement.
`validate_job` keeps ids apart, `prepare_job` picks requirements of the job
(there is a smallest id in each group), and the score guard misses none, so
requirements and assessments pair off. The invariant says what is saved under a
score (`Judged`): every assessment is `Grounded` in the facts (`AssessRests`, case
by case of `_assess`), and the score is what `calculate_score` makes of them; a
finished report adds `Fitting`. Honesty follows without another look at the
matcher. Two computations need induction, whose library theorems take an operator
as a parameter that no installed prover can instantiate. It is replaced by
smallest counterexamples: among the sets of intervals (or of requirements) that
violate a claim there is one that loses the violation with any element
(`SmallestSet`). For `UnionMonthsCounts` the claim is `Swept`: the closed runs and
the open one hold as many months as the intervals so far cover, all of them before
the end of the open run. For sums, `AnyOrder` shows that the order of a fold does
not matter and `SameTotals` that equal weights under other names have one total.
`FoldExists` first shows that the folds are defined, and `MergedDraft` that
merging a draft ends in one.

Only model-checked: what `CnInteger` reads in a numeral (`ReportAlwaysHonest`
holds for any reading, the run shows it for this one), and liveness under fairness
(`EveryTaskEnds`, `EveryOriginalRemoved`, `LostAnswerRecovered`, `CallsEnd`), which is
out of TLAPS's reach.

## 6. Hazards without a property

The sliding minute of the write throttle (`database_service.py:82`): one
comparison and one insertion under a thread lock, a single step.

## 7. Not modelled

* Routing, CSRF and headers, serialization, wiring and the catalogue of models:
  they keep no state that several actors share; the handlers appear as the
  transactions they call.
* The text of prompts, of extracted documents and of the patterns of the privacy
  filter; report wording and markdown; fractions and dates in `Claims`; styles.
* `MemoryPlatform`: `close()`, idempotency keys, jobs edited by hand.
* `Transactions`: more than one session (no transaction reaches into another's,
  except the sweep, which skips what is locked) and the creation of sessions.
* `Intake`: locators of evidence and months of facts (the months of a fact are
  checked by `FactRecord` of `Appraisal`); the extraction of a job is the same
  gateway call with the checks of `Appraisal`.
* `useLoad` of the browser: each continuation checks the abort signal of its own
  effect, so loads share nothing.
* What is still worth stating: a live worker whose heartbeats come in time is
  never replaced; that `CnInteger` reads back every number `Spoken` writes.
