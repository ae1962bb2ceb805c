# Verification of the SQL Server synchronizer

A Python service keeps a local and a remote SQL Server database equal: it reads
the changes of both with Change Tracking, resolves conflicts, writes each side's
changes to the other and remembers in `SyncControl` how far it got. This
directory holds TLA+ models of it, TLC configurations and TLAPS proofs. Paths
are relative to the repository (`src/` is the Python package).

## 1. The system

| Component | State | Operations | Talks to |
|---|---|---|---|
| `SynchronizationEngine` (`core/engine.py`) | the locals of a cycle, last status | `run_cycle`: preconditions, replay of pending operations, one `_sync_table` per table, failure handling | everything below |
| `ConflictResolver` | none | `resolve` | called by the engine |
| `StateManager` | `SyncControl` rows, one per table and direction | `ensure_initialized`, `get_status`, `update_status`, `mark_failure` | a connector |
| `SQLServerChangeDetector` | none (Change Tracking in the server) | `detect_changes`, `get_current_version` | a connector |
| `BatchProcessor` | none | `process_changes`: one transaction per batch | a connector |
| `PendingOperations` (table) | queued operations | queued on failure, replayed and marked by the next cycles | engine |
| `SQLServerConnector` | connection, transaction depth | queries, statements, transactions, reconnection | SQL Server; shared by job, main and health threads |
| `CircuitBreaker` | state, counter, two timestamps; a probe flag and a message that decide nothing | `allow_request`, `record_success`, `record_failure` | engine, in two threads |
| retry decorator | attempt number | repeats `_execute_sync` | engine |
| `SyncScheduler`, `Application` | APScheduler job, stop event | start, initial cycle, trigger, stop, signals | engine, systemd |
| health server | an HTTP server thread | `/health` tests the shared connections, `/metrics` reads | connectors |
| configuration | none | reads YAML and environment, checks the dependencies of the tables | read by everything |
| logging | - | output only | - |

What is hard here: users write to both databases while a cycle runs; a direction
is several transactions on one database followed by a record of it in the other,
with no common transaction; a failed direction is retried as a whole and also
queued; crashes fall between any two statements; a commit can succeed without
its acknowledgement; the breaker is shared by two threads without a lock and its timer
races the schedule; the connections are shared by main, job and health server, with a
transaction depth that none of them owns; a connection may die and its object
live on. `PROJECT.json` lists these hazards at their lines, with the
property that covers each or the reason why none does yet.

What makes the components correct:

* engine: no change is lost or skipped, no cursor passes undelivered work, a
  failure leaves work to be detected again, own writes are not detected as
  changes, cycles end and the databases converge;
* resolver: at most one operation per record survives and the later edit wins;
* pending operations: COMPLETED implies committed; a leftover is a repetition;
* breaker: opens after the threshold, is probed once after its timeout, closes
  when what made cycles fail is over;
* connector: a batch is committed as a whole or not at all, what a call reports
  is committed, a failed call leaves nothing behind;
* configuration: accepted tables can be run in an order that respects their
  dependencies; payload: the copy of a row has its key and
  holds what it holds.

## 2. Modules

| Module | Models |
|---|---|
| `Outbox` | what the cycle promises about changes, without its phases: taken up, delivered, queued, done; when a cursor may move |
| `ConflictResolver` | `SyncOperation` and `resolve()` as operators on sets of operations, with every order the returned lists may have |
| `SyncEngine` | one cycle after the other on two databases with Change Tracking, users, faults and crashes; the properties; the mapping to `Outbox` |
| `MCSyncEngine` | instances of `SyncEngine` for TLC |
| `SyncEngineProofs`, `CursorProofs`, `AgreementProofs` | theorems about `SyncEngine`, each module built on the one before: types and queue, what cursors mean, what the databases hold |
| `OutboxProofs` | the theorem that `SyncEngine` implements `Outbox` |
| `CircuitBreaker` | the breaker's methods, access by access |
| `Service` | the process: two threads that run cycles, the trigger, signals, exit, restart, trouble, dead connections; composes `CircuitBreaker` |
| `ServiceProofs` | theorems about `Service` with its breaker |
| `Connector`, `MCConnector` | one `SQLServerConnector` and the threads that share it, access by access; its instances |
| `ConnectorProofs` | theorems about `Connector` |
| `Dependencies` | the check of the table list, step by step, and the order the engine runs the tables in |
| `DependenciesProofs` | theorem about `Dependencies` |
| `Payload` | a row's key and columns on their way to its copy, directly or through the queue |
| `PayloadProofs` | theorem about `Payload` |
| `MCPure` | instances of `Dependencies` and `Payload` |

### SyncEngine

A direction is named by its source. `Local` is `LOCAL_TO_REMOTE`: its
`SyncControl` row and its pending operations live in the local database, its
operations are written to the remote one. `pc` is where the cycle is:

| `pc` | code | actions |
|---|---|---|
| `idle` | between cycles | `StartCycle`, `PreconditionFails` |
| `replay`, `mark` | `_process_pending_operations`, `_replay_pending`, `_mark_pending_completed` | `NextReplay`, `ApplyOperation`, `DuplicateKey`, `CommitBatch`, `MarkCompleted` |
| `detectLocal`, `detectRemote` | `_sync_table` up to `resolve` | `DetectLocal`, `DetectRemote` |
| `apply` | `_execute_sync`, `_process_direction`, `process_changes` | `ApplyOperation`, `DuplicateKey`, `CommitBatch`, `NextDirection` |
| `fail`, `queue` | the `except` clause of `_process_direction` | `MarkFailure`, `QueueOperation`, `RaiseProcessingError` |
| `stampLocal`, `stampRemote` | the two `update_status` calls | `StampLocal`, `StampRemote` |

Every statement on a database is a step of its own, so users (`UserWrite`) and
faults come between any two of them. An open transaction is a draft of the rows
it wrote, which are locked against users until the commit. Faults are a failing
precondition, statement or batch, a failing `except` clause, a commit whose
acknowledgement is lost, and a crash with restart; each counts against
`MaxFaults`.

Change Tracking is external and modelled as the code uses it: each database has a
version that every committed transaction increments; each row has the version of
its last change and of its last insertion; `CHANGETABLE(CHANGES t, v)` returns
the rows changed after `v`, as deletions when the row is gone, insertions when
it was inserted after `v`, else updates, joined with the row as it is now.

Abstractions: a record is a (table, key) pair and a model value; a row's content
is the number of the user write it comes from, which is all the properties need;
the timestamp of an operation is 0 for local ones and 0 or 1 for remote ones,
which are read later and may get the same stamp; counts, texts, dates and logs
are left out; waiting between attempts takes any time. `ensure_initialized` of
both directions is one step, since one cycle runs at a time here. An `UPDATE`
whose payload is empty, which the code skips, is not distinguished.

`delivered`, `waived`, `edited`, `seen` and `clock` are history: they record what
was committed where, which changes need no delivery, who wrote last and when a
table was read. No action of the service reads them (`clock` numbers the
contents users write).

### Outbox, and how SyncEngine implements it

`Outbox` knows five things: the last version of each source, a cursor per source
and table, the changes taken up (`open`), the queue of changes kept for later,
and what was delivered. A change is taken up before it is delivered or queued;
entries stay in the queue and are marked done only once delivered; a cursor moves
only while nothing taken up, at either source, is undelivered; work may be given
up at any time, and deliveries may repeat. That is at-least-once delivery with a
durable queue, and what a restart relies on.

`SyncEngine` substitutes `version` for the last versions, the version fields of
`SyncControl` for the cursors, the operations of `plan` for what is taken up,
`PendingOperations` for the queue, and the history `delivered`. A commit is
`Deliver`, `resolve()` is `TakeUp`, every way out of a cycle and of the loop is
`GiveUp`, the handler's INSERTs are `Enqueue`, the marks are `Complete`, the stamps
are `Advance`; statements inside a batch, detection, attempts and statuses are
stutters. `ImplementsOutbox` is checked by `Faults` and proved in
`OutboxProofs`. `Outbox` says nothing of changes that never were taken up: the lost
window of `LostWindow` lies there.

### CircuitBreaker and Service

Timestamps are modelled by ages, cut off where `allow_request` stops seeing a
difference; the failure counter stops at the threshold. The methods take no lock, so
each is a chain of points of a thread, and a step reads one field or assigns one:

| method | points | steps |
|---|---|---|
| `allow_request` | `AskPoint` | `Asks`; `HalfOpens`, `Reopens` |
| `record_success` | `SuccessPoint` | `RecordSuccess` |
| `record_failure` | `FailurePoint` | `Counts`, `Judges`, `Opens` |

`failure_count += 1` is one step (the interpreter could switch threads inside it, which
loses one of two failures recorded at once), and so are the two readings of
`half_opened_at` in line 45, where None refuses in either. `half_open_request_in_flight`
and `last_failure_message` are assigned and decide nothing.

When main's initial cycle and the job are inside methods at once, the fields may end up in
disagreement. A success that resets the counter and assigns CLOSED, then a failure that goes
on from its comparison to OPEN and `opened_at`, then the rest of the success, leaves OPEN
with `opened_at` None: every request is refused, and after at most `failure_threshold` recorded
refusals the failure of one of them notes the time again. Or the failures of an open breaker
are erased, and its refusals do not restart the timeout for some cycles. Or `opened_at` is
taken away between the two readings of line 38, and `allow_request` raises TypeError, which
`run_cycle` records like a refusal. `raced` is history: such a meeting happened since the
process started. `FieldsMatchState` and `NeverProbed` except it; `ProbeIsAlive` and the
liveness properties do not.

A cycle is what the breaker sees of it: admitted or refused, successful or not.
A refused cycle fails at once, within one tick (`refused`, then `refusedLate`),
and its failure is recorded. An admitted one is `running`, and `hit` once it has met
trouble; then it may fail, or come through between its statements or by its
retries. `trouble` tells the network (the probe of 8.8.8.8), the servers and the data apart:
`data` is whatever makes a statement raise although both servers answer, such as a value,
a lock held too long or a pending insertion that collides (`PoisonedQueue`). Trouble of a
server may leave a dead connection (`dead`), on which every cycle that has statements to run
fails, because `connect()` keeps the object; only `stop()` or a new process gets
rid of it. A cycle may still succeed after its connection died if only its records are left.
`SIGTERM` stops main wherever it is, and a failing initial cycle stops the
application; the interpreter waits for the job's thread; systemd restarts the
process with a fresh breaker once `startup()` can connect. `interval` is
`run_interval_minutes`, constant in a behaviour and one of `Intervals`.

### Connector

One connector and its threads: those that run cycles (`Cycler`: main's initial
cycle and the job), the health handlers (`Prober`), and main when it stops the
service. The attributes are `connection` and `depth`; the server knows each
session's status and its uncommitted statements. The points of a thread (`pc`) are
those between which another thread can come: reading `_connection` and opening one,
raising the depth, each statement, reading the depth, the commit, the rollback,
lowering the depth.

| code | actions |
|---|---|
| `_require_connection`, `connect` | `Require`, `Connect` |
| `execute_query`, `execute_non_query` | `Query`; `Run`, `LeaveStatement`, `Commit` |
| `transaction` | `Run`, `LeaveBody`, `Commit`, `Except`, `Rollback`, `Leave` |
| `disconnect` from `stop()`, and `SystemExit` in the main thread | `Stop`, `Unwind` |
| a lost session, a failing statement, a lost acknowledgement | `SessionDies`, `StatementFails`, `CommitUnacknowledged` |

A cycle is reduced to the kinds of calls it makes: batches, single statements,
queries. That two cycles overlap is recorded (`overlapped`): the promises of
`AloneIsAtomic`, `AloneIsDurable` and `NoStrayWork` are made to calls that met no
other cycle, but may well meet the health server, a `stop()`, a dying connection
or what an overlap left on the connection; `TornBatch` shows what the others get.
`depth += 1` and `-= 1` are one step each (they hold the interpreter's lock for
all but an instant), so the depth that `TornBatch` trips over is not a lost update.

### Dependencies and Payload

`Dependencies` is Kahn's algorithm as the code keeps its books: indegrees are
counted per entry of a dependency list, and taken back once per child. The order of
the queue does not matter for the verdict and is left open.

`Payload` follows one row through INSERT, UPDATEs and DELETE: which columns the detector
selects and `_normalize_payload` lets through, what JSON makes of the payload and of
`pk_values` when the operation is queued, what the processor's statement does to the copy.
Where INFORMATION_SCHEMA lists no columns, `_get_writable_columns` returns None and the
detector takes `T.*`, timestamp columns included (`listed`); that and the way through the queue
(`queued`) are open for each operation. Decimals and dates become texts that SQL Server
converts back, so they count as plain; bytes become a hexadecimal text, which it does not
convert to a binary column: a statement that writes it is refused (`refused`), in that replay
and the next ones. A `WHERE` that compares it with a binary key is refused or finds no row,
as the server converts one way or the other; both are allowed. A row inserted again where a
DELETE found no row is the duplicate key of `SyncEngine` and not followed further here.

## 3. Runs

Runs that pass:

| Run | Question | Properties |
|---|---|---|
| `Faults` | what survives any two faults and user writes at any moment | `TypeOK`, `CompletedIsDelivered`, `PendingBehindCursorIsRepetition`, `FailureKeepsWork`, `NoEcho`, `NoRecordTwice`, `CursorSkipsNothingDetected`, `CursorWaitsForBothDirections`, `ImplementsOutbox` |
| `OneWay` | does the other side follow, and is the own side left alone | `Converges`, `UsersOwnTheirSide` |
| `TwoWayUpdates` | does every cycle end, is no change skipped, do both sides become equal, and are they when a cycle reports COMPLETED, in spite of conflicts and two faults | `Agreement`, `CompletedMeansEqual`, `NoChangeSkipped`, `Converges`, `CycleEnds` |
| `Service` | what are the breaker's fields worth with two threads in it, is its probe alive, when does it recover and when never | `FieldsMatchState`, `ProbeIsAlive`, `ShutUntilRestart`, `OpenIsProbed`, `TroubleOverBreakerCloses` |
| `Connector` | are calls atomic and durable on a shared connection that dies, fails and is closed | `TypeOK`, `DepthCounts`, `AloneIsAtomic`, `AloneIsDurable`, `NoStrayWork` |
| `Pure` | is the verdict on a configuration right, do the shipped tables run parents first, does a copy follow its row | `VerdictIsRight`, `ShippedIsRunnable`, `CopyFollowsRow` |

`VerdictIsRight` and `CopyFollowsRow` have the limits of the code in them. Lists with
repeated entries are rejected as cyclic. A column that becomes NULL is dropped from the payload
(`sql_server_detector.py:140`), and the copy keeps its old value: a controlled change, as
`src/SETUP_GUIDE.md:213` has it, that is not replicated. `CopyFollowsRow` excepts such columns,
and bytes that went through the queue, and a generated column that `T.*` brought.

`Agreement`, `CompletedMeansEqual` and `Converges` compare rows by the user write they come from.
In the databases "equal" is therefore meant up to what `Payload` says of a write's columns: up to
those that became NULL. A queued operation with bytes is outside their conditions: its replay
raises without any of the model's faults, as a poisoned one does.

Runs that find the code to disagree with what the repository says:

| Run | Property | What happens |
|---|---|---|
| `LostWindow` | `NoChangeSkipped` | A user writes between detection and `get_current_version` (`engine.py:239-271`). The cursor jumps over the write; it is never synchronized. |
| `ConflictWinner` | `LatestEditWins` | "Prioridad temporal" compares the moments of detection. The remote side is read second and wins. |
| `PoisonedQueue` | `CyclesRecover` | An INSERT fails once, is queued, and succeeds on retry. Its pending row is replayed by the next cycle, hits the duplicate key and fails this cycle and all others. |
| `EchoWins` | `Agreement` | Only local users write. Crash after the commit of their UPDATE at the remote side; then they delete the row. The next cycle sees a conflict between the DELETE and the service's own UPDATE, which wins, matches no row at the local side and counts as delivered. The row stays on the remote side for good. |
| `DeadConnection` | `SurvivesOutages` | A server outage kills the connection; `connect()` keeps the object and every later cycle fails, long after the outage. |
| `TornBatch` | `BatchesAreTransactional` | The job's cycle overlaps the initial one, and a commit of one takes half of the other's batch with it. |

A run shows that such a thing happens; theorems (section 4) show how far it reaches. Only
a write during a cycle can be skipped (`NothingIsSkipped`), and it stays lost until somebody
writes the row again (`SkippedIsLost`). Which operation wins a conflict
depends on the moments of detection and on two unrelated counters alone
(`ConflictsIgnoreUsers`). Once the queue holds an insertion of a row that is there, no cycle
ever gets past the replay (`PoisonIsForever`); without insertions and faults no cycle fails
(`OnlyInsertionsFail`). A dead connection stays dead until the process stops
(`DeadForGood`).

These disagreements bound the runs that pass. Convergence is only asked where
they are out of reach: users write between cycles (`EditInCycle = FALSE`, no lost
window; theorem `NothingIsSkipped` and `NoChangeSkipped` in `TwoWayUpdates`), and do not
delete. `OneWay` has no faults, because a failed INSERT
poisons the queue; `TwoWayUpdates` has two, because a repeated UPDATE is
harmless. Deletes are left out of `OneWay` because a row deleted and inserted
again between two cycles is reported as an insertion and collides as in
`PoisonedQueue` (no run shows this second way to it). `CursorSkipsNothingDetected` and `NoEcho` make an exception for
writes younger than the detection, and hold with users writing at any moment.

### Bounds

* `Faults`, `TwoWayUpdates`: two records of one table. Two are needed for a
  direction with a committed and a failed batch (`BatchSize` 1) and for a
  transaction of two statements that is rolled back as a whole (`BatchSize` 2).
* `OneWay`: two records in two tables, so that the version a table is stamped
  with includes the other table's changes, as the code's does.
* Single-record runs need one record only; the violations found there exist in
  larger instances.
* `MaxRetries` 2: a failed attempt followed by a successful one, and giving up.
  A third attempt repeats the first.
* `MaxEdits` 2 or 3: a conflict takes two writes, a newer write after it a third.
* `MaxFaults` 2: a failure and a second one during its handling or repetition.
* `Service`: the threshold and timeouts of `config.yaml` in minutes (5 failures,
  timeout 5, half-open timeout 1), with intervals of 4, 5 and 6. With 4 an open
  breaker stays open until the process ends (`ShutUntilRestart`, theorem `NeverProbed`), with
  6 it is always probed and closes (`OpenIsProbed`, `TroubleOverBreakerCloses`); the shipped 5
  (`src/config/config.yaml:4` and `:33`) lies on the border, where a model in
  minutes cannot tell the two delays in question (of a trigger and of a refusal)
  apart: only the first two properties are asked of it. `DeadConnection` has the interval 6,
  so that the breaker is probed and what keeps it open is the connection.
* `Connector`: the two threads that can run cycles, and one health handler (a
  second one would repeat it); batches of two statements, the least that can be
  torn; two calls each, a failed one and one that finds what it left; three
  connections, the first, one opened after `stop()` and one opened at the same
  time by another thread; one fault, which a rollback on the dead connection
  follows without a second.
* `Pure`: three tables are enough for a cycle through a third table beside a
  repeated entry; the lists include unknown names, an empty batch size and a name
  listed twice. One column each of the kinds the detector
  tells apart (key, plain or binary content, generated, version column), two plain values and
  one of bytes, which keys may have too.

Deadlock is checked in the runs of `SyncEngine` and `Service`: the next cycle can
always start, and time passes. The threads of `Connector` stop after `MaxCalls`
calls, and the algorithms of `Pure` end.

### Fairness

`SyncEngine`: weak fairness of the cycle's steps as a whole. The interval trigger
keeps starting cycles, and a running cycle is a thread that is scheduled and whose
statements return or raise. The last is an assumption: the code sets a timeout for logging in
only (`config_loader.py:39`, `base.py:68`), and a statement that waits for ever would hold its
cycle for ever. Users and faults
get no fairness; they are bounded, so that they stop eventually, which is what
convergence is conditional on.

`Service`: weak fairness of each thread's step, of the trigger (APScheduler), of
exit and restart (the interpreter, `Restart=always`), and of time. None for
signals and for trouble. A `running` cycle, which met no trouble, has only
`CycleSucceeds`, one that is `hit` also `CycleFails`, and one on a dead connection only that;
so fairness of a thread's step decides nothing in the code's place, but for the assumption on
statements made above.

`Connector` and `Pure` have safety properties only.

## 4. Proofs

Every theorem holds for all values of the constants that satisfy the named
assumptions of the modules: finitely many records and threads, at least one table,
positive batch sizes (checked by `validate_table_dependencies`), at least one
attempt, positive thresholds, timeouts and intervals, a key among the columns of a
row without a generated column, and hexadecimal texts that are neither plain values nor bytes;
`ConfigurationsAssumption` only gives the fields of a table their types. Some theorems of
`CursorProofs` and `AgreementProofs` have hypotheses about users and faults, discussed there.

`SyncEngineProofs`:

* `TypeCorrect` (`Spec => []TypeOK`). `TypeOK` is not inductive: the operation an
  index names is typed only if the index is in the list at work, and the list
  changes with the phase. `Shape` adds that `todo` and `batch` index
  `pending[source]` while replaying and `plan[source]` while executing, that an
  attempt is running then, and that a table is at work. `DetectedType`,
  `ListingType` and `OrderingType` say what detection and `resolve()` return.
* `CompletedWasDelivered` (`Spec => []CompletedIsDelivered`). The strengthening
  is `MarkedIsDelivered`: the batch being marked was committed. `OtherSteps`
  collects the steps that touch neither the queue nor what was delivered.
* `CursorsWait` (`Spec => CursorWaitsForBothDirections`). `Progress` says what the
  phases know: during execution an operation in neither `todo` nor `batch` was
  committed; once the remote direction is at work the local plan was; at the
  stamps both were. `CursorsBounded` says that no cursor exceeds its database's
  version. `ApplySteps` and `StampSteps` list the ways into these phases, and
  `CursorSteps` shows that nothing else moves a cursor.

`CursorProofs` relates the cursors to what was changed, detected, planned, delivered
and queued, for any schedule of users, faults and crashes:

* `CursorSkipsNothing` (`Spec => CursorSkipsNothingDetected`),
  `PendingBehindIsRepetition` (`Spec => []PendingBehindCursorIsRepetition`),
  `FailedIsDetectedAgain` (`Spec => []FailureKeepsWork`) and
  `OwnWritesAreBehind` (`Spec => []NoEcho`).
* None of the four is inductive. `WorkInv` says phase by phase what a cycle knows of
  the changes ahead of the cursors of the table at work: after the local detection
  they are among `found` (`FoundInv`); from `resolve()` to the stamps they are in the
  plan or waived (`PlanCovers`), and the plan is ahead of the cursors (`PlanAhead`);
  tables before it have nothing ahead (`TablesDone`); each time but for writes younger
  than the detection. What is queued was delivered by the replay or is in the plan
  (`PendingKept`), and a direction that fails has a plan (`FailHasPlan`).
* `Bounds` (versions and clocks bound what they number) and `Locks` (only a batch at work
  holds locks, of its table) are what the steps need of the databases.
* Two lemmas carry the detection: `DetectedIsAhead`, one operation per change ahead of
  the cursor with the version it has now, and `KeptOrLost`, `resolve()` drops an
  operation only if both are deletions or the opponent is kept.
* `NothingIsSkipped` (`EditInCycle = FALSE` implies `Spec => []NoChangeSkipped`): for users
  who write between cycles, whatever they do and whatever fails. The hypothesis is what
  `LostWindow` drops. `ReadIsFresh` says what it buys: no record of the table at work was
  written since the table was read, so that the plan covers all that a stamp passes.
* `SkippedIsLost`: a skipped change (`Skipped`) remains one in every step that does not
  change the row. `AccountSteps` bounds what a step can still deliver or waive: changes ahead
  of the cursor, and repetitions; a skipped change is neither.
* `ConflictsHaveOneWinner` (`Spec => []NoRecordTwice`) and `ConflictsIgnoreUsers`
  (`Spec => [][DecidedByDetection]_vars`) are about resolution. `ResolvedConflicts` says what
  `resolve()` makes of any two sets of operations with each record once, `PlanMoves` that
  plans come from it and go with the table. For the winner `StampedFirst` adds that the
  local operations carry the earlier stamp. The users' clock does not occur in
  `DecidedByDetection`, and that is its point.

`AgreementProofs`:

* `DatabasesAgree` (`Orderly` implies `Spec => []Agreement`): users insert and update,
  between cycles; faults and crashes are unrestricted. Without either hypothesis it is
  false: `EchoWins` is a deletion, `LostWindow` a write during a cycle. `AgreeInv` adds to
  `WorkInv` that rows never go away (`RowsStay`); that what differs is ahead of a cursor
  (`DiffersVisibly`); that a row the other side lacks will be detected as an insertion
  (`Born`), so that no UPDATE is sent to a row that is not there, where it would do
  nothing and count as delivered; that the plan carries the rows as they are, each record one
  way (`PlanIsCurrent`, `PlanOneWay`); and that each row that differs is still to come in
  the running attempt, or the attempt is over and none is left (`PlanRepairs`).
  `RowMoves` says who may change a row, `ExecutionSettles` that a commit settles its
  records.
* `CompletedIsEqual` (`Orderly` implies `Spec => []CompletedMeansEqual`): after a cycle that
  reports COMPLETED the databases differ only in rows written since. It joins `AgreeInv` (what
  differs is ahead of a cursor) with `NoEcho` (what is ahead was written since). Without
  `Orderly` the same counterexamples apply.
* `UsersAreLeftAlone` (`NeverDelete` and `NoFaults` imply `Spec => UsersOwnTheirSide`) and
  `SoleSideIsFollowed` (for the same, no cycle fails): users of one side insert and
  update, also while a cycle runs. A deletion would let a row be inserted again and
  collide; a failed INSERT would be replayed (`PoisonedQueue`). The two results need each
  other: content can only come back after a cycle that stopped half-way, and no cycle stops
  because no insertion meets a row. `OwnInv` says that what is ahead of the cursor at the side
  without users is the work of the table at hand (`MirrorQuiet`), that a row the other
  side has will not be detected as an insertion again (`MirrorFollows`), and that the
  insertions not yet applied have no row, in the database or in the open transaction
  (`InsertsFit`), which takes a plan with each record once (`PlanFollows`,
  `ListingIsInjective`).
* `OnlyInsertionsFail` (`NoFaults` and `NeverInsert` imply that no cycle fails): users of
  both sides, who update and delete at any moment. `PlainInv` says that nothing was
  inserted since tracking began, so that nothing is detected, planned or written as an
  insertion, and that nothing failed. UPDATE and DELETE never raise by themselves: they
  match no row, which `EchoWins` is about.
* `PoisonIsForever` (`NeverDelete` implies, for every direction `s` and operation `k`: once
  the service is idle and pending operation `k` of `s` inserts a row that is there, this
  stays so, and `pc` never leaves `idle`, `replay` and `mark`). Users may write at any moment;
  crashes and faults do not help. `Stuck` says that a replay of `s` still has `k` before
  it and marks no row with its change: `_mark_pending_completed` matches rows by their change,
  so a batch could complete `k` through another row of the queue. `KnownInv` excludes that:
  operations with the same change agree on being insertions (`KnownAgree`), since a row keeps
  its creation while its change is ahead of the cursor (`KnownIsCurrent`); the other
  row would be an insertion too, and no batch with one on that record commits. `PoisonedQueue`
  shows that the hypothesis is reached.

`OutboxProofs`: `EngineImplementsOutbox` (`Spec => ImplementsOutbox`). The invariant
behind the mapping, `RefinementInv`, joins the two invariants above with
`PlanIsAtWork`: between cycles, in detection and in replay there is no plan. Each group of
steps is shown to be one operation of `Outbox` or a stutter: writes and commits
(`WriteRefines`, `CommitRefines`), marks, the queue, the stamps, `resolve()`, and the
steps that change nothing `Outbox` sees (`Invisible`). The guards of `Complete` and
`Advance` are where the two invariants are needed.

`ServiceProofs`:

* `TypeCorrect`, `FieldsAgree` (`Spec => []FieldsMatchState`), `ProbeStaysAlive`
  (`Spec => []ProbeIsAlive`): two threads, access by access, and the scheduler. `FieldInv` says
  what the fields are while one thread alone is inside a method, point by point (`At`);
  `AccessAlone` shows that each access leads from the fields of a point to those of the next,
  and `TickKeeps` that time does not disturb them. The probe needs no such agreement:
  `MainIsFirst` says that main asks a fresh breaker before the job runs, so that main is admitted at
  its first access and only the job can half-open, and that a process that is down left
  nothing behind. `IInv` joins them.
* `NeverProbed` (`Spec => []RefusedForever /\ ShutUntilRestart`): with an interval below the
  timeout the breaker is never half-open, and once it is open and the initial cycle is over it
  stays open until the process ends. Both except a race (`raced`); before the initial cycle is
  over, its success may still close a breaker that the job opened. `Impatient` says why: of the
  cycles that could end otherwise none is left when the breaker is open (`Refusing`), and between
  two tests of the job lies at most an interval, while each refusal starts the timeout anew.
* `DeadForGood` (`Spec => [][DeadUntilStopped]_vars`): while the process is up nothing
  replaces a dead connection, and once no success from before it died is being recorded
  (`Recording`) none is again while it is dead, so that failures only add up and a breaker that is
  not closed does not close. `DeadIsMet` says that every cycle there is will meet the dead
  connection. With `TroubleOverBreakerCloses` this separates trouble that ends from what it
  leaves behind.

`ConnectorProofs`: `DepthIsCounted` (`Spec => []DepthCounts`). Each step of a thread
stays on its side of the bounds of `transaction()`, enters or leaves
(`Stays`, `Enters`, `Leaves`); `Points` adds that only cycles open transactions.
`TypeCorrect` (`Spec => []TypeOK`) follows from it with `Begun`: a thread at a point of a
call has begun one, of the kind that has this point.

`SolitaryBatchIsAtomic`, `SolitaryReportIsDurable` and `FailureLeavesNothing`
(`AloneIsAtomic`, `AloneIsDurable`, `NoStrayWork`) are proved together, since each is
needed for the others: a batch is only atomic if its session held nothing before. The
invariant is `CallInv`. A call that meets no other cycle (`Solitary`; `Overlaps`: of two
cycles at work the later one saw the other) owns the depth and its session's work, and
`Progress` says at each point which of its statements are there, committed or gone;
`Fresh` says that a call that has not begun has none, `Sessions` that a session that is
not open holds nothing. Health handlers, `stop()`, dying sessions, lost acknowledgements and
calls that do overlap take steps in between; `Additions` bounds what a step of another
thread can do to a call's statements.

`DependenciesProofs`: `VerdictsAreRight` (`Spec => []VerdictIsRight`), for lists of
any length. The invariant counts: a degree is the number of entries less the visited
parents, and entries cover parents, so a name is queued only when all its parents were
visited (`ParentsWereVisited`), and no set of tables that wait for each other is ever
met (`AvoidsCycles`). What is left when the queue is empty is such a set, unless an
entry is repeated (`EntriesWithoutRepetition`). `RunnableIsAccepted` relates the check to the
order the engine uses: the check does not look at the order fields, and the engine looks
at nothing else, yet a list whose order puts parents first, with entries that are right
and given once, is never rejected, because in a cycle the table with the least order
would have a parent with a lesser one (`OrderedIsAcyclic`).

`PayloadProofs`: `CopyFollows` (`RowSpec => []CopyFollowsRow`), for any columns, keys and values.
`PayloadInv` adds that the copy has the row's key as long as the row is there and nothing was
refused, which an UPDATE or DELETE that misses its row relies on. Values SQL Server converts are
the row's (`ConvertedIsExact`); those it does not are the JSON of bytes (`UnconvertedHasBytes`), and a
payload it does not accept has them, or a generated column that `T.*` brought
(`UnacceptedIsHarmed`).

Model-checked only: the liveness properties (`CycleEnds`, `Converges`,
`OpenIsProbed`, `TroubleOverBreakerCloses`) and the liveness violations, which are out of
the prover's reach (as is `ENABLED`, which fairness needs); and `ShippedIsRunnable`,
which is about the one list of tables in `src/config/tables.yaml` and evaluated by TLC;
`RunnableIsAccepted` is its general form. Every other
property of a passing run is a theorem.

## 5. Not modelled

* Two cycles at once on one engine: `Service` has them for the breaker and
  `Connector` for the connections, but `SyncEngine` is the engine with one cycle at a
  time, which is what `max_instances=1` gives after the initial cycle. So the race of
  two `ensure_initialized` is left out too.
* Retention of Change Tracking (`CHANGE_RETENTION = 7 DAYS`): nothing in the code looks
  at the minimum valid version.
* Record ids as texts: keys that contain `|`, and stored operations without
  `pk_values`. A record is a name.
* The order of rows queued within one tick of `CreatedDate`; a table that is disabled
  while operations of it are pending.
* Foreign keys, and isolation levels beyond the locks of written rows. The order in which
  children and parents are written is only covered by the tables' order
  (`ShippedIsRunnable`).
* Conversions by SQL Server are external to the code: that it converts texts to
  numbers and dates but not to binary columns, and takes no value for a timestamp column, are
  assumptions of `Payload`.
* Logging, metrics, the reading of files and environment variables, the wording of
  exceptions: input and output without a state of their own.

## 6. Plan

What is open:

1. Two cycles at once in `SyncEngine`, if the state space allows it: one plan and one
   `pc` per thread, with the race of two `ensure_initialized`.
2. `DatabasesAgree` for users who delete, under a condition on crashes that excludes
   `EchoWins`.
3. The liveness properties, should the prover come to treat fairness: `SkippedIsLost`,
   `PoisonIsForever` and `DeadForGood` are the safety halves of their violations.
