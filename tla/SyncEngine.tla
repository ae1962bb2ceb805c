----------------------------- MODULE SyncEngine -----------------------------
(***************************************************************************)
(* The synchronization cycle of src/core/engine.py, with the change        *)
(* detector, the batch processor and the state manager it drives, two      *)
(* databases with change tracking, the users who write to them while a     *)
(* cycle runs, failing statements and crashes.                             *)
(*                                                                         *)
(* One cycle runs at a time.  A step is one statement on one database (or  *)
(* one in-memory decision); an open transaction holds the locks of the     *)
(* rows it wrote.  A direction is named by its source: Local is            *)
(* LOCAL_TO_REMOTE, whose SyncControl row and pending operations are kept  *)
(* in the local database, and Remote is REMOTE_TO_LOCAL.                   *)
(***************************************************************************)
EXTENDS ConflictResolver, FiniteSets

CONSTANTS
  NumTables,   \* number of enabled tables
  TableOf,     \* position of a record's table in the sorted list self.tables
  BatchSize,   \* batch_size of each table
  MaxRetries,  \* attempts of _execute_with_retry
  Writers,     \* the sides on which users write
  EditKinds,   \* what users do to rows: OperationType or less
  EditInCycle, \* whether users also write while a cycle runs
  MaxEdits,    \* bound on the number of user writes
  MaxFaults    \* bound on the number of failing calls and crashes

Local  == "local"
Remote == "remote"
Side   == {Local, Remote}
Tables == 1..NumTables

Other(s) == IF s = Local THEN Remote ELSE Local

ASSUME ConfigAssumption ==
  /\ IsFiniteSet(Record)
  /\ NumTables \in Nat \ {0}
  /\ TableOf \in [Record -> Tables]
  /\ BatchSize \in [Tables -> Nat \ {0}]
  /\ MaxRetries \in Nat \ {0}
  /\ Writers \subseteq Side
  /\ EditKinds \subseteq OperationType
  /\ EditInCycle \in BOOLEAN
  /\ MaxEdits \in Nat
  /\ MaxFaults \in Nat

VARIABLES
  \* The two databases.
  rows,      \* rows[s][r]: content of the row
  changed,   \* changed[s][r]: SYS_CHANGE_VERSION of its last change, 0 if none
  created,   \* created[s][r]: SYS_CHANGE_CREATION_VERSION
  version,   \* version[s]: CHANGE_TRACKING_CURRENT_VERSION()
  control,   \* SyncControl: control[s][t]
  pending,   \* PendingOperations: the position of a row is its Id
  \* The transaction the batch processor has open on Other(source).
  draft,     \* uncommitted contents of the rows it wrote
  touched,   \* the rows it wrote and therefore locks
  inserted,  \* those among them it inserted
  \* The locals of run_cycle and of the calls below it.
  pc,
  table,     \* position of the table at work, 0 for none
  source,    \* source of the direction at work
  found,     \* local_changes
  plan,      \* plan[s]: the ConflictResolutionResult list of direction s
  todo,      \* indexes of the operations the chunk iterator has not yielded
  batch,     \* indexes of the operations of the current batch
  attempt,   \* tenacity's attempt number
  lastStatus,\* _last_cycle_status
  \* History, read by no action of the service.
  delivered, \* delivered[s]: <<record, version>> of operations committed at Other(s)
  waived,    \* waived[s]: <<record, version>> of the changes of s that need no
             \* delivery: the service's own, and those resolve() dropped
  edited,    \* edited[s][r]: when users last wrote the record, 0 if never
  seen,      \* seen[s][t]: when table t of s was last read for changes
  clock,     \* number of the last user write
  faults     \* number of faults so far

database == <<rows, changed, created, version>>
txn      == <<draft, touched, inserted>>
cycle    == <<pc, table, source, found, plan, todo, batch, attempt, lastStatus>>
history  == <<delivered, waived, edited, seen, clock>>
vars     == <<database, control, pending, txn, cycle, history, faults>>

-----------------------------------------------------------------------------
Phase == {"idle", "replay", "mark", "detectLocal", "detectRemote",
          "apply", "fail", "queue", "stampLocal", "stampRemote"}

ControlRow == [version : Nat,
               status  : {"ABSENT", "INITIALIZED", "COMPLETED", "FAILED"}]
PendingRow == [op : SyncOperation, status : {"PENDING", "COMPLETED"}]

NoPlan  == [s \in Side |-> <<>>]
NoDraft == [r \in Record |-> Absent]

\* Change tracking was enabled on tables that hold the same rows; setup_db.sql
\* may or may not have created the SyncControl rows.
Init ==
  /\ \E base \in SUBSET Record :
       rows = [s \in Side |-> [r \in Record |-> IF r \in base THEN 1 ELSE Absent]]
  /\ changed = [s \in Side |-> [r \in Record |-> 0]]
  /\ created = [s \in Side |-> [r \in Record |-> 0]]
  /\ version = [s \in Side |-> 0]
  /\ \E st \in {"ABSENT", "INITIALIZED"} :
       control = [s \in Side |-> [t \in Tables |-> [version |-> 0, status |-> st]]]
  /\ pending = [s \in Side |-> <<>>]
  /\ draft = NoDraft /\ touched = {} /\ inserted = {}
  /\ pc = "idle" /\ table = 0 /\ source = Local /\ found = {} /\ plan = NoPlan
  /\ todo = {} /\ batch = {} /\ attempt = 0 /\ lastStatus = "PENDING"
  /\ delivered = [s \in Side |-> {}] /\ waived = [s \in Side |-> {}]
  /\ edited = [s \in Side |-> [r \in Record |-> 0]]
  /\ seen = [s \in Side |-> [t \in Tables |-> 0]]
  /\ clock = 1 /\ faults = 0

-----------------------------------------------------------------------------
(***************************************************************************)
(* Users, and change tracking under their writes.  A row the open          *)
(* transaction has written is locked.                                      *)
(***************************************************************************)
Target == Other(source)

UserWrite(s, r, kind) ==
  /\ clock <= MaxEdits
  /\ s \in Writers /\ kind \in EditKinds
  /\ EditInCycle \/ pc = "idle"
  /\ ~(s = Target /\ r \in touched)
  /\ kind = "I" <=> rows[s][r] = Absent
  /\ clock' = clock + 1
  /\ rows' = [rows EXCEPT ![s][r] = IF kind = "D" THEN Absent ELSE clock']
  /\ version' = [version EXCEPT ![s] = @ + 1]
  /\ changed' = [changed EXCEPT ![s][r] = version'[s]]
  /\ created' = IF kind = "I" THEN [created EXCEPT ![s][r] = version'[s]] ELSE created
  /\ edited' = [edited EXCEPT ![s][r] = clock']
  /\ UNCHANGED <<control, pending, txn, cycle, delivered, waived, seen, faults>>

-----------------------------------------------------------------------------
(***************************************************************************)
(* Control flow shared by the steps below.                                 *)
(***************************************************************************)
CloseTxn == draft' = NoDraft /\ touched' = {} /\ inserted' = {}

\* The cycle returns or raises: its locals are gone.
EndCycle(status) ==
  /\ pc' = "idle" /\ table' = 0 /\ source' = Local /\ found' = {} /\ plan' = NoPlan
  /\ todo' = {} /\ batch' = {} /\ attempt' = 0 /\ lastStatus' = status
  /\ CloseTxn

PendingIds(s) == {i \in DOMAIN pending[s] : pending[s][i].status = "PENDING"}

\* Mutant: the loop over the tables does not advance.
NextTable_Stays ==
  /\ pc' = "detectLocal"
  /\ source' = Local /\ found' = {} /\ plan' = NoPlan
  /\ todo' = {} /\ batch' = {} /\ attempt' = 0
  /\ UNCHANGED <<table, lastStatus, txn>>

\* The next table of run_cycle's loop, or the end of a successful cycle.
NextTable ==
  IF table < NumTables
  THEN /\ pc' = "detectLocal" /\ table' = table + 1
       /\ source' = Local /\ found' = {} /\ plan' = NoPlan
       /\ todo' = {} /\ batch' = {} /\ attempt' = 0
       /\ UNCHANGED <<lastStatus, txn>>
  ELSE EndCycle("COMPLETED")

\* Tenacity calls _execute_sync with the lists of this cycle.
Attempt(n) ==
  /\ pc' = "apply" /\ attempt' = n
  /\ source' = Local /\ todo' = DOMAIN plan[Local] /\ batch' = {}
  /\ CloseTxn
  /\ UNCHANGED <<table, found, plan, lastStatus>>

\* Mutant: the number of attempts is checked after the call.
RetryOrRaise_OneMore ==
  IF attempt <= MaxRetries THEN Attempt(attempt + 1) ELSE EndCycle("FAILED")

\* Mutant: the last attempt's exception is swallowed.
RetryOrRaise_Swallows ==
  IF attempt < MaxRetries THEN Attempt(attempt + 1)
  ELSE /\ pc' = "stampLocal" /\ todo' = {} /\ batch' = {} /\ CloseTxn
       /\ UNCHANGED <<table, source, found, plan, attempt, lastStatus>>

\* An attempt raised: another one, or the exception leaves run_cycle.
RetryOrRaise ==
  IF attempt < MaxRetries THEN Attempt(attempt + 1) ELSE EndCycle("FAILED")

\* _process_direction handles the exception of a batch, for its whole list.
DirectionRaises ==
  /\ pc = "apply"
  /\ pc' = "fail" /\ todo' = DOMAIN plan[source] /\ batch' = {}
  /\ CloseTxn
  /\ UNCHANGED <<table, source, found, plan, attempt, lastStatus>>

\* Mutant: _replay_pending swallows the exception and marks the batch.
BatchRaises_Swallowed ==
  \/ /\ pc = "replay" /\ pc' = "mark" /\ CloseTxn
     /\ batch' = IF batch = {} THEN {i \in todo : \A j \in todo : i <= j} ELSE batch
     /\ todo' = todo \ batch'
     /\ UNCHANGED <<table, source, found, plan, attempt, lastStatus>>
  \/ DirectionRaises

\* process_changes raised, and the transaction was rolled back: _replay_pending
\* lets the exception through.
BatchRaises ==
  \/ pc = "replay" /\ EndCycle("FAILED")
  \/ DirectionRaises

-----------------------------------------------------------------------------
(***************************************************************************)
(* run_cycle up to the replay: the preconditions hold and the pending      *)
(* operations of both sides are loaded.  Nothing queues operations before  *)
(* the replay is over, so the remote ones are listed when their turn comes.*)
(***************************************************************************)
StartCycle ==
  /\ pc = "idle"
  /\ pc' = "replay" /\ source' = Local /\ todo' = PendingIds(Local)
  /\ UNCHANGED <<database, control, pending, txn, table, found, plan, batch,
                 attempt, lastStatus, history, faults>>

NextReplay ==
  /\ pc = "replay" /\ todo = {} /\ batch = {}
  /\ IF source = Local
     THEN /\ source' = Remote /\ todo' = PendingIds(Remote) /\ table' = 0
          /\ UNCHANGED <<pc, found, plan, batch, attempt, lastStatus>>
     ELSE /\ pc' = "detectLocal" /\ source' = Local /\ table' = 1
          /\ UNCHANGED <<found, plan, todo, batch, attempt, lastStatus>>
  /\ UNCHANGED <<database, control, pending, txn, history, faults>>

-----------------------------------------------------------------------------
(***************************************************************************)
(* BatchProcessor.process_changes, called by the replay of the pending     *)
(* operations and by the execution of a plan.  A batch is a run of at most *)
(* batch_size operations of one table, taken in the order of the list and, *)
(* for pending operations, table by table.                                 *)
(***************************************************************************)
Operation(i) == IF pc \in {"replay", "mark"} THEN pending[source][i].op ELSE plan[source][i]

\* The change of the source database an operation carries.
ChangeOf(op) == <<op.record, op.version>>

\* What remains of the table at work.
SameTable == {i \in todo : TableOf[Operation(i).record] = table}

BatchFull == batch # {} /\ (Cardinality(batch) = BatchSize[table] \/ SameTable = {})

IsNext(i) ==
  LET pool == IF SameTable = {} THEN todo ELSE SameTable
  IN  i \in pool /\ \A j \in pool : i <= j

Current(r) == IF r \in touched THEN draft[r] ELSE rows[Target][r]

\* _apply_operation: an INSERT of a key that exists raises; an UPDATE or DELETE
\* that matches no row does nothing.
ApplyOperation(i) ==
  LET op == Operation(i)
      r  == op.record
      writes == op.type = "I" \/ Current(r) # Absent
  IN  /\ pc \in {"replay", "apply"} /\ ~BatchFull /\ IsNext(i)
      /\ op.type = "I" => Current(r) = Absent
      /\ draft' = IF writes THEN [draft EXCEPT ![r] = op.data] ELSE draft
      /\ touched' = IF writes THEN touched \cup {r} ELSE touched
      /\ inserted' = IF op.type = "I" THEN inserted \cup {r} ELSE inserted
      /\ todo' = todo \ {i} /\ batch' = batch \cup {i} /\ table' = TableOf[r]
      /\ UNCHANGED <<database, control, pending, pc, source, found, plan, attempt,
                     lastStatus, history, faults>>

DuplicateKey(i) ==
  LET op == Operation(i)
  IN  /\ pc \in {"replay", "apply"} /\ ~BatchFull /\ IsNext(i)
      /\ op.type = "I" /\ Current(op.record) # Absent
      /\ BatchRaises
      /\ UNCHANGED <<database, control, pending, history, faults>>

\* The commit makes the drafts visible and tracks them as changes of Target.
Commit ==
  LET v == version[Target] + 1
  IN  /\ pc \in {"replay", "apply"} /\ BatchFull
      /\ rows' = [rows EXCEPT ![Target] =
                    [r \in Record |-> IF r \in touched THEN draft[r] ELSE @[r]]]
      /\ changed' = [changed EXCEPT ![Target] =
                       [r \in Record |-> IF r \in touched THEN v ELSE @[r]]]
      /\ created' = [created EXCEPT ![Target] =
                       [r \in Record |-> IF r \in inserted THEN v ELSE @[r]]]
      /\ version' = IF touched = {} THEN version ELSE [version EXCEPT ![Target] = v]
      /\ delivered' = [delivered EXCEPT ![source] = @ \cup
                         {ChangeOf(Operation(i)) : i \in batch}]
      /\ waived' = [waived EXCEPT ![Target] = @ \cup (touched \X {v})]
      /\ UNCHANGED <<control, pending, edited, seen, clock>>

CommitBatch ==
  /\ Commit
  /\ CloseTxn
  /\ \/ pc = "replay" /\ pc' = "mark" /\ UNCHANGED batch
     \/ pc = "apply" /\ batch' = {} /\ UNCHANGED pc
  /\ UNCHANGED <<table, source, found, plan, todo, attempt, lastStatus, faults>>

\* Mutant: a replayed row is deleted instead of marked.
MarkCompleted_Deletes(i) ==
  /\ pc = "mark" /\ i \in batch /\ \A j \in batch : i <= j
  /\ pending' = [pending EXCEPT ![source] = RemoveAt(@, i)]
  /\ batch' = batch \ {i}
  /\ pc' = IF batch' = {} THEN "replay" ELSE "mark"
  /\ UNCHANGED <<database, control, txn, table, source, found, plan, todo,
                 attempt, lastStatus, history, faults>>

\* _mark_pending_completed, one UPDATE per operation: it completes every row with
\* that record and version, whichever attempt queued it.
MarkCompleted(i) ==
  LET op == Operation(i)
  IN  /\ pc = "mark" /\ i \in batch /\ \A j \in batch : i <= j
      /\ pending' = [pending EXCEPT ![source] =
           [k \in DOMAIN @ |->
             IF @[k].op.record = op.record /\ @[k].op.version = op.version
             THEN [@[k] EXCEPT !.status = "COMPLETED"] ELSE @[k]]]
      /\ batch' = batch \ {i}
      /\ pc' = IF batch' = {} THEN "replay" ELSE "mark"
      /\ UNCHANGED <<database, control, txn, table, source, found, plan, todo,
                     attempt, lastStatus, history, faults>>

-----------------------------------------------------------------------------
(***************************************************************************)
(* _sync_table.                                                            *)
(***************************************************************************)

\* Mutant: the version after the last one is taken as synchronized too.
Detected_OffByOne(s, t, now) ==
  LET last == control[s][t].version
      Changes == {r \in Record : TableOf[r] = t /\ changed[s][r] > last + 1}
      Type(r) == IF rows[s][r] = Absent THEN "D"
                 ELSE IF created[s][r] > last THEN "I" ELSE "U"
  IN  {[record |-> r, type |-> Type(r), version |-> changed[s][r],
        data |-> rows[s][r], timestamp |-> now] : r \in Changes}

\* detect_changes: the net change of every record of table t since the version
\* in SyncControl, with the row as it is now.
Detected(s, t, now) ==
  LET last == control[s][t].version
      Changes == {r \in Record : TableOf[r] = t /\ changed[s][r] > last}
      Type(r) == IF rows[s][r] = Absent THEN "D"
                 ELSE IF created[s][r] > last THEN "I" ELSE "U"
  IN  {[record |-> r, type |-> Type(r), version |-> changed[s][r],
        data |-> rows[s][r], timestamp |-> now] : r \in Changes}

\* ensure_initialized of both directions: a SyncControl row that get_status does
\* not find is inserted.
EnsureInitialized ==
  control' = [s \in Side |-> [control[s] EXCEPT ![table].status =
                IF @ = "ABSENT" THEN "INITIALIZED" ELSE @]]

\* The cursors, then the local changes.
DetectLocal ==
  /\ pc = "detectLocal"
  /\ EnsureInitialized
  /\ found' = Detected(Local, table, 0)
  /\ seen' = [seen EXCEPT ![Local][table] = clock]
  /\ pc' = "detectRemote"
  /\ UNCHANGED <<database, pending, txn, table, source, plan, todo, batch, attempt,
                 lastStatus, delivered, waived, edited, clock, faults>>

\* The changes among ops that a conflict left out of the plan.
Lost(ops, others, winners) ==
  {ChangeOf(o) : o \in {o \in ops : \E p \in Opponents(o, others) :
                                     BothDelete(o, p) \/ p \in winners}}

\* resolve(), and the first attempt to execute its plan.
Resolve(theirs) ==
  LET out == LocalToRemote(found, theirs)
      in  == RemoteToLocal(found, theirs)
  IN  \E l \in Listings(out, theirs), r \in Listings(in, found) :
        /\ plan' = [s \in Side |-> IF s = Local THEN l ELSE r]
        /\ pc' = "apply" /\ attempt' = 1 /\ source' = Local
        /\ found' = {} /\ todo' = DOMAIN l
        /\ waived' = [waived EXCEPT ![Local]  = @ \cup Lost(found, theirs, in),
                                   ![Remote] = @ \cup Lost(theirs, found, out)]
        /\ UNCHANGED <<table, batch, lastStatus, txn>>

\* The remote changes, stamped no earlier than the local ones; with no change on
\* either side the table is done.
DetectRemote ==
  /\ pc = "detectRemote"
  /\ seen' = [seen EXCEPT ![Remote][table] = clock]
  /\ \E now \in {0, 1} :
       LET theirs == Detected(Remote, table, now)
       IN  \/ found \cup theirs = {} /\ NextTable /\ UNCHANGED waived
           \/ found \cup theirs # {} /\ Resolve(theirs)
  /\ UNCHANGED <<database, control, pending, delivered, edited, clock, faults>>

\* Mutant: REMOTE_TO_LOCAL is forgotten once LOCAL_TO_REMOTE is done.
NextDirection_OneWay ==
  /\ pc = "apply" /\ todo = {} /\ batch = {}
  /\ pc' = "stampLocal"
  /\ UNCHANGED <<database, control, pending, txn, table, source, found, plan, todo,
                 batch, attempt, lastStatus, history, faults>>

\* _execute_sync: from LOCAL_TO_REMOTE to REMOTE_TO_LOCAL, then out of the retry.
NextDirection ==
  /\ pc = "apply" /\ todo = {} /\ batch = {}
  /\ IF source = Local
     THEN source' = Remote /\ todo' = DOMAIN plan[Remote] /\ UNCHANGED pc
     ELSE pc' = "stampLocal" /\ UNCHANGED <<source, todo>>
  /\ UNCHANGED <<database, control, pending, txn, table, found, plan, batch, attempt,
                 lastStatus, history, faults>>

\* Mutant: the failure is recorded with update_status, which moves the version.
Failed_MovesVersion(s) ==
  control' = [control EXCEPT ![s][table] = [version |-> version[s], status |-> "FAILED"]]

\* mark_failure.
Failed(s) == control' = [control EXCEPT ![s][table].status = "FAILED"]

\* The except clause of _process_direction: mark_failure, ...
MarkFailure ==
  /\ pc = "fail"
  /\ Failed(source)
  /\ pc' = "queue"
  /\ UNCHANGED <<database, pending, txn, table, source, found, plan, todo, batch,
                 attempt, lastStatus, history, faults>>

\* ... then _queue_pending_operations on the whole list of the direction, one
\* INSERT per operation, ...
QueueOperation(i) ==
  /\ pc = "queue" /\ i \in todo /\ \A j \in todo : i <= j
  /\ pending' = [pending EXCEPT ![source] = Append(@,
       [op |-> [Operation(i) EXCEPT !.timestamp = 0], status |-> "PENDING"])]
  /\ todo' = todo \ {i}
  /\ UNCHANGED <<database, control, txn, pc, table, source, found, plan, batch,
                 attempt, lastStatus, history, faults>>

\* ... then raise.
RaiseProcessingError ==
  /\ pc = "queue" /\ todo = {}
  /\ RetryOrRaise
  /\ UNCHANGED <<database, control, pending, history, faults>>

\* Mutant: LastSyncVersion is the last version that was detected.
Stamp_LastDetected(s) ==
  LET versions == {control[s][table].version} \cup {plan[s][i].version : i \in DOMAIN plan[s]}
      last == CHOOSE v \in versions : \A w \in versions : w <= v
  IN  control' = [control EXCEPT ![s][table] = [version |-> last, status |-> "COMPLETED"]]

\* update_status with the version change tracking has reached by now.
Stamp(s) ==
  control' = [control EXCEPT ![s][table] =
                [version |-> version[s], status |-> "COMPLETED"]]

StampLocal ==
  /\ pc = "stampLocal"
  /\ Stamp(Local)
  /\ pc' = "stampRemote"
  /\ UNCHANGED <<database, pending, txn, table, source, found, plan, todo, batch,
                 attempt, lastStatus, history, faults>>

StampRemote ==
  /\ pc = "stampRemote"
  /\ Stamp(Remote)
  /\ NextTable
  /\ UNCHANGED <<database, pending, history, faults>>

-----------------------------------------------------------------------------
(***************************************************************************)
(* Faults.                                                                 *)
(***************************************************************************)
Fault == faults < MaxFaults /\ faults' = faults + 1

\* _validate_preconditions raises: breaker open, no network, a server is down.
PreconditionFails ==
  /\ pc = "idle" /\ Fault
  /\ lastStatus' = "FAILED"
  /\ UNCHANGED <<database, control, pending, txn, pc, table, source, found, plan,
                 todo, batch, attempt, history>>

\* A statement outside _execute_sync raises.
StatementFails ==
  /\ pc \in {"mark", "detectLocal", "detectRemote", "stampLocal", "stampRemote"} /\ Fault
  /\ EndCycle("FAILED")
  /\ UNCHANGED <<database, control, pending, history>>

\* A statement or the commit of a batch raises, and the batch is rolled back.
BatchFails ==
  /\ pc \in {"replay", "apply"} /\ (todo # {} \/ batch # {}) /\ Fault
  /\ BatchRaises
  /\ UNCHANGED <<database, control, pending, history>>

\* The commit reaches the server, its acknowledgement does not reach the service.
CommitUnacknowledged ==
  /\ Commit
  /\ BatchRaises
  /\ Fault

\* The except clause of _process_direction itself raises.
HandlerFails ==
  /\ pc \in {"fail", "queue"} /\ todo # {} /\ Fault
  /\ RetryOrRaise
  /\ UNCHANGED <<database, control, pending, history>>

\* The process dies and is started again.
Crash ==
  /\ pc # "idle" /\ Fault
  /\ EndCycle("PENDING")
  /\ UNCHANGED <<database, control, pending, history>>

-----------------------------------------------------------------------------
CycleStep ==
  \/ StartCycle \/ NextReplay
  \/ \E i \in todo : ApplyOperation(i)
  \/ \E i \in todo : DuplicateKey(i)
  \/ CommitBatch
  \/ \E i \in batch : MarkCompleted(i)
  \/ DetectLocal \/ DetectRemote \/ NextDirection
  \/ MarkFailure
  \/ \E i \in todo : QueueOperation(i)
  \/ RaiseProcessingError
  \/ StampLocal \/ StampRemote

FaultStep ==
  \/ PreconditionFails \/ StatementFails \/ BatchFails \/ CommitUnacknowledged
  \/ HandlerFails \/ Crash

UserStep == \E s \in Side, r \in Record, kind \in OperationType : UserWrite(s, r, kind)

Next == CycleStep \/ FaultStep \/ UserStep

Spec == Init /\ [][Next]_vars

\* The interval trigger starts the next cycle, and a thread that runs a cycle is
\* scheduled: every statement returns or raises.
FairSpec == Spec /\ WF_vars(CycleStep)

-----------------------------------------------------------------------------
(***************************************************************************)
(* Properties.                                                             *)
(***************************************************************************)
Change == Record \X Nat

\* The databases, the service's tables in them, and the history.
StoreTypeOK ==
  /\ rows \in [Side -> [Record -> Nat]]
  /\ changed \in [Side -> [Record -> Nat]]
  /\ created \in [Side -> [Record -> Nat]]
  /\ version \in [Side -> Nat]
  /\ control \in [Side -> [Tables -> ControlRow]]
  /\ pending \in [Side -> Seq(PendingRow)]
  /\ delivered \in [Side -> SUBSET Change]
  /\ waived \in [Side -> SUBSET Change]
  /\ edited \in [Side -> [Record -> Nat]]
  /\ seen \in [Side -> [Tables -> Nat]]
  /\ clock \in Nat /\ faults \in Nat

\* The open transaction and the locals of the cycle.
CycleTypeOK ==
  /\ draft \in [Record -> Nat] /\ touched \subseteq Record /\ inserted \subseteq touched
  /\ pc \in Phase /\ table \in 0..NumTables /\ source \in Side
  /\ found \subseteq SyncOperation /\ plan \in [Side -> Seq(SyncOperation)]
  /\ todo \subseteq Nat /\ batch \subseteq Nat
  /\ attempt \in 0..MaxRetries
  /\ lastStatus \in {"PENDING", "COMPLETED", "FAILED"}

\* Every variable keeps its type, and tenacity never exceeds max_retries.
TypeOK == StoreTypeOK /\ CycleTypeOK

Cursor(s, r) == control[s][TableOf[r]].version
Visible(s, r) == changed[s][r] > Cursor(s, r)
Accounted(s, r) == <<r, changed[s][r]>> \in delivered[s] \cup waived[s]

\* A change a cursor jumps over was delivered to the other side, or is the
\* service's own write, or lost a conflict, or was made after the detection
\* read the table; whatever batches failed and were retried before.
CursorSkipsNothingDetected ==
  [][\A s \in Side, r \in Record :
       Visible(s, r) /\ changed[s][r] <= Cursor(s, r)' =>
         Accounted(s, r) \/ edited[s][r] > seen[s][TableOf[r]]]_vars

\* No exception for writes made during a cycle: a change behind the cursor was
\* delivered or needed no delivery.
NoChangeSkipped ==
  \A s \in Side, r \in Record :
    changed[s][r] # 0 /\ ~Visible(s, r) => Accounted(s, r)

\* LastSyncVersion only moves once the operations of both directions have been
\* committed: a cursor never gets ahead of the other direction's failures.
CursorWaitsForBothDirections ==
  [][\A s \in Side, t \in Tables :
       control'[s][t].version # control[s][t].version =>
         /\ control'[s][t].version > control[s][t].version
         /\ \A d \in Side : \A i \in DOMAIN plan[d] :
              ChangeOf(plan[d][i]) \in delivered[d]]_vars

\* A pending operation is marked COMPLETED only if it was committed at the other
\* side, whatever crashes between the commit and the mark.
CompletedIsDelivered ==
  \A s \in Side : \A k \in DOMAIN pending[s] :
    pending[s][k].status = "COMPLETED" => ChangeOf(pending[s][k].op) \in delivered[s]

\* A pending operation the cursor has passed is a repetition: it was delivered,
\* by a later attempt or by a replay whose mark was lost.
PendingBehindCursorIsRepetition ==
  \A s \in Side : \A k \in DOMAIN pending[s] :
    LET op == pending[s][k].op
    IN  op.version <= Cursor(s, op.record) => ChangeOf(op) \in delivered[s]

\* A direction marked FAILED is detected again: some change of its table is still
\* ahead of its cursor.
FailureKeepsWork ==
  \A s \in Side, t \in Tables :
    control[s][t].status = "FAILED" => \E r \in Record : TableOf[r] = t /\ Visible(s, r)

\* A plan has at most one operation on a record: a conflict has one winner, and its
\* loser is not sent the other way.
NoRecordTwice ==
  \A s, d \in Side : \A i \in DOMAIN plan[s], j \in DOMAIN plan[d] :
    plan[s][i].record = plan[d][j].record => s = d /\ i = j

\* The service does not detect its own writes: after a successful cycle only
\* what users wrote since the detection is left to detect.
NoEcho ==
  pc = "idle" /\ lastStatus = "COMPLETED" =>
    \A s \in Side, r \in Record : Visible(s, r) => edited[s][r] > seen[s][TableOf[r]]

\* COMPLETED, the status the service reports, means that both databases hold the same
\* rows, but for those written since their table was read.
CompletedMeansEqual ==
  pc = "idle" /\ lastStatus = "COMPLETED" =>
    \A r \in Record : rows[Local][r] # rows[Remote][r] =>
      \E s \in Side : edited[s][r] > seen[s][TableOf[r]]

\* A cycle ends, whatever fails in it: _execute_with_retry gives up.
CycleEnds == pc # "idle" ~> pc = "idle"

\* With nothing left to detect or to replay, both databases hold the same rows.
Agreement ==
  pc = "idle" /\ PendingIds(Local) \cup PendingIds(Remote) = {}
    /\ (\A s \in Side, r \in Record : ~Visible(s, r))
  => rows[Local] = rows[Remote]

\* Once users stop writing, the two databases become and stay equal.
Converges == <>[](rows[Local] = rows[Remote])

\* Nobody writes at the other side, so no content comes back from there: a row
\* at a side users write to changes by their writes only.
UsersOwnTheirSide ==
  [][\A s \in Writers, r \in Record :
       Writers = {s} /\ rows'[s][r] # rows[s][r] => edited'[s][r] # edited[s][r]]_vars

\* "Resuelve conflictos por prioridad temporal": the remote operation wins a
\* conflict only if its write is the later one.
LatestEditWins ==
  [][pc = "detectRemote" /\ pc' = "apply" =>
       \A o \in found : \A i \in DOMAIN plan'[Remote] :
         plan'[Remote][i].record = o.record =>
           edited[Local][o.record] <= edited[Remote][o.record]]_vars

-----------------------------------------------------------------------------
(***************************************************************************)
(* The cycle as an implementation of Outbox: PendingOperations is the      *)
(* queue, SyncControl the cursors, and the plan of the table at work what  *)
(* is taken up.                                                            *)
(***************************************************************************)
Entry(row) == [change |-> ChangeOf(row.op), done |-> row.status = "COMPLETED"]

Planned(s) == {ChangeOf(plan[s][i]) : i \in DOMAIN plan[s]}

Promise == INSTANCE Outbox WITH
  Source <- Side, Table <- Tables, Change <- Change,
  last   <- version,
  cursor <- [s \in Side |-> [t \in Tables |-> control[s][t].version]],
  open   <- [s \in Side |-> Planned(s)],
  queue  <- [s \in Side |-> [k \in DOMAIN pending[s] |-> Entry(pending[s][k])]]

\* Whatever fails, is retried or crashes: a queued operation stays queued until it
\* was delivered, only operations of the plan or of the queue are delivered, and
\* LastSyncVersion moves only when nothing of the plan is left.
ImplementsOutbox == Promise!Spec

\* A failed cycle is followed by a successful one.
CyclesRecover == []<>(lastStatus = "COMPLETED")
=============================================================================
