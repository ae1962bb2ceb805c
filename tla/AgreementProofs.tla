--------------------------- MODULE AgreementProofs ---------------------------
(***************************************************************************)
(* What the databases hold, under the users for which the synchronization  *)
(* keeps its promises, and where it stops keeping them.                    *)
(*                                                                         *)
(* Users who do not delete and who write between cycles: whatever fails or *)
(* crashes, two databases that have nothing left to synchronize are equal, *)
(* and COMPLETED means what it says.  EchoWins shows what deletions do to  *)
(* this, LostWindow what writes during a cycle do.                         *)
(*                                                                         *)
(* Users of one side who do not delete but write at any moment, and no     *)
(* faults: no cycle fails, and the service leaves the users' rows alone.   *)
(*                                                                         *)
(* Users of both sides who do not insert, and no faults: no cycle fails.   *)
(* With insertions one can, and a pending insertion of a row that the      *)
(* other side has ends every later cycle before it detects anything.       *)
(***************************************************************************)
EXTENDS CursorProofs

USE DEF Side, Other

\* The users of the theorems.
NeverDelete == "D" \notin EditKinds
Orderly == NeverDelete /\ EditInCycle = FALSE

Differs(r) == rows[Local][r] # rows[Remote][r]

-----------------------------------------------------------------------------
(***************************************************************************)
(* The invariant.  Rows never go away, so that every write of an operation *)
(* matches a row or inserts one; what differs is ahead of a cursor, then   *)
(* in the plan, and equal by the time the cursors are moved.               *)
(***************************************************************************)

\* A row that was ever changed is there.
RowsStay == \A s \in Side, r \in Record : changed[s][r] # 0 => rows[s][r] # Absent

\* An operation that is no deletion, on a row that is still there.
Present(s, op) == op.type # "D" /\ op.data # Absent /\ rows[s][op.record] # Absent

QueuePresent == \A s \in Side : \A k \in DOMAIN pending[s] : Present(s, pending[s][k].op)

\* A row the other side lacks will be detected as an insertion.
Born == \A s \in Side, r \in Record :
  rows[s][r] # Absent /\ rows[Other(s)][r] = Absent => created[s][r] > Cursor(s, r)

DiffersVisibly == \A r \in Record : Differs(r) => \E s \in Side : Visible(s, r)

FoundIsCurrent == pc = "detectRemote" => found = Detected(Local, table, 0)

\* An operation of the plan carries the row as it is, and has a row to update.
Carries(s, op) ==
  /\ Present(s, op) /\ op.data = rows[s][op.record]
  /\ op.type = "U" => rows[Other(s)][op.record] # Absent

PlanIsCurrent == pc \in Executing =>
  \A s \in Side : \A i \in DOMAIN plan[s] : Carries(s, plan[s][i])

\* No record is in both lists.
PlanOneWay == pc \in Executing =>
  \A i \in DOMAIN plan[Local], j \in DOMAIN plan[Remote] :
    plan[Local][i].record # plan[Remote][j].record

\* Operation i of direction s is still to come in this attempt.
ToCome(s, i) == (s = source /\ i \in todo \cup batch) \/ (s = Remote /\ source = Local)

PlanRepairs ==
  /\ pc \in Executing => \A r \in Record : TableOf[r] = table /\ Differs(r) =>
       \E s \in Side : \E i \in DOMAIN plan[s] :
         plan[s][i].record = r /\ (pc = "apply" => ToCome(s, i))
  /\ pc \in Stamping => \A r \in Record : TableOf[r] = table => ~Differs(r)

\* What the open transaction writes is there at the source.
DraftPresent == \A r \in touched : draft[r] # Absent /\ rows[source][r] # Absent

\* While a plan is executed, the batch has written its records, with their contents.
BatchWritten == pc = "apply" =>
  /\ \A i \in batch : plan[source][i].record \in touched
  /\ \A r \in touched : /\ draft[r] = rows[source][r]
                        /\ \E i \in batch : plan[source][i].record = r

AgreeInv ==
  /\ WorkInv
  /\ RowsStay /\ QueuePresent /\ Born /\ DiffersVisibly
  /\ FoundIsCurrent /\ PlanIsCurrent /\ PlanOneWay /\ PlanRepairs
  /\ DraftPresent /\ BatchWritten

-----------------------------------------------------------------------------
(***************************************************************************)
(* What a step does to a row and to the open transaction.                  *)
(***************************************************************************)

\* A user's write is a row, ahead of the cursor.
WrittenByUser(s, r) ==
  /\ UserStep /\ s \in Writers
  /\ rows'[s][r] # Absent /\ changed'[s][r] > version[s]
  /\ IF rows[s][r] = Absent THEN created'[s][r] > version[s]
     ELSE created'[s][r] = created[s][r]

\* A committed write is a row that is at the source, too, and ahead of the cursor.
WrittenByBatch(s, r) ==
  /\ Commit /\ s = Target /\ r \in touched
  /\ rows'[s][r] = draft[r] /\ changed'[s][r] > version[s]
  /\ draft[r] # Absent /\ rows[source][r] # Absent

Untouched(s, r) ==
  rows'[s][r] = rows[s][r] /\ changed'[s][r] = changed[s][r] /\ created'[s][r] = created[s][r]

LEMMA UserRows ==
  ASSUME Shape, NeverDelete, UserStep, NEW s \in Side, NEW r \in Record
  PROVE  Untouched(s, r) \/ WrittenByUser(s, r)
<1>1. PICK u \in Side, q \in Record, kind \in OperationType : UserWrite(u, q, kind)
  BY DEF UserStep
<1>2. /\ rows \in [Side -> [Record -> Nat]] /\ changed \in [Side -> [Record -> Nat]]
      /\ created \in [Side -> [Record -> Nat]] /\ version \in [Side -> Nat] /\ clock \in Nat
  BY DEF Shape, TypeOK, StoreTypeOK
<1>3. /\ u \in Writers /\ kind # "D" /\ clock' = clock + 1
      /\ rows' = [rows EXCEPT ![u][q] = clock']
      /\ version' = [version EXCEPT ![u] = @ + 1]
      /\ changed' = [changed EXCEPT ![u][q] = version'[u]]
      /\ created' = IF kind = "I" THEN [created EXCEPT ![u][q] = version'[u]] ELSE created
      /\ kind = "I" <=> rows[u][q] = Absent
  BY <1>1 DEF UserWrite, NeverDelete
<1>4. CASE u = s /\ q = r
  <2>1. version'[s] > version[s] /\ clock' # Absent
    BY <1>2, <1>3, <1>4 DEF Absent
  <2>2. rows'[s][r] # Absent /\ changed'[s][r] > version[s]
    BY <1>2, <1>3, <1>4, <2>1
  <2>3. CASE kind = "I"
    BY <1>2, <1>3, <1>4, <2>1, <2>2, <2>3 DEF WrittenByUser
  <2>4. CASE kind # "I"
    BY <1>3, <1>4, <2>2, <2>4 DEF WrittenByUser
  <2> QED
    BY <2>3, <2>4
<1>5. CASE ~(u = s /\ q = r)
  <2>1. created'[s][r] = created[s][r]
    BY <1>2, <1>3, <1>5
  <2> QED
    BY <1>2, <1>3, <1>5, <2>1 DEF Untouched
<1> QED
  BY <1>4, <1>5

LEMMA CommitRows ==
  ASSUME Shape, DraftPresent, Commit, NEW s \in Side, NEW r \in Record
  PROVE  Untouched(s, r) \/ WrittenByBatch(s, r)
<1> DEFINE v == version[Target] + 1
<1>1. /\ rows \in [Side -> [Record -> Nat]] /\ changed \in [Side -> [Record -> Nat]]
      /\ created \in [Side -> [Record -> Nat]] /\ version \in [Side -> Nat]
      /\ inserted \subseteq touched /\ Target \in Side
  BY DEF Shape, TypeOK, StoreTypeOK, CycleTypeOK, Target
<1>2. /\ rows' = [rows EXCEPT ![Target] = [q \in Record |-> IF q \in touched THEN draft[q] ELSE @[q]]]
      /\ changed' = [changed EXCEPT ![Target] = [q \in Record |-> IF q \in touched THEN v ELSE @[q]]]
      /\ created' = [created EXCEPT ![Target] = [q \in Record |-> IF q \in inserted THEN v ELSE @[q]]]
  BY DEF Commit
<1>3. CASE s = Target /\ r \in touched
  <2>1. rows'[s][r] = draft[r] /\ changed'[s][r] = version[s] + 1
    BY <1>1, <1>2, <1>3
  <2> QED
    BY <1>1, <1>3, <2>1 DEF WrittenByBatch, DraftPresent
<1>4. CASE ~(s = Target /\ r \in touched)
  BY <1>1, <1>2, <1>4 DEF Untouched
<1> QED
  BY <1>3, <1>4

LEMMA RowMoves ==
  ASSUME Shape, DraftPresent, NeverDelete, [Next]_vars, NEW s \in Side, NEW r \in Record
  PROVE  Untouched(s, r) \/ WrittenByUser(s, r) \/ WrittenByBatch(s, r)
<1>1. CASE DetectLocal \/ DetectRemote \/ UNCHANGED <<database, history>>
  BY <1>1 DEF DetectLocal, DetectRemote, database, Untouched
<1> QED
  BY <1>1, DataSteps, UserRows, CommitRows

\* Rows never go away.
LEMMA PresenceGrows ==
  ASSUME Shape, DraftPresent, NeverDelete, [Next]_vars, NEW s \in Side, NEW r \in Record,
         rows[s][r] # Absent
  PROVE  rows'[s][r] # Absent
BY RowMoves DEF Untouched, WrittenByUser, WrittenByBatch

\* Orderly users write between cycles.
LEMMA IdleWrites == ASSUME Orderly, UserStep PROVE pc = "idle" /\ pc' = "idle"
BY DEF Orderly, UserStep, UserWrite, cycle

\* The service's steps close the open transaction or give it an operation.
LEMMA TxnSteps ==
  ASSUME Shape, Locks, [Next]_vars
  PROVE  \/ touched' = {} /\ (pc' = "apply" => batch' = {})
         \/ \E i \in todo : ApplyOperation(i)
         \/ UNCHANGED vars
         \/ UserStep
<1> DEFINE Closed == touched' = {} /\ (pc' = "apply" => batch' = {})
<1>1. ASSUME NEW status, EndCycle(status) PROVE Closed
  BY <1>1 DEF EndCycle, CloseTxn
<1>2. RetryOrRaise => Closed
  BY <1>1 DEF RetryOrRaise, Attempt, CloseTxn
<1>3. BatchRaises => Closed
  BY <1>1 DEF BatchRaises, DirectionRaises, CloseTxn
<1>4. ASSUME batch = {} \/ pc \notin {"replay", "apply"}, UNCHANGED txn,
             pc' # "apply" \/ batch' = {}
      PROVE  Closed
  BY <1>4 DEF Locks, txn
<1>5. CASE UserStep
  BY <1>5
<1>6. CASE CycleStep
  <2>1. CASE StartCycle \/ NextReplay \/ NextDirection
    BY <1>4, <2>1 DEF StartCycle, NextReplay, NextDirection
  <2>2. CASE \E i \in todo : DuplicateKey(i)
    BY <1>3, <2>2 DEF DuplicateKey
  <2>3. CASE CommitBatch
    BY <2>3 DEF CommitBatch, CloseTxn
  <2>4. CASE DetectLocal
    BY <1>4, <2>4 DEF DetectLocal
  <2>5. CASE DetectRemote
    <3>1. pc = "detectRemote" /\ batch = {}
      BY <2>5 DEF DetectRemote, Shape
    <3>2. NextTable \/ \E theirs : Resolve(theirs)
      BY <2>5 DEF DetectRemote
    <3>3. CASE NextTable
      BY <1>1, <1>4, <3>1, <3>3 DEF NextTable
    <3>4. CASE \E theirs : Resolve(theirs)
      BY <1>4, <3>1, <3>4 DEF Resolve
    <3> QED
      BY <3>2, <3>3, <3>4
  <2>6. CASE MarkFailure \/ StampLocal \/ (\E i \in batch : MarkCompleted(i))
               \/ (\E i \in todo : QueueOperation(i))
    BY <1>4, <2>6 DEF MarkFailure, StampLocal, MarkCompleted, QueueOperation
  <2>7. CASE RaiseProcessingError
    BY <1>2, <2>7 DEF RaiseProcessingError
  <2>8. CASE StampRemote
    BY <1>1, <1>4, <2>8 DEF StampRemote, NextTable
  <2> QED
    BY <1>6, <2>1, <2>2, <2>3, <2>4, <2>5, <2>6, <2>7, <2>8 DEF CycleStep
<1>7. CASE FaultStep
  <2>1. CASE PreconditionFails
    BY <1>4, <2>1 DEF PreconditionFails
  <2> QED
    BY <1>1, <1>2, <1>3, <1>7, <2>1 DEF FaultStep, StatementFails, BatchFails, HandlerFails, Crash,
       CommitUnacknowledged
<1> QED
  BY <1>5, <1>6, <1>7 DEF Next

\* What a batch writes next: the content of its operation, on a row that is there or
\* that it inserts.
LEMMA DraftWrites ==
  ASSUME AgreeInv, NEW i \in todo, ApplyOperation(i)
  PROVE  /\ \A r \in touched' : (r \in touched /\ draft'[r] = draft[r])
                             \/ (r = Operation(i).record /\ draft'[r] = Operation(i).data)
         /\ Present(source, Operation(i))
         /\ pc = "apply" => /\ Carries(source, Operation(i)) /\ Operation(i).record \in touched'
                            /\ draft'[Operation(i).record] = Operation(i).data
                            /\ Operation(i) = plan[source][i]
<1> DEFINE op == Operation(i)
           r == op.record
           writes == op.type = "I" \/ Current(r) # Absent
<1>1. Shape /\ source \in Side /\ i \in todo \cup batch
  BY DEF AgreeInv, WorkInv, CursorInv, Shape, TypeOK, CycleTypeOK
<1>2. /\ pc \in {"replay", "apply"}
      /\ draft' = IF writes THEN [draft EXCEPT ![r] = op.data] ELSE draft
      /\ touched' = IF writes THEN touched \cup {r} ELSE touched
  BY DEF ApplyOperation
<1>3. op \in SyncOperation /\ r \in Record /\ draft \in [Record -> Nat]
  BY <1>1, <1>2, OperationIsTyped
     DEF Shape, TypeOK, CycleShape, CycleTypeOK, Replaying, Executing
<1>4. CASE pc = "replay"
  <2>1. i \in DOMAIN pending[source] /\ op = pending[source][i].op
    BY <1>1, <1>4 DEF Shape, Replaying, Operation
  <2>2. Present(source, op)
    BY <1>1, <2>1 DEF AgreeInv, QueuePresent
  <2> QED
    BY <1>2, <1>3, <1>4, <2>2
<1>5. CASE pc = "apply"
  <2>1. i \in DOMAIN plan[source] /\ op = plan[source][i]
    BY <1>1, <1>5 DEF Shape, Executing, Operation
  <2>2. Carries(source, op)
    BY <1>1, <1>5, <2>1 DEF AgreeInv, PlanIsCurrent, Executing
  <2>3. Current(r) # Absent \/ op.type # "U"
    BY <2>2 DEF Carries, Current, Target, AgreeInv, DraftPresent
  <2>4. writes
    BY <1>3, <2>2, <2>3 DEF Carries, Present, SyncOperation, OperationType
  <2>5. r \in touched' /\ draft'[r] = op.data
    BY <1>2, <1>3, <2>4
  <2> QED
    BY <1>2, <1>3, <1>5, <2>1, <2>2, <2>5 DEF Carries
<1> QED
  BY <1>2, <1>4, <1>5

LEMMA DraftStep ==
  ASSUME AgreeInv, Orderly, [Next]_vars
  PROVE  DraftPresent' /\ BatchWritten'
<1>1. Shape /\ Locks /\ DraftPresent /\ BatchWritten
  BY DEF AgreeInv, WorkInv, CursorInv
<1>2. CASE touched' = {} /\ (pc' = "apply" => batch' = {})
  BY <1>2 DEF DraftPresent, BatchWritten
<1>3. ASSUME NEW i \in todo, ApplyOperation(i)
      PROVE  DraftPresent' /\ BatchWritten'
  <2> DEFINE op == Operation(i)
  <2>1. /\ UNCHANGED <<rows, source, plan, pc>> /\ batch' = batch \cup {i} /\ touched \subseteq touched'
    BY <1>3 DEF ApplyOperation, database
  <2>2. /\ \A r \in touched' : (r \in touched /\ draft'[r] = draft[r])
                             \/ (r = op.record /\ draft'[r] = op.data)
        /\ Present(source, op)
        /\ pc = "apply" => /\ Carries(source, op) /\ op.record \in touched'
                           /\ draft'[op.record] = op.data /\ op = plan[source][i]
    BY <1>3, DraftWrites
  <2> HIDE DEF op
  <2>3. DraftPresent'
    BY <1>1, <2>1, <2>2 DEF DraftPresent, Present
  <2>4. BatchWritten'
    BY <1>1, <2>1, <2>2 DEF BatchWritten, Carries
  <2> QED
    BY <2>3, <2>4
<1>4. CASE UNCHANGED vars
  <2>1. UNCHANGED <<touched, draft, rows, source, pc, batch, plan>>
    BY <1>4 DEF vars, txn, cycle, database
  <2> QED
    BY <1>1, <2>1 DEF DraftPresent, BatchWritten
<1>5. CASE UserStep
  <2>1. touched = {} /\ UNCHANGED <<touched, pc>> /\ pc = "idle"
    BY <1>1, <1>5, IdleWrites DEF Locks, UserStep, UserWrite, txn, cycle
  <2> QED
    BY <1>2, <2>1
<1> QED
  BY <1>1, <1>2, <1>3, <1>4, <1>5, TxnSteps

-----------------------------------------------------------------------------
(***************************************************************************)
(* The rows and the cursors.                                               *)
(***************************************************************************)

\* Stamps leave the cursor of a row that differs where it was.
LEMMA CursorStays ==
  ASSUME AgreeInv, [Next]_vars, NEW s \in Side, NEW r \in Record, pc \notin Stamping \/ Differs(r)
  PROVE  Cursor(s, r)' = Cursor(s, r)
<1>1. TableOf[r] \in Tables /\ Shape
  BY ConfigAssumption DEF ConfigAssumption, AgreeInv, WorkInv, CursorInv
<1>2. pc \in Stamping => TableOf[r] # table
  BY DEF AgreeInv, PlanRepairs
<1>3. control'[s][TableOf[r]].version = control[s][TableOf[r]].version
  BY <1>1, <1>2, CursorMoves
<1> QED
  BY <1>3 DEF Cursor

\* What is written is ahead of the cursor.
LEMMA WrittenIsVisible ==
  ASSUME Shape, CursorsBounded, [Next]_vars, NEW s \in Side, NEW r \in Record,
         WrittenByUser(s, r) \/ WrittenByBatch(s, r)
  PROVE  Visible(s, r)' /\ Cursor(s, r)' = Cursor(s, r)
<1>1. Cursor(s, r)' = Cursor(s, r)
  BY DEF WrittenByUser, WrittenByBatch, UserStep, UserWrite, Commit, Cursor
<1>2. TableOf[r] \in Tables /\ Shape'
  BY ShapeStep, ConfigAssumption DEF ConfigAssumption
<1>3. Cursor(s, r) \in Nat /\ version[s] \in Nat /\ changed'[s][r] \in Nat
  BY <1>2 DEF Cursor, Shape, TypeOK, StoreTypeOK, ControlRow
<1>4. Cursor(s, r) <= version[s] /\ changed'[s][r] > version[s]
  BY <1>2 DEF Cursor, CursorsBounded, WrittenByUser, WrittenByBatch
<1> QED
  BY <1>1, <1>3, <1>4 DEF Visible

LEMMA RowsStep ==
  ASSUME AgreeInv, Orderly, [Next]_vars
  PROVE  RowsStay' /\ QueuePresent'
<1>1. Shape /\ DraftPresent /\ RowsStay /\ QueuePresent /\ PlanIsCurrent
  BY DEF AgreeInv, WorkInv, CursorInv
<1>2. RowsStay'
  BY <1>1, RowMoves DEF Orderly, RowsStay, Untouched, WrittenByUser, WrittenByBatch
<1>3. ASSUME NEW s \in Side, NEW k \in DOMAIN pending'[s]
      PROVE  Present(s, pending[s][k].op)'
  <2>1. \A r \in Record : rows[s][r] # Absent => rows'[s][r] # Absent
    BY <1>1, PresenceGrows DEF Orderly
  <2>2. CASE k \in DOMAIN pending[s] /\ pending'[s][k].op = pending[s][k].op
    <3>1. pending[s][k] \in PendingRow
      BY <1>1, <2>2, LenProperties, ElementOfSeq DEF Shape, TypeOK, StoreTypeOK
    <3>2. Present(s, pending[s][k].op) /\ pending[s][k].op.record \in Record
      BY <1>1, <2>2, <3>1 DEF QueuePresent, PendingRow, SyncOperation
    <3> QED
      BY <2>1, <2>2, <3>2 DEF Present
  <2>3. CASE pc = "queue" /\ \E i \in DOMAIN plan[s] :
                 /\ pending'[s][k].op.record = plan[s][i].record
                 /\ pending'[s][k].op.type = plan[s][i].type
                 /\ pending'[s][k].op.data = plan[s][i].data
    <3>1. PICK i \in DOMAIN plan[s] : /\ pending'[s][k].op.record = plan[s][i].record
                                      /\ pending'[s][k].op.type = plan[s][i].type
                                      /\ pending'[s][k].op.data = plan[s][i].data
      BY <2>3
    <3>2. plan[s][i] \in SyncOperation
      BY <1>1, LenProperties, ElementOfSeq DEF Shape, TypeOK, CycleTypeOK
    <3>3. Present(s, plan[s][i]) /\ plan[s][i].record \in Record
      BY <1>1, <2>3, <3>2 DEF PlanIsCurrent, Carries, Executing, SyncOperation
    <3> QED
      BY <2>1, <3>1, <3>3 DEF Present
  <2> QED
    BY <1>1, <2>2, <2>3, PendingSteps
<1> QED
  BY <1>2, <1>3 DEF QueuePresent

LEMMA BornStep ==
  ASSUME AgreeInv, Orderly, [Next]_vars
  PROVE  Born'
<1>1. Shape /\ DraftPresent /\ Born /\ CursorsBounded
  BY DEF AgreeInv, WorkInv, CursorInv
<1> SUFFICES ASSUME NEW s \in Side, NEW r \in Record,
                    rows'[s][r] # Absent, rows'[Other(s)][r] = Absent
             PROVE  (created[s][r] > Cursor(s, r))'
  BY DEF Born
<1>2. rows[Other(s)][r] = Absent
  BY <1>1, PresenceGrows DEF Orderly
<1>3. TableOf[r] \in Tables
  BY ConfigAssumption DEF ConfigAssumption
<1>4. CASE Untouched(s, r)
  <2>1. rows[s][r] # Absent /\ Differs(r)
    BY <1>2, <1>4 DEF Untouched, Differs
  <2> QED
    BY <1>1, <1>2, <1>4, <2>1, CursorStays DEF Born, Untouched
<1>5. CASE WrittenByUser(s, r)
  <2>1. Cursor(s, r)' = Cursor(s, r)
    BY <1>1, <1>5, WrittenIsVisible
  <2>2. Cursor(s, r) \in Nat /\ version[s] \in Nat /\ Cursor(s, r) <= version[s]
    BY <1>1, <1>3 DEF Cursor, CursorsBounded, Shape, TypeOK, StoreTypeOK, ControlRow
  <2>3. created'[s][r] \in Nat
    BY ShapeStep, <1>1 DEF Shape, TypeOK, StoreTypeOK
  <2>4. CASE rows[s][r] = Absent
    BY <1>5, <2>1, <2>2, <2>3, <2>4 DEF WrittenByUser
  <2>5. CASE rows[s][r] # Absent
    BY <1>1, <1>2, <1>5, <2>1, <2>5 DEF WrittenByUser, Born
  <2> QED
    BY <2>4, <2>5
<1>6. CASE WrittenByBatch(s, r)
  <2>1. source = Other(s)
    BY <1>1, <1>6 DEF WrittenByBatch, Target, Shape, TypeOK, CycleTypeOK, Local, Remote
  <2> QED
    BY <1>2, <1>6, <2>1 DEF WrittenByBatch
<1> QED
  BY <1>1, <1>4, <1>5, <1>6, RowMoves DEF Orderly

LEMMA DiffersStep ==
  ASSUME AgreeInv, Orderly, [Next]_vars
  PROVE  DiffersVisibly'
<1>1. Shape /\ CursorsBounded /\ DraftPresent /\ DiffersVisibly
  BY DEF AgreeInv, WorkInv, CursorInv
<1> SUFFICES ASSUME NEW r \in Record, Differs(r)'
             PROVE  \E s \in Side : Visible(s, r)'
  BY DEF DiffersVisibly
<1>2. CASE \E s \in Side : WrittenByUser(s, r) \/ WrittenByBatch(s, r)
  BY <1>1, <1>2, WrittenIsVisible
<1>3. CASE \A s \in Side : Untouched(s, r)
  <2>1. Differs(r)
    BY <1>3 DEF Untouched, Differs
  <2>2. PICK s \in Side : Visible(s, r)
    BY <1>1, <2>1 DEF DiffersVisibly
  <2>3. Cursor(s, r)' = Cursor(s, r)
    BY <2>1, CursorStays
  <2> QED
    BY <1>3, <2>2, <2>3 DEF Untouched, Visible
<1> QED
  BY <1>1, <1>2, <1>3, RowMoves DEF Orderly

-----------------------------------------------------------------------------
(***************************************************************************)
(* Detection and the plan.                                                 *)
(***************************************************************************)

\* What detection returns carries rows that are there.
LEMMA DetectedCarries ==
  ASSUME StoreTypeOK, RowsStay, Born, NEW s \in Side, NEW t \in Tables, NEW now,
         NEW o \in Detected(s, t, now)
  PROVE  Carries(s, o) /\ o.record \in Record
<1> DEFINE last == control[s][t].version
           Type(q) == IF rows[s][q] = Absent THEN "D"
                      ELSE IF created[s][q] > last THEN "I" ELSE "U"
<1>1. PICK q \in Record : /\ TableOf[q] = t /\ changed[s][q] > last
                          /\ o = [record |-> q, type |-> Type(q), version |-> changed[s][q],
                                  data |-> rows[s][q], timestamp |-> now]
  BY DEF Detected
<1>2. last \in Nat /\ changed[s][q] \in Nat
  BY DEF StoreTypeOK, ControlRow
<1>3. rows[s][q] # Absent
  BY <1>1, <1>2 DEF RowsStay
<1>4. o.record = q /\ o.type = Type(q) /\ o.data = rows[s][q]
  BY <1>1
<1>5. Type(q) = "U" => rows[Other(s)][q] # Absent
  BY <1>1, <1>3 DEF Born, Cursor
<1> QED
  BY <1>3, <1>4, <1>5 DEF Carries, Present

\* Nothing happens to the databases between the two detections.
LEMMA FoundCurrentStep ==
  ASSUME AgreeInv, Orderly, [Next]_vars
  PROVE  FoundIsCurrent'
<1> SUFFICES ASSUME pc' = "detectRemote" PROVE found' = Detected(Local, table, 0)'
  BY DEF FoundIsCurrent
<1>1. Shape /\ PlanAhead /\ FoundIsCurrent
  BY DEF AgreeInv, WorkInv, CursorInv
<1>2. \/ DetectLocal
      \/ pc = "detectRemote" /\ UNCHANGED <<table, found>>
  BY <1>1, PhaseSteps
     DEF Detecting, Executing, StampRemote, StampLocal, NextTable, EndCycle, Resolve
<1>3. pc \in {"detectLocal", "detectRemote"} /\ table' = table /\ table \in Tables
  BY <1>1, <1>2 DEF DetectLocal, Shape, Phase, Replaying
<1>4. UNCHANGED <<rows, changed, created>>
  <2>1. ~UserStep /\ ~Commit
    BY <1>3 DEF UserStep, UserWrite, Orderly, Commit
  <2> QED
    BY <2>1, DataSteps DEF DetectLocal, DetectRemote, database
<1>5. control'[Local][table].version = control[Local][table].version
  BY <1>1, <1>3, CursorMoves DEF Stamping
<1>6. Detected(Local, table, 0)' = Detected(Local, table, 0)
  <2> DEFINE Read(rw, ch, cr, t, last) ==
               {[record |-> r,
                 type |-> IF rw[Local][r] = Absent THEN "D" ELSE IF cr[Local][r] > last THEN "I" ELSE "U",
                 version |-> ch[Local][r], data |-> rw[Local][r], timestamp |-> 0] :
                r \in {r \in Record : TableOf[r] = t /\ ch[Local][r] > last}}
  <2>1. Detected(Local, table, 0) = Read(rows, changed, created, table, control[Local][table].version)
    BY DEF Detected
  <2>2. Detected(Local, table, 0)' =
          Read(rows', changed', created', table', control'[Local][table'].version)
    BY DEF Detected
  <2>3. control'[Local][table'].version = control[Local][table].version
    BY <1>3, <1>5
  <2> HIDE DEF Read
  <2> QED
    BY <1>3, <1>4, <2>1, <2>2, <2>3
<1> QED
  BY <1>1, <1>2, <1>6 DEF DetectLocal, FoundIsCurrent

\* The plan carries what differs, each record one way.
LEMMA ResolvedRepairs ==
  ASSUME AgreeInv, DetectRemote, NEW now \in {0, 1}, Resolve(Detected(Remote, table, now))
  PROVE  /\ \A s \in Side : \A i \in DOMAIN plan'[s] :
              Carries(s, plan'[s][i]) /\ plan'[s][i].record \in Record
         /\ \A i \in DOMAIN plan'[Local], j \in DOMAIN plan'[Remote] :
              plan'[Local][i].record # plan'[Remote][j].record
         /\ \A r \in Record : TableOf[r] = table /\ Differs(r) =>
              \E s \in Side : \E i \in DOMAIN plan'[s] : plan'[s][i].record = r
<1> DEFINE theirs == Detected(Remote, table, now)
           out == LocalToRemote(found, theirs)
           in  == RemoteToLocal(found, theirs)
<1>1. table \in Tables /\ StoreTypeOK /\ found = Detected(Local, table, 0)
  BY DEF DetectRemote, AgreeInv, WorkInv, CursorInv, Shape, TypeOK, Phase, Replaying, FoundIsCurrent
<1>2. /\ IsFiniteSet(found) /\ OnePerRecord(found)
      /\ \A o \in found : Carries(Local, o) /\ o.record \in Record
      /\ \A r \in Record : TableOf[r] = table /\ Visible(Local, r) =>
           \E o \in found : ChangeOf(o) = <<r, changed[Local][r]>>
  BY <1>1, DetectedType, DetectedIsAhead, DetectedCarries DEF AgreeInv
<1>3. /\ IsFiniteSet(theirs) /\ OnePerRecord(theirs)
      /\ \A o \in theirs : Carries(Remote, o) /\ o.record \in Record
      /\ \A r \in Record : TableOf[r] = table /\ Visible(Remote, r) =>
           \E o \in theirs : ChangeOf(o) = <<r, changed[Remote][r]>>
  BY <1>1, DetectedType, DetectedIsAhead, DetectedCarries DEF AgreeInv
<1>4. PICK l \in Listings(out, theirs), r \in Listings(in, found) :
        plan' = [s \in Side |-> IF s = Local THEN l ELSE r]
  BY DEF Resolve
<1> HIDE DEF theirs
<1>5. out \subseteq found /\ in \subseteq theirs
  BY DEF LocalToRemote, RemoteToLocal
<1>6. IsFiniteSet(out) /\ IsFiniteSet(in)
  BY <1>2, <1>3, <1>5, FS_Subset
<1>7. /\ \A o \in found \ out : ChangeOf(o) \in Lost(found, theirs, in)
      /\ \A o \in theirs \ in : ChangeOf(o) \in Lost(theirs, found, out)
  BY <1>2, <1>3, KeptOrLost
<1>8. \A o \in out, p \in in : o.record # p.record
  BY OneWinner
<1> HIDE DEF out, in
<1>9. /\ \A i \in DOMAIN l : l[i] \in out
      /\ \A o \in out : \E i \in DOMAIN l : l[i] = o
      /\ \A i \in DOMAIN r : r[i] \in in
      /\ \A o \in in : \E i \in DOMAIN r : r[i] = o
  BY <1>6, ListingIsComplete
<1>10. plan'[Local] = l /\ plan'[Remote] = r
  BY <1>4 DEF Local, Remote
<1>11. ASSUME NEW q \in Record, TableOf[q] = table, Differs(q)
       PROVE  \E o \in out \cup in : o.record = q
  <2>1. PICK s \in Side : Visible(s, q)
    BY <1>11 DEF AgreeInv, DiffersVisibly
  <2>2. CASE s = Local
    <3>1. PICK o \in found : o.record = q /\ ChangeOf(o) = <<q, changed[Local][q]>>
      BY <1>2, <1>11, <2>1, <2>2 DEF ChangeOf
    <3>2. CASE o \in out
      BY <3>1, <3>2
    <3>3. CASE o \notin out
      <4>1. PICK p \in found : /\ ChangeOf(p) = ChangeOf(o)
                            /\ \E w \in Opponents(p, theirs) : BothDelete(p, w) \/ w \in in
        BY <1>7, <3>3 DEF Lost
      <4> QED
        BY <1>2, <3>1, <4>1 DEF ChangeOf, Opponents, BothDelete, Carries, Present
    <3> QED
      BY <3>2, <3>3
  <2>3. CASE s = Remote
    <3>1. PICK o \in theirs : o.record = q /\ ChangeOf(o) = <<q, changed[Remote][q]>>
      BY <1>3, <1>11, <2>1, <2>3 DEF ChangeOf
    <3>2. CASE o \in in
      BY <3>1, <3>2
    <3>3. CASE o \notin in
      <4>1. PICK p \in theirs : /\ ChangeOf(p) = ChangeOf(o)
                            /\ \E w \in Opponents(p, found) : BothDelete(p, w) \/ w \in out
        BY <1>7, <3>3 DEF Lost
      <4> QED
        BY <1>3, <3>1, <4>1 DEF ChangeOf, Opponents, BothDelete, Carries, Present
    <3> QED
      BY <3>2, <3>3
  <2> QED
    BY <2>2, <2>3
<1>12. ASSUME NEW q \in Record, TableOf[q] = table, Differs(q)
       PROVE  \E s \in Side : \E i \in DOMAIN plan'[s] : plan'[s][i].record = q
  BY <1>9, <1>10, <1>11, <1>12
<1>13. \A s \in Side : \A i \in DOMAIN plan'[s] :
              Carries(s, plan'[s][i]) /\ plan'[s][i].record \in Record
  BY <1>2, <1>3, <1>5, <1>9, <1>10
<1> QED
  BY <1>8, <1>9, <1>10, <1>12, <1>13

\* During execution the plan and its table stay, or are those resolve() just made.
LEMMA PlanSteps ==
  ASSUME AgreeInv, [Next]_vars, pc' \in Executing
  PROVE  \/ pc \in Executing /\ UNCHANGED <<plan, table>>
         \/ /\ DetectRemote /\ UNCHANGED <<rows, table>> /\ pc' = "apply"
            /\ source' = Local /\ todo' = DOMAIN plan'[Local]
            /\ \E now \in {0, 1} : Resolve(Detected(Remote, table, now))
<1>1. Shape /\ PlanAhead
  BY DEF AgreeInv, WorkInv, CursorInv
<1>2. \/ pc \in Executing /\ UNCHANGED <<plan, table>>
      \/ DetectRemote /\ \E now \in {0, 1} : Resolve(Detected(Remote, table, now))
  BY <1>1, PhaseSteps
     DEF Executing, Detecting, DetectLocal, StampRemote, StampLocal, NextTable, EndCycle
<1>3. ASSUME NEW now, Resolve(Detected(Remote, table, now)), DetectRemote
      PROVE  /\ UNCHANGED <<rows, table>> /\ pc' = "apply"
             /\ source' = Local /\ todo' = DOMAIN plan'[Local]
  BY <1>3 DEF Resolve, DetectRemote, database, Local
<1> QED
  BY <1>2, <1>3

\* A row the open transaction wrote during execution has an operation of its source, and
\* none of its target.
LEMMA BatchOwnsRow ==
  ASSUME AgreeInv, pc = "apply", NEW s \in Side, NEW i \in DOMAIN plan[s],
         plan[s][i].record \in touched
  PROVE  s = source
<1>1. source \in Side /\ batch \subseteq DOMAIN plan[source]
  BY DEF AgreeInv, WorkInv, CursorInv, Shape, TypeOK, CycleTypeOK, Executing
<1>2. PICK j \in DOMAIN plan[source] : plan[source][j].record = plan[s][i].record
  BY <1>1 DEF AgreeInv, BatchWritten
<1> QED
  BY <1>1, <1>2 DEF AgreeInv, PlanOneWay, Executing

LEMMA PlanCurrentStep ==
  ASSUME AgreeInv, Orderly, [Next]_vars
  PROVE  PlanIsCurrent' /\ PlanOneWay'
<1> SUFFICES ASSUME pc' \in Executing
             PROVE  /\ \A s \in Side : \A i \in DOMAIN plan'[s] : Carries(s, plan[s][i])'
                    /\ \A i \in DOMAIN plan'[Local], j \in DOMAIN plan'[Remote] :
                         plan'[Local][i].record # plan'[Remote][j].record
  BY DEF PlanIsCurrent, PlanOneWay
<1>1. Shape /\ DraftPresent /\ PlanIsCurrent /\ PlanOneWay
  BY DEF AgreeInv, WorkInv, CursorInv
<1>2. ASSUME NEW now \in {0, 1}, DetectRemote, Resolve(Detected(Remote, table, now)),
             UNCHANGED rows
      PROVE  /\ \A s \in Side : \A i \in DOMAIN plan'[s] : Carries(s, plan[s][i])'
             /\ \A i \in DOMAIN plan'[Local], j \in DOMAIN plan'[Remote] :
                  plan'[Local][i].record # plan'[Remote][j].record
  BY <1>2, ResolvedRepairs DEF Carries, Present
<1>3. ASSUME pc \in Executing, UNCHANGED plan, NEW s \in Side, NEW i \in DOMAIN plan[s]
      PROVE  Carries(s, plan[s][i])'
  <2> DEFINE op == plan[s][i]
  <2>1. Carries(s, op) /\ op.record \in Record
    <3>1. op \in SyncOperation
      BY LenProperties, ElementOfSeq, <1>1 DEF Shape, TypeOK, CycleTypeOK
    <3> QED
      BY <1>1, <1>3, <3>1 DEF PlanIsCurrent, SyncOperation
  <2>2. rows'[s][op.record] = rows[s][op.record]
    <3>1. ~WrittenByUser(s, op.record)
      BY <1>3, IdleWrites DEF WrittenByUser, Executing
    <3>2. ~WrittenByBatch(s, op.record)
      <4> SUFFICES ASSUME WrittenByBatch(s, op.record) PROVE FALSE
        OBVIOUS
      <4>1. pc = "apply" /\ s = Target /\ op.record \in touched
        BY <1>3 DEF WrittenByBatch, Commit, Executing
      <4>2. s = source
        BY <4>1, BatchOwnsRow
      <4> QED
        BY <4>1, <4>2 DEF Target, Local, Remote
    <3> QED
      BY <1>1, <2>1, <3>1, <3>2, RowMoves DEF Orderly, Untouched
  <2>3. rows[Other(s)][op.record] # Absent => rows'[Other(s)][op.record] # Absent
    BY <1>1, <2>1, PresenceGrows DEF Orderly
  <2> QED
    BY <1>3, <2>1, <2>2, <2>3 DEF Carries, Present
<1>4. CASE pc \in Executing /\ UNCHANGED <<plan, table>>
  BY <1>1, <1>3, <1>4 DEF PlanOneWay
<1> QED
  BY <1>2, <1>4, PlanSteps

\* A step of the execution leaves no new difference, and a commit settles its records.
LEMMA ExecutionSettles ==
  ASSUME AgreeInv, Orderly, [Next]_vars, pc \in Executing \cup Stamping,
         NEW r \in Record, Differs(r)'
  PROVE  Differs(r) /\ (Commit /\ pc = "apply" => r \notin touched)
<1>1. Shape /\ DraftPresent /\ source \in Side
  BY DEF AgreeInv, WorkInv, CursorInv, Shape, TypeOK, CycleTypeOK
<1>2. \A s \in Side : ~WrittenByUser(s, r)
  BY IdleWrites DEF WrittenByUser, Executing, Stamping
<1>3. ASSUME r \in touched, Commit
      PROVE  FALSE
  <2>1. pc = "apply" /\ Target \in Side /\ Target # source
    BY <1>1, <1>3 DEF Commit, Executing, Stamping, Target, Local, Remote
  <2>2. rows'[Target] = [q \in Record |-> IF q \in touched THEN draft[q] ELSE rows[Target][q]]
        /\ rows'[source] = rows[source]
    BY <1>1, <1>3, <2>1 DEF Commit, Shape, TypeOK, StoreTypeOK
  <2>3. rows'[Target][r] = rows'[source][r]
    BY <1>3, <2>1, <2>2 DEF AgreeInv, BatchWritten
  <2> QED
    BY <1>1, <2>1, <2>3 DEF Differs, Target
<1>4. \A s \in Side : Untouched(s, r)
  BY <1>1, <1>2, <1>3, RowMoves DEF Orderly, WrittenByBatch
<1> QED
  BY <1>3, <1>4 DEF Differs, Untouched

LEMMA RepairsStep ==
  ASSUME AgreeInv, Orderly, [Next]_vars
  PROVE  PlanRepairs'
<1>1. Shape /\ CycleTypeOK /\ PlanAhead /\ PlanRepairs
  BY DEF AgreeInv, WorkInv, CursorInv, Shape, TypeOK
<1>2. ASSUME pc' \in Executing, NEW r \in Record, TableOf[r] = table', Differs(r)'
      PROVE  \E s \in Side : \E i \in DOMAIN plan'[s] :
               plan'[s][i].record = r /\ (pc' = "apply" => ToCome(s, i)')
  <2>1. ASSUME NEW now \in {0, 1}, DetectRemote, Resolve(Detected(Remote, table, now)),
               UNCHANGED <<rows, table>>, source' = Local, todo' = DOMAIN plan'[Local]
        PROVE  \E s \in Side : \E i \in DOMAIN plan'[s] :
                 plan'[s][i].record = r /\ (pc' = "apply" => ToCome(s, i)')
    <3>1. Differs(r)
      BY <1>2, <2>1 DEF Differs
    <3>2. PICK s \in Side : \E i \in DOMAIN plan'[s] : plan'[s][i].record = r
      BY <1>2, <2>1, <3>1, ResolvedRepairs
    <3> QED
      BY <2>1, <3>2 DEF ToCome
  <2>2. CASE pc \in Executing /\ UNCHANGED <<plan, table>>
    <3>1. Differs(r) /\ TableOf[r] = table /\ (Commit /\ pc = "apply" => r \notin touched)
      BY <1>2, <2>2, ExecutionSettles
    <3>2. PICK s \in Side : \E i \in DOMAIN plan[s] :
             plan[s][i].record = r /\ (pc = "apply" => ToCome(s, i))
      BY <1>1, <2>2, <3>1 DEF PlanRepairs
    <3>3. PICK i \in DOMAIN plan[s] : plan[s][i].record = r /\ (pc = "apply" => ToCome(s, i))
      BY <3>2
    <3>4. pc' = "apply" => ToCome(s, i)'
      <4> SUFFICES ASSUME pc' = "apply" PROVE ToCome(s, i)'
        OBVIOUS
      <4>1. CASE source' = Local /\ todo' = DOMAIN plan'[Local]
        BY <2>2, <3>3, <4>1 DEF ToCome
      <4>2. CASE /\ pc = "apply" /\ source = Local /\ todo = {} /\ batch = {}
                 /\ source' = Remote /\ todo' = DOMAIN plan'[Remote]
        BY <2>2, <3>3, <4>2 DEF ToCome
      <4>3. CASE pc = "apply" /\ todo' \cup batch' = todo \cup batch /\ UNCHANGED source
        BY <3>3, <4>3 DEF ToCome
      <4>4. CASE pc = "apply" /\ Commit /\ UNCHANGED <<source, todo>>
        <5>1. s = source => i \notin batch
          BY <3>1, <3>3, <4>4 DEF AgreeInv, BatchWritten
        <5> QED
          BY <3>3, <4>4, <5>1 DEF ToCome
      <4> QED
        BY <1>1, <4>1, <4>2, <4>3, <4>4, ApplySteps
    <3> QED
      BY <2>2, <3>3, <3>4
  <2> QED
    BY <1>2, <2>1, <2>2, PlanSteps
<1>3. ASSUME pc' \in Stamping, NEW r \in Record, TableOf[r] = table', Differs(r)'
      PROVE  FALSE
  <2>1. table' = table
    BY <1>1, <1>3, PhaseSteps
       DEF Executing, Detecting, Stamping, DetectLocal, DetectRemote, StampRemote, StampLocal,
           NextTable, EndCycle, Resolve
  <2>2. \/ pc \in Stamping
        \/ pc = "apply" /\ source = Remote /\ todo = {} /\ batch = {}
    BY <1>1, <1>3, StampSteps
  <2>3. Differs(r)
    BY <1>3, <2>2, ExecutionSettles DEF Executing
  <2> QED
    BY <1>1, <1>3, <2>1, <2>2, <2>3 DEF PlanRepairs, ToCome, Executing, Local, Remote
<1> QED
  BY <1>2, <1>3 DEF PlanRepairs

-----------------------------------------------------------------------------
LEMMA AgreeStep == ASSUME Orderly PROVE AgreeInv /\ [Next]_vars => AgreeInv'
<1> SUFFICES ASSUME AgreeInv, [Next]_vars PROVE AgreeInv'
  OBVIOUS
<1>1. WorkInv'
  BY WorkStep DEF AgreeInv
<1> QED
  BY <1>1, RowsStep, BornStep, DiffersStep, FoundCurrentStep, PlanCurrentStep, RepairsStep,
     DraftStep DEF AgreeInv

LEMMA InitAgree == Init => AgreeInv
<1> SUFFICES ASSUME Init PROVE AgreeInv
  OBVIOUS
<1>1. WorkInv
  BY InitWork
<1>2. \A r \in Record : rows[Local][r] = rows[Remote][r]
  BY DEF Init
<1>3. RowsStay /\ QueuePresent
  BY DEF Init, RowsStay, QueuePresent
<1>4. Born /\ DiffersVisibly
  BY <1>2 DEF Born, DiffersVisibly, Differs
<1>5. FoundIsCurrent /\ PlanIsCurrent /\ PlanOneWay /\ PlanRepairs /\ DraftPresent /\ BatchWritten
  BY DEF Init, FoundIsCurrent, PlanIsCurrent, PlanOneWay, PlanRepairs, DraftPresent, BatchWritten,
         Executing, Stamping
<1> QED
  BY <1>1, <1>3, <1>4, <1>5 DEF AgreeInv

LEMMA AgreeImplies == AgreeInv => Agreement
<1> SUFFICES ASSUME AgreeInv, \A s \in Side, r \in Record : ~Visible(s, r)
             PROVE  rows[Local] = rows[Remote]
  BY DEF Agreement
<1>1. \A r \in Record : rows[Local][r] = rows[Remote][r]
  BY DEF AgreeInv, DiffersVisibly, Differs
<1>2. rows \in [Side -> [Record -> Nat]]
  BY DEF AgreeInv, WorkInv, CursorInv, Shape, TypeOK, StoreTypeOK
<1> QED
  BY <1>1, <1>2

\* For users who do not delete and who write between cycles: whatever batches, handlers
\* and acknowledgements are lost, and wherever the process dies, once nothing is ahead
\* of a cursor both databases hold the same rows.
THEOREM DatabasesAgree == ASSUME Orderly PROVE Spec => []Agreement
<1>1. AgreeInv /\ [Next]_vars => AgreeInv'
  BY AgreeStep
<1> QED
  BY <1>1, InitAgree, AgreeImplies, PTL DEF Spec

\* And the status COMPLETED can be trusted: after a successful cycle the databases
\* differ only in rows that users wrote since their table was read.
THEOREM CompletedIsEqual == ASSUME Orderly PROVE Spec => []CompletedMeansEqual
<1>1. AgreeInv /\ NoEcho => CompletedMeansEqual
  BY DEF AgreeInv, DiffersVisibly, Differs, NoEcho, CompletedMeansEqual
<1>2. AgreeInv /\ [Next]_vars => AgreeInv'
  BY AgreeStep
<1>3. Spec => []AgreeInv
  BY <1>2, InitAgree, PTL DEF Spec
<1> QED
  BY <1>1, <1>3, OwnWritesAreBehind, PTL

-----------------------------------------------------------------------------
(***************************************************************************)
(* One side with users, no deletions, no faults: the service follows.      *)
(* Users may write at any moment.  u is the side with users.               *)
(***************************************************************************)
NoFaults == MaxFaults = 0

\* No row is created after its database's version.
CreatedBounded == \A s \in Side, r \in Record : created[s][r] <= version[s]

\* There is nothing to repeat.
NothingFailed ==
  /\ pc \notin {"mark", "fail", "queue"}
  /\ lastStatus # "FAILED"
  /\ \A s \in Side : DOMAIN pending[s] = {}
  /\ pc = "replay" => todo = {} /\ batch = {}

\* The cycle is between the resolution of the row's table and its stamps.
Following(r) == pc \in {"apply"} \cup Stamping /\ TableOf[r] = table

\* What is ahead of the cursor at the other side is being followed, until the stamp.
MirrorQuiet(u) == \A r \in Record :
  Visible(Other(u), r) => Following(r) /\ (pc = "stampRemote" => u = Local)

\* Nothing goes the other way.
OneWayOnly(u) == (u = Remote => found = {}) /\ DOMAIN plan[Other(u)] = {}

\* The plan inserts and updates rows that are there, each once.
PlanFollows(u) ==
  /\ pc = "apply" => \A i \in DOMAIN plan[u] : Present(u, plan[u][i])
  /\ \A i, j \in DOMAIN plan[u] : plan[u][i].record = plan[u][j].record => i = j

\* An operation with a row to send, and no row where it inserts one.
Fits(u, op) == Present(u, op) /\ (op.type = "I" => rows[Other(u)][op.record] = Absent)

FoundFits(u) == pc = "detectRemote" => \A o \in found : Fits(u, o)

\* The other side has rows this one has, and no row that will be detected as an insertion.
MirrorFollows(u) == \A r \in Record : rows[Other(u)][r] # Absent =>
  /\ rows[u][r] # Absent
  /\ created[u][r] > Cursor(u, r) => Following(r) /\ (pc = "stampRemote" => u = Remote)

\* Operation i of direction u is not applied yet.
NotApplied(u, i) == (source = u /\ i \in todo) \/ (source = Local /\ u = Remote)

InsertsFit(u) == pc = "apply" => \A i \in DOMAIN plan[u] :
  NotApplied(u, i) /\ plan[u][i].type = "I" =>
    rows[Other(u)][plan[u][i].record] = Absent /\ plan[u][i].record \notin touched

OwnInv(u) ==
  /\ WorkInv /\ RowsStay /\ DraftPresent /\ CreatedBounded
  /\ NothingFailed /\ MirrorQuiet(u) /\ OneWayOnly(u) /\ FoundFits(u) /\ PlanFollows(u)
  /\ MirrorFollows(u) /\ InsertsFit(u)

\* Users write on one side, and all goes well.
Sole(u) == u \in Side /\ Writers = {u} /\ NeverDelete /\ NoFaults

-----------------------------------------------------------------------------
\* The steps there are: no batch fails, as an insertion finds no row.
LEMMA OwnSteps ==
  ASSUME NEW u, Sole(u), OwnInv(u), [Next]_vars
  PROVE  \/ UserStep \/ StartCycle \/ NextReplay \/ DetectLocal \/ DetectRemote
         \/ NextDirection \/ StampLocal \/ StampRemote \/ UNCHANGED vars
         \/ pc = "apply" /\ source = u /\ \E i \in todo : ApplyOperation(i)
         \/ pc = "apply" /\ source = u /\ CommitBatch
<1>1. Shape /\ u \in Side /\ source \in Side /\ faults \in Nat
  BY DEF Sole, OwnInv, WorkInv, CursorInv, Shape, TypeOK, StoreTypeOK, CycleTypeOK
<1>2. ~FaultStep
  BY <1>1 DEF Sole, NoFaults, FaultStep, Fault, PreconditionFails, StatementFails, BatchFails,
              CommitUnacknowledged, HandlerFails, Crash
<1>3. pc \in {"replay", "apply"} /\ todo \cup batch # {} => pc = "apply" /\ source = u
  BY <1>1 DEF OwnInv, NothingFailed, OneWayOnly, Shape, Executing
<1>4. ASSUME NEW i \in todo, DuplicateKey(i) PROVE FALSE
  <2>1. pc = "apply" /\ source = u
    BY <1>3, <1>4 DEF DuplicateKey
  <2>2. i \in DOMAIN plan[u] /\ Operation(i) = plan[u][i]
    BY <1>1, <1>4, <2>1 DEF Shape, Executing, Operation
  <2>3. Current(plan[u][i].record) = Absent
    BY <1>4, <2>1, <2>2 DEF OwnInv, InsertsFit, NotApplied, DuplicateKey, Current, Target
  <2> QED
    BY <1>4, <2>2, <2>3 DEF DuplicateKey
<1>5. ASSUME CommitBatch PROVE pc = "apply" /\ source = u
  BY <1>3, <1>5 DEF CommitBatch, Commit, BatchFull
<1>6. ASSUME NEW i \in todo, ApplyOperation(i) PROVE pc = "apply" /\ source = u
  BY <1>3, <1>6 DEF ApplyOperation
<1>7. pc \notin {"mark", "fail", "queue"}
  BY DEF OwnInv, NothingFailed
<1> QED
  BY <1>2, <1>4, <1>5, <1>6, <1>7 DEF Next, CycleStep, MarkCompleted, MarkFailure, QueueOperation,
     RaiseProcessingError

\* The rows of the side with users are written by them, and the rows of the other side
\* by batches of its direction.
LEMMA OwnRows ==
  ASSUME NEW u, Sole(u), OwnInv(u), [Next]_vars, NEW r \in Record
  PROVE  /\ Untouched(u, r) \/ WrittenByUser(u, r)
         /\ Untouched(Other(u), r)
              \/ (WrittenByBatch(Other(u), r) /\ Following(r) /\ Following(r)' /\ pc = "apply")
<1>1. Shape /\ Locks /\ DraftPresent /\ u \in Side /\ source \in Side /\ Other(u) \in Side
  BY DEF Sole, OwnInv, WorkInv, CursorInv, Shape, TypeOK, CycleTypeOK
<1>2. ASSUME Commit PROVE pc = "apply" /\ source = u /\ batch # {} /\ BatchFull
  <2>1. BatchFull /\ batch # {} /\ pc \in {"replay", "apply"}
    BY <1>2 DEF Commit, BatchFull
  <2>2. pc = "apply"
    BY <2>1 DEF OwnInv, NothingFailed
  <2>3. batch \subseteq DOMAIN plan[source]
    BY <1>1, <2>2 DEF Shape, Executing
  <2>4. source = u
    BY <1>1, <2>1, <2>3 DEF OwnInv, OneWayOnly
  <2> QED
    BY <2>1, <2>2, <2>4
<1>3. Untouched(u, r) \/ WrittenByUser(u, r)
  <2>1. ~WrittenByBatch(u, r)
    BY <1>1, <1>2 DEF WrittenByBatch, Target, Local, Remote
  <2> QED
    BY <1>1, <2>1, RowMoves DEF Sole
<1>4. ASSUME WrittenByBatch(Other(u), r)
      PROVE  Following(r) /\ Following(r)' /\ pc = "apply"
  <2>1. pc = "apply" /\ BatchFull /\ batch # {} /\ r \in touched
    BY <1>2, <1>4 DEF WrittenByBatch
  <2>2. TableOf[r] = table
    BY <1>1, <2>1 DEF Locks
  <2>3. pc' \in {"apply", "stampLocal"} /\ table' = table
    <3>1. CASE UserStep \/ UNCHANGED vars
      BY <2>1, <3>1 DEF UserStep, UserWrite, vars, cycle
    <3>2. CASE CommitBatch
      BY <2>1, <3>2 DEF CommitBatch
    <3> QED
      BY <2>1, <3>1, <3>2, OwnSteps DEF StartCycle, NextReplay, DetectLocal, DetectRemote,
         NextDirection, StampLocal, StampRemote, ApplyOperation
  <2> QED
    BY <2>1, <2>2, <2>3 DEF Following, Stamping
<1>5. ~WrittenByUser(Other(u), r)
  BY <1>1 DEF WrittenByUser, Sole, Local, Remote
<1>6. Untouched(Other(u), r) \/ WrittenByUser(Other(u), r) \/ WrittenByBatch(Other(u), r)
  BY <1>1, RowMoves DEF Sole
<1> QED
  BY <1>3, <1>4, <1>5, <1>6

\* Between the plan and the stamps the table at work stays the same.
LEMMA FollowingSteps ==
  ASSUME NEW u, Sole(u), OwnInv(u), [Next]_vars, pc \in {"apply"} \cup Stamping
  PROVE  \/ pc' = pc /\ UNCHANGED table
         \/ pc = "apply" /\ pc' = "stampLocal" /\ UNCHANGED table
         \/ StampLocal \/ StampRemote
<1>1. Shape /\ PlanAhead /\ source \in Side
  BY DEF OwnInv, WorkInv, CursorInv, Shape, TypeOK, CycleTypeOK
<1>2. ASSUME NEW i \in todo, ApplyOperation(i), pc = "apply"
      PROVE  pc' = pc /\ UNCHANGED table
  BY <1>1, <1>2, PhaseSteps
     DEF ApplyOperation, Executing, Detecting, Stamping, DetectLocal, DetectRemote, StampLocal,
         StampRemote
<1>3. CASE UserStep \/ UNCHANGED vars
  BY <1>3 DEF UserStep, UserWrite, vars, cycle
<1>4. CASE CommitBatch
  BY <1>4 DEF CommitBatch, Stamping
<1> QED
  BY <1>2, <1>3, <1>4, OwnSteps DEF StartCycle, NextReplay, DetectLocal, DetectRemote,
     NextDirection, Stamping

\* A cursor never moves back, and a stamp passes all there is.
LEMMA CursorGrows ==
  ASSUME NEW u, OwnInv(u), [Next]_vars, NEW s \in Side, NEW r \in Record
  PROVE  /\ Cursor(s, r) \in Nat /\ Cursor(s, r)' \in Nat /\ Cursor(s, r) <= Cursor(s, r)'
         /\ changed[s][r] \in Nat /\ created[s][r] \in Nat
         /\ TableOf[r] = table /\ ((s = Local /\ StampLocal) \/ (s = Remote /\ StampRemote)) =>
              changed[s][r] <= Cursor(s, r)' /\ created[s][r] <= Cursor(s, r)'
<1>1. /\ Shape /\ Shape' /\ CursorsBounded /\ Bounds /\ CreatedBounded /\ TableOf[r] \in Tables
  BY ShapeStep, ConfigAssumption DEF ConfigAssumption, OwnInv, WorkInv, CursorInv
<1>2. /\ Cursor(s, r) \in Nat /\ Cursor(s, r)' \in Nat /\ version[s] \in Nat
      /\ changed[s][r] \in Nat /\ created[s][r] \in Nat
  BY <1>1 DEF Cursor, Shape, TypeOK, StoreTypeOK, ControlRow
<1>3. Cursor(s, r) <= version[s] /\ changed[s][r] <= version[s] /\ created[s][r] <= version[s]
  BY <1>1 DEF Cursor, CursorsBounded, Bounds, CreatedBounded
<1>4. Cursor(s, r)' = Cursor(s, r) \/ Cursor(s, r)' = version[s]
  BY <1>1, CursorMoves DEF Cursor
<1>5. CASE (s = Local /\ StampLocal /\ TableOf[r] = table)
           \/ (s = Remote /\ StampRemote /\ TableOf[r] = table)
  <2>1. control \in [Side -> [Tables -> ControlRow]]
    BY <1>1 DEF Shape, TypeOK, StoreTypeOK
  <2>2. Stamp(s)
    BY <1>5 DEF StampLocal, StampRemote
  <2>3. Cursor(s, r)' = version[s]
    BY <1>1, <1>5, <2>1, <2>2 DEF Stamp, Cursor
  <2> QED
    BY <1>2, <1>3, <2>3
<1> QED
  BY <1>2, <1>3, <1>4, <1>5

LEMMA OwnDraftStep ==
  ASSUME NEW u, Sole(u), OwnInv(u), [Next]_vars
  PROVE  RowsStay' /\ DraftPresent' /\ CreatedBounded'
<1>1. Shape /\ Locks /\ DraftPresent /\ RowsStay /\ CreatedBounded /\ source \in Side
  BY DEF OwnInv, WorkInv, CursorInv, Shape, TypeOK, CycleTypeOK
<1>2. RowsStay'
  BY <1>1, RowMoves DEF Sole, RowsStay, Untouched, WrittenByUser, WrittenByBatch
<1>3. DraftPresent'
  <2>1. \A r \in Record : rows[source][r] # Absent => rows'[source][r] # Absent
    BY <1>1, PresenceGrows DEF Sole
  <2>2. CASE UserStep \/ UNCHANGED vars
    <3>1. UNCHANGED <<touched, draft, source>> /\ touched \subseteq Record
      BY <1>1, <2>2 DEF UserStep, UserWrite, vars, txn, cycle, Shape, TypeOK, CycleTypeOK
    <3> QED
      BY <1>1, <2>1, <3>1 DEF DraftPresent
  <2>3. ASSUME NEW i \in todo, ApplyOperation(i), pc = "apply", source = u
        PROVE  DraftPresent'
    <3> DEFINE op == Operation(i)
    <3>1. i \in DOMAIN plan[u] /\ op = plan[u][i]
      BY <1>1, <2>3 DEF Shape, Executing, Operation
    <3>2. Present(source, op) /\ op.record \in Record
      <4>1. op \in SyncOperation
        BY <1>1, <2>3, <3>1, LenProperties, ElementOfSeq DEF Shape, TypeOK, CycleTypeOK
      <4> QED
        BY <2>3, <3>1, <4>1 DEF OwnInv, PlanFollows, SyncOperation
    <3>3. draft \in [Record -> Nat]
      BY <1>1 DEF Shape, TypeOK, CycleTypeOK
    <3>4. UNCHANGED <<rows, source>> /\ \A r \in touched' :
             \/ r \in touched /\ draft'[r] = draft[r]
             \/ r = op.record /\ draft'[r] = op.data
      BY <2>3, <3>2, <3>3 DEF ApplyOperation, database
    <3> HIDE DEF op
    <3> QED
      BY <1>1, <3>2, <3>4 DEF DraftPresent, Present
  <2>4. CASE CommitBatch
    BY <2>4 DEF CommitBatch, CloseTxn, DraftPresent
  <2>5. CASE StartCycle \/ NextReplay \/ DetectLocal \/ DetectRemote \/ NextDirection
             \/ StampLocal \/ StampRemote
    <3>1. touched = {}
      BY <1>1, <2>5 DEF StartCycle, NextReplay, DetectLocal, DetectRemote, NextDirection,
         StampLocal, StampRemote, Locks
    <3>2. touched' = {}
      BY <2>5, <3>1 DEF StartCycle, NextReplay, DetectLocal, DetectRemote, NextDirection, Resolve,
         StampLocal, StampRemote, NextTable, EndCycle, CloseTxn, txn
    <3> QED
      BY <3>2 DEF DraftPresent
  <2> QED
    BY <2>2, <2>3, <2>4, <2>5, OwnSteps
<1>4. CreatedBounded'
  <2> SUFFICES ASSUME NEW s \in Side, NEW r \in Record PROVE created'[s][r] <= version'[s]
    BY DEF CreatedBounded
  <2>1. /\ created[s][r] \in Nat /\ created[s][r] <= version[s] /\ version[s] \in Nat
        /\ version'[s] \in Nat /\ version[s] <= version'[s]
    BY <1>1, VersionGrows DEF CreatedBounded, Shape, TypeOK, StoreTypeOK
  <2>2. created'[s][r] = created[s][r] \/ created'[s][r] = version'[s]
    <3>1. /\ created \in [Side -> [Record -> Nat]] /\ version \in [Side -> Nat]
          /\ inserted \subseteq touched
      BY <1>1 DEF Shape, TypeOK, StoreTypeOK, CycleTypeOK
    <3>2. CASE UserStep
      BY <3>1, <3>2 DEF UserStep, UserWrite
    <3>3. CASE Commit
      BY <1>1, <3>1, <3>3 DEF Commit, Target
    <3>4. CASE DetectLocal \/ DetectRemote \/ UNCHANGED <<database, history>>
      BY <3>4 DEF DetectLocal, DetectRemote, database
    <3> QED
      BY <3>2, <3>3, <3>4, DataSteps
  <2> QED
    BY <2>1, <2>2
<1> QED
  BY <1>2, <1>3, <1>4

LEMMA NothingFailedStep ==
  ASSUME NEW u, Sole(u), OwnInv(u), [Next]_vars
  PROVE  NothingFailed'
<1>1. Shape /\ NothingFailed
  BY DEF OwnInv, WorkInv, CursorInv
<1>2. UNCHANGED pending
  <2>1. CASE UserStep \/ UNCHANGED vars
    BY <2>1 DEF UserStep, UserWrite, vars
  <2> QED
    BY <2>1, OwnSteps DEF StartCycle, NextReplay, DetectLocal, DetectRemote, NextDirection,
       StampLocal, StampRemote, ApplyOperation, CommitBatch, Commit
<1>3. \A s \in Side : PendingIds(s) = {}
  BY <1>1 DEF NothingFailed, PendingIds
<1>4. CASE UserStep \/ UNCHANGED vars
  BY <1>1, <1>2, <1>4 DEF UserStep, UserWrite, vars, cycle, NothingFailed
<1>5. CASE StartCycle \/ NextReplay \/ DetectLocal \/ NextDirection \/ StampLocal
  BY <1>1, <1>2, <1>3, <1>5 DEF StartCycle, NextReplay, DetectLocal, NextDirection, StampLocal,
     NothingFailed, Shape
<1>6. CASE DetectRemote \/ StampRemote
  BY <1>1, <1>2, <1>6 DEF DetectRemote, StampRemote, Resolve, NextTable, EndCycle, NothingFailed
<1>7. CASE pc = "apply" /\ ((\E i \in todo : ApplyOperation(i)) \/ CommitBatch)
  BY <1>1, <1>2, <1>7 DEF ApplyOperation, CommitBatch, NothingFailed
<1> QED
  BY <1>4, <1>5, <1>6, <1>7, OwnSteps

LEMMA MirrorQuietStep ==
  ASSUME NEW u, Sole(u), OwnInv(u), [Next]_vars
  PROVE  MirrorQuiet(u)'
<1> SUFFICES ASSUME NEW r \in Record, Visible(Other(u), r)'
             PROVE  Following(r)' /\ (pc' = "stampRemote" => u = Local)
  BY DEF MirrorQuiet
<1>1. u \in Side /\ Other(u) \in Side /\ MirrorQuiet(u)
  BY DEF Sole, OwnInv
<1>2. CASE Untouched(Other(u), r)
  <2>1. Visible(Other(u), r)
    BY <1>1, <1>2, CursorGrows DEF Untouched, Visible
  <2>2. Following(r) /\ (pc = "stampRemote" => u = Local)
    BY <1>1, <2>1 DEF MirrorQuiet
  <2>3. ~(Other(u) = Local /\ StampLocal) /\ ~(Other(u) = Remote /\ StampRemote)
    BY <1>1, <1>2, <2>2, CursorGrows DEF Untouched, Visible, Following
  <2>4. ~StampRemote /\ (StampLocal => u = Local)
    BY <1>1, <2>2, <2>3 DEF StampRemote, Local, Remote
  <2> QED
    BY <2>2, <2>4, FollowingSteps DEF Following, Stamping, StampLocal
<1>3. CASE WrittenByBatch(Other(u), r) /\ Following(r) /\ Following(r)' /\ pc = "apply"
  <2>1. pc' # "stampRemote"
    BY <1>3, FollowingSteps DEF StampLocal, StampRemote
  <2> QED
    BY <1>3, <2>1
<1> QED
  BY <1>2, <1>3, OwnRows

\* Nothing ahead of a cursor, nothing detected.
LEMMA NothingDetected ==
  ASSUME NEW s \in Side, NEW t \in Tables, NEW now, \A r \in Record : TableOf[r] = t => ~Visible(s, r)
  PROVE  Detected(s, t, now) = {}
BY DEF Detected, Visible, Cursor

LEMMA OneWayStep ==
  ASSUME NEW u, Sole(u), OwnInv(u), [Next]_vars
  PROVE  OneWayOnly(u)'
<1>1. Shape /\ u \in Side /\ Other(u) \in Side /\ OneWayOnly(u) /\ MirrorQuiet(u)
  BY DEF Sole, OwnInv, WorkInv, CursorInv
<1>2. CASE UserStep \/ UNCHANGED vars
  BY <1>1, <1>2 DEF UserStep, UserWrite, vars, cycle, OneWayOnly
<1>3. CASE StartCycle \/ NextReplay \/ NextDirection \/ StampLocal \/ CommitBatch
           \/ \E i \in todo : ApplyOperation(i)
  BY <1>1, <1>3 DEF StartCycle, NextReplay, NextDirection, StampLocal, CommitBatch, ApplyOperation,
     OneWayOnly
<1>4. ASSUME NextTable PROVE OneWayOnly(u)'
  BY <1>1, <1>4 DEF NextTable, EndCycle, NoPlan, OneWayOnly
<1>5. ASSUME pc \in Detecting PROVE table \in Tables /\ \A r \in Record : ~Visible(Other(u), r)
  BY <1>1, <1>5 DEF MirrorQuiet, Following, Stamping, Detecting, Shape, Phase, Replaying
<1>6. CASE DetectLocal
  <2>1. u = Remote => Detected(Local, table, 0) = {}
    BY <1>5, <1>6, NothingDetected DEF DetectLocal, Detecting
  <2> QED
    BY <1>1, <1>6, <2>1 DEF DetectLocal, OneWayOnly
<1>7. CASE DetectRemote
  <2>1. pc = "detectRemote" /\ pc \in Detecting
    BY <1>7 DEF DetectRemote, Detecting
  <2>2. PICK now \in {0, 1} : NextTable \/ Resolve(Detected(Remote, table, now))
    BY <1>7 DEF DetectRemote
  <2>3. CASE Resolve(Detected(Remote, table, now))
    <3> DEFINE theirs == Detected(Remote, table, now)
               out == LocalToRemote(found, theirs)
               in  == RemoteToLocal(found, theirs)
    <3>1. PICK l \in Listings(out, theirs), r \in Listings(in, found) :
            plan' = [s \in Side |-> IF s = Local THEN l ELSE r] /\ found' = {}
      BY <2>3 DEF Resolve
    <3>2. u = Local => theirs = {}
      BY <1>5, <2>1, NothingDetected
    <3> HIDE DEF theirs
    <3>3. (u = Local => in = {}) /\ (u = Remote => out = {})
      BY <1>1, <3>2 DEF OneWayOnly, LocalToRemote, RemoteToLocal
    <3>4. IsFiniteSet({})
      BY FS_EmptySet
    <3> HIDE DEF out, in
    <3>5. (u = Local => DOMAIN r = {}) /\ (u = Remote => DOMAIN l = {})
      BY <3>3, <3>4, ListingIsComplete
    <3>6. plan'[Local] = l /\ plan'[Remote] = r
      BY <3>1 DEF Local, Remote
    <3> QED
      BY <1>1, <3>1, <3>5, <3>6 DEF OneWayOnly
  <2> QED
    BY <1>4, <2>2, <2>3
<1> QED
  BY <1>2, <1>3, <1>4, <1>6, <1>7, OwnSteps DEF StampRemote

LEMMA MirrorFollowsStep ==
  ASSUME NEW u, Sole(u), OwnInv(u), [Next]_vars
  PROVE  MirrorFollows(u)'
<1>1. /\ Shape /\ DraftPresent /\ u \in Side /\ Other(u) \in Side /\ source \in Side
      /\ MirrorFollows(u) /\ CursorsBounded
  BY DEF Sole, OwnInv, WorkInv, CursorInv, Shape, TypeOK, CycleTypeOK
<1> SUFFICES ASSUME NEW r \in Record, rows'[Other(u)][r] # Absent
             PROVE  /\ rows'[u][r] # Absent
                    /\ created'[u][r] > Cursor(u, r)' =>
                         Following(r)' /\ (pc' = "stampRemote" => u = Remote)
  BY DEF MirrorFollows
<1>2. CASE Untouched(Other(u), r)
  <2>1. /\ rows[u][r] # Absent
        /\ created[u][r] > Cursor(u, r) => Following(r) /\ (pc = "stampRemote" => u = Remote)
    BY <1>1, <1>2 DEF MirrorFollows, Untouched
  <2>2. rows'[u][r] # Absent
    BY <1>1, <2>1, PresenceGrows DEF Sole
  <2>3. created'[u][r] = created[u][r]
    BY <2>1, OwnRows DEF Untouched, WrittenByUser
  <2>4. ASSUME created'[u][r] > Cursor(u, r)'
        PROVE  Following(r)' /\ (pc' = "stampRemote" => u = Remote)
    <3>1. created[u][r] > Cursor(u, r)
      BY <1>1, <2>3, <2>4, CursorGrows
    <3>2. Following(r) /\ (pc = "stampRemote" => u = Remote)
      BY <2>1, <3>1
    <3>3. ~(u = Local /\ StampLocal) /\ ~(u = Remote /\ StampRemote)
      BY <1>1, <2>3, <2>4, <3>2, CursorGrows DEF Following
    <3>4. ~StampRemote /\ (StampLocal => u = Remote)
      BY <1>1, <3>2, <3>3 DEF StampRemote, Local, Remote
    <3> QED
      BY <3>2, <3>4, FollowingSteps DEF Following, Stamping, StampLocal
  <2> QED
    BY <2>2, <2>4
<1>3. CASE WrittenByBatch(Other(u), r) /\ Following(r) /\ Following(r)' /\ pc = "apply"
  <2>1. source = u
    BY <1>1, <1>3 DEF WrittenByBatch, Target, Local, Remote
  <2>2. rows'[u][r] # Absent
    BY <1>1, <1>3, <2>1, PresenceGrows DEF WrittenByBatch, Sole
  <2>3. pc' # "stampRemote"
    BY <1>3, FollowingSteps DEF StampLocal, StampRemote
  <2> QED
    BY <1>3, <2>2, <2>3
<1> QED
  BY <1>2, <1>3, OwnRows

\* What the side with users detects fits the other side.
LEMMA DetectedFits ==
  ASSUME NEW u, Sole(u), OwnInv(u), pc \in Detecting, NEW t \in Tables, NEW now,
         NEW o \in Detected(u, t, now)
  PROVE  Fits(u, o) /\ o.record \in Record
<1> DEFINE last == control[u][t].version
           Type(q) == IF rows[u][q] = Absent THEN "D"
                      ELSE IF created[u][q] > last THEN "I" ELSE "U"
<1>1. PICK q \in Record : /\ TableOf[q] = t /\ changed[u][q] > last
                          /\ o = [record |-> q, type |-> Type(q), version |-> changed[u][q],
                                  data |-> rows[u][q], timestamp |-> now]
  BY DEF Detected
<1>2. u \in Side /\ RowsStay /\ MirrorFollows(u) /\ last \in Nat /\ changed[u][q] \in Nat
  BY DEF Sole, OwnInv, WorkInv, CursorInv, Shape, TypeOK, StoreTypeOK, ControlRow
<1>3. rows[u][q] # Absent
  BY <1>1, <1>2 DEF RowsStay
<1>4. o.record = q /\ o.type = Type(q) /\ o.data = rows[u][q]
  BY <1>1
<1>5. Type(q) = "I" => created[u][q] > Cursor(u, q)
  BY <1>1, <1>3 DEF Cursor
<1>6. Type(q) = "I" => rows[Other(u)][q] = Absent
  BY <1>2, <1>5 DEF MirrorFollows, Following, Stamping, Detecting
<1> QED
  BY <1>1, <1>3, <1>4, <1>6 DEF Fits, Present

LEMMA FoundFitsStep ==
  ASSUME NEW u, Sole(u), OwnInv(u), [Next]_vars
  PROVE  FoundFits(u)'
<1> SUFFICES ASSUME pc' = "detectRemote", NEW o \in found' PROVE Fits(u, o)'
  BY DEF FoundFits
<1>1. /\ Shape /\ PlanAhead /\ FoundFits(u) /\ FoundInv /\ DraftPresent
      /\ u \in Side /\ OneWayOnly(u) /\ OneWayOnly(u)'
  BY OneWayStep DEF Sole, OwnInv, WorkInv, CursorInv
<1>2. u = Local
  BY <1>1 DEF OneWayOnly
<1>3. \/ DetectLocal
      \/ pc = "detectRemote" /\ UNCHANGED found
  BY <1>1, PhaseSteps
     DEF Detecting, Executing, StampRemote, StampLocal, NextTable, EndCycle, Resolve
<1>4. Fits(u, o) /\ o.record \in Record
  <2>1. CASE DetectLocal
    <3>1. pc \in Detecting /\ table \in Tables /\ found' = Detected(Local, table, 0)
      BY <1>1, <2>1 DEF DetectLocal, Detecting, Shape, Phase, Replaying
    <3> QED
      BY <1>2, <3>1, DetectedFits
  <2>2. CASE pc = "detectRemote" /\ UNCHANGED found
    BY <1>1, <2>2 DEF FoundFits, FoundInv, Ahead
  <2> QED
    BY <1>3, <2>1, <2>2
<1>5. rows'[u][o.record] # Absent
  BY <1>1, <1>4, PresenceGrows DEF Fits, Present, Sole
<1>6. rows'[Other(u)][o.record] = rows[Other(u)][o.record]
  BY <1>3, <1>4, OwnRows DEF Untouched, DetectLocal
<1> QED
  BY <1>4, <1>5, <1>6 DEF Fits, Present

\* The plan of the side with users fits the other side, with every record once.
LEMMA ResolvedFits ==
  ASSUME NEW u, Sole(u), OwnInv(u), DetectRemote, NEW now \in {0, 1},
         Resolve(Detected(Remote, table, now))
  PROVE  /\ \A i \in DOMAIN plan'[u] : Fits(u, plan'[u][i]) /\ plan'[u][i].record \in Record
         /\ \A i, j \in DOMAIN plan'[u] : plan'[u][i].record = plan'[u][j].record => i = j
<1> DEFINE theirs == Detected(Remote, table, now)
           out == LocalToRemote(found, theirs)
           in  == RemoteToLocal(found, theirs)
<1>1. /\ table \in Tables /\ StoreTypeOK /\ pc = "detectRemote" /\ pc \in Detecting
      /\ IsFiniteSet(found) /\ FoundInv /\ FoundFits(u) /\ u \in Side
  BY DEF DetectRemote, Sole, OwnInv, WorkInv, CursorInv, Shape, TypeOK, Phase, Replaying, Detecting
<1>2. /\ OnePerRecord(found)
      /\ \A o \in found : Fits(u, o) /\ o.record \in Record
  BY <1>1 DEF FoundInv, FoundFits, Ahead
<1>3. /\ IsFiniteSet(theirs) /\ OnePerRecord(theirs)
      /\ u = Remote => \A o \in theirs : Fits(u, o) /\ o.record \in Record
  BY <1>1, DetectedType, DetectedIsAhead, DetectedFits
<1>4. PICK l \in Listings(out, theirs), r \in Listings(in, found) :
        plan' = [s \in Side |-> IF s = Local THEN l ELSE r]
  BY DEF Resolve
<1> HIDE DEF theirs
<1>5. out \subseteq found /\ in \subseteq theirs
  BY DEF LocalToRemote, RemoteToLocal
<1>6. IsFiniteSet(out) /\ IsFiniteSet(in)
  BY <1>1, <1>3, <1>5, FS_Subset
<1> HIDE DEF out, in
<1>7. ASSUME NEW ops, NEW all, NEW others, ops \subseteq all, OnePerRecord(all), IsFiniteSet(ops),
             NEW k \in Listings(ops, others), NEW i \in DOMAIN k, NEW j \in DOMAIN k,
             k[i].record = k[j].record
      PROVE  i = j
  <2>1. k[i] \in ops /\ k[j] \in ops
    BY <1>7, ListingIsComplete
  <2>2. k[i] = k[j]
    BY <1>7, <2>1 DEF OnePerRecord
  <2> QED
    BY <1>7, <2>2, ListingIsInjective
<1>8. plan'[Local] = l /\ plan'[Remote] = r
  BY <1>4 DEF Local, Remote
<1>9. CASE u = Local
  <2>1. \A i \in DOMAIN l : l[i] \in found
    BY <1>5, <1>6, ListingIsComplete
  <2>2. \A i, j \in DOMAIN l : l[i].record = l[j].record => i = j
    BY <1>2, <1>5, <1>6, <1>7
  <2> QED
    BY <1>2, <1>8, <1>9, <2>1, <2>2
<1>10. CASE u = Remote
  <2>1. \A i \in DOMAIN r : r[i] \in theirs
    BY <1>5, <1>6, ListingIsComplete
  <2>2. \A i, j \in DOMAIN r : r[i].record = r[j].record => i = j
    BY <1>3, <1>5, <1>6, <1>7
  <2> QED
    BY <1>3, <1>8, <1>10, <2>1, <2>2
<1> QED
  BY <1>1, <1>9, <1>10

\* While the cycle is in apply, its plan and table stay, or resolve() just made them.
LEMMA OwnPlanSteps ==
  ASSUME NEW u, Sole(u), OwnInv(u), [Next]_vars, pc' = "apply"
  PROVE  \/ pc = "apply" /\ UNCHANGED <<plan, table>>
         \/ DetectRemote /\ \E now \in {0, 1} : Resolve(Detected(Remote, table, now))
<1>1. Shape /\ PlanAhead /\ pc \notin {"fail", "queue"}
  BY DEF OwnInv, WorkInv, CursorInv, NothingFailed
<1> QED
  BY <1>1, PhaseSteps
     DEF Executing, Detecting, DetectLocal, StampRemote, StampLocal, NextTable, EndCycle

LEMMA PlanFollowsStep ==
  ASSUME NEW u, Sole(u), OwnInv(u), [Next]_vars
  PROVE  PlanFollows(u)'
<1>1. Shape /\ DraftPresent /\ PlanFollows(u) /\ u \in Side
  BY DEF Sole, OwnInv, WorkInv, CursorInv
<1>2. ASSUME NEW now \in {0, 1}, DetectRemote, Resolve(Detected(Remote, table, now))
      PROVE  PlanFollows(u)'
  <2>1. UNCHANGED rows
    BY <1>2 DEF DetectRemote, database
  <2> QED
    BY <1>2, <2>1, ResolvedFits DEF PlanFollows, Fits, Present
<1>3. CASE UNCHANGED plan /\ (pc' = "apply" => pc = "apply")
  <2>1. ASSUME pc' = "apply", NEW i \in DOMAIN plan[u]
        PROVE  Present(u, plan[u][i])'
    <3>1. plan[u][i] \in SyncOperation
      BY <1>1, LenProperties, ElementOfSeq DEF Shape, TypeOK, CycleTypeOK
    <3>2. Present(u, plan[u][i]) /\ plan[u][i].record \in Record
      BY <1>1, <1>3, <2>1, <3>1 DEF PlanFollows, SyncOperation
    <3>3. rows'[u][plan[u][i].record] # Absent
      BY <1>1, <3>2, PresenceGrows DEF Sole, Present
    <3> QED
      BY <1>3, <3>2, <3>3 DEF Present
  <2> QED
    BY <1>1, <1>3, <2>1 DEF PlanFollows
<1>4. CASE plan' = NoPlan /\ pc' # "apply"
  <2>1. DOMAIN plan'[u] = {}
    BY <1>1, <1>4 DEF NoPlan
  <2> QED
    BY <1>4, <2>1 DEF PlanFollows
<1>5. CASE UserStep \/ UNCHANGED vars
  BY <1>3, <1>5 DEF UserStep, UserWrite, vars, cycle
<1>6. CASE StartCycle \/ NextReplay \/ DetectLocal \/ NextDirection \/ StampLocal \/ CommitBatch
           \/ \E i \in todo : ApplyOperation(i)
  BY <1>3, <1>6 DEF StartCycle, NextReplay, DetectLocal, NextDirection, StampLocal, CommitBatch,
     ApplyOperation
<1>7. NextTable => PlanFollows(u)'
  BY <1>4 DEF NextTable, EndCycle
<1>8. CASE DetectRemote \/ StampRemote
  BY <1>2, <1>7, <1>8 DEF DetectRemote, StampRemote
<1> QED
  BY <1>5, <1>6, <1>8, OwnSteps

LEMMA InsertsFitStep ==
  ASSUME NEW u, Sole(u), OwnInv(u), [Next]_vars
  PROVE  InsertsFit(u)'
<1> SUFFICES ASSUME pc' = "apply", NEW i \in DOMAIN plan'[u],
                    NotApplied(u, i)', plan'[u][i].type = "I"
             PROVE  /\ rows'[Other(u)][plan'[u][i].record] = Absent
                    /\ plan'[u][i].record \notin touched'
  BY DEF InsertsFit
<1>1. /\ Shape /\ Locks /\ InsertsFit(u) /\ PlanFollows(u)
      /\ u \in Side /\ Other(u) \in Side /\ source \in Side
  BY DEF Sole, OwnInv, WorkInv, CursorInv, Shape, TypeOK, CycleTypeOK
<1>2. CASE DetectRemote /\ \E now \in {0, 1} : Resolve(Detected(Remote, table, now))
  <2>1. UNCHANGED rows /\ touched' = {}
    BY <1>1, <1>2 DEF DetectRemote, database, Resolve, txn, Locks
  <2> QED
    BY <1>2, <2>1, ResolvedFits DEF Fits
<1>3. CASE pc = "apply" /\ UNCHANGED <<plan, table>>
  <2> DEFINE r == plan[u][i].record
  <2>1. r \in Record
    <3>1. plan[u][i] \in SyncOperation
      BY <1>1, <1>3, LenProperties, ElementOfSeq DEF Shape, TypeOK, CycleTypeOK
    <3> QED
      BY <3>1 DEF SyncOperation
  <2>2. NotApplied(u, i) => rows[Other(u)][r] = Absent /\ r \notin touched
    BY <1>1, <1>3 DEF InsertsFit
  <2>3. ASSUME NotApplied(u, i), r \notin touched' PROVE rows'[Other(u)][r] = Absent /\ r \notin touched'
    <3>1. Untouched(Other(u), r)
      BY <2>1, <2>2, <2>3, OwnRows DEF WrittenByBatch
    <3> QED
      BY <2>2, <2>3, <3>1 DEF Untouched
  <2>4. NotApplied(u, i) /\ r \notin touched'
    <3>1. CASE UserStep \/ UNCHANGED vars
      <4>1. UNCHANGED <<touched, todo, source>>
        BY <3>1 DEF UserStep, UserWrite, vars, txn, cycle
      <4> QED
        BY <2>2, <4>1 DEF NotApplied
    <3>2. CASE NextDirection
      <4>1. source = Local /\ source' = Remote /\ touched' = {}
        BY <1>1, <3>2 DEF NextDirection, txn, Locks
      <4> QED
        BY <1>1, <4>1 DEF NotApplied, Local, Remote
    <3>3. CASE CommitBatch
      BY <3>3 DEF CommitBatch, CloseTxn, NotApplied
    <3>4. ASSUME NEW j \in todo, ApplyOperation(j), source = u
          PROVE  NotApplied(u, i) /\ r \notin touched'
      <4>1. i \in todo /\ i # j
        BY <1>1, <3>4 DEF NotApplied, ApplyOperation, Local, Remote
      <4>2. j \in DOMAIN plan[u] /\ Operation(j) = plan[u][j]
        BY <1>1, <1>3, <3>4 DEF Shape, Executing, Operation
      <4>3. plan[u][j].record # r
        BY <1>1, <1>3, <4>1, <4>2 DEF PlanFollows
      <4>4. touched' \subseteq touched \cup {plan[u][j].record}
        BY <3>4, <4>2 DEF ApplyOperation
      <4>5. NotApplied(u, i)
        BY <3>4, <4>1 DEF NotApplied
      <4> QED
        BY <2>2, <4>3, <4>4, <4>5
    <3> QED
      BY <1>3, <3>1, <3>2, <3>3, <3>4, OwnSteps DEF StartCycle, NextReplay, DetectLocal,
         DetectRemote, StampLocal, StampRemote
  <2> QED
    BY <1>3, <2>3, <2>4
<1> QED
  BY <1>2, <1>3, OwnPlanSteps

-----------------------------------------------------------------------------
LEMMA OwnStep ==
  ASSUME NEW u, Sole(u)
  PROVE  OwnInv(u) /\ [Next]_vars => OwnInv(u)'
<1> SUFFICES ASSUME OwnInv(u), [Next]_vars PROVE OwnInv(u)'
  OBVIOUS
<1>1. WorkInv'
  BY WorkStep DEF OwnInv
<1> QED
  BY <1>1, OwnDraftStep, NothingFailedStep, MirrorQuietStep, OneWayStep, FoundFitsStep,
     PlanFollowsStep, MirrorFollowsStep, InsertsFitStep DEF OwnInv

LEMMA InitOwn ==
  ASSUME NEW u, Sole(u)
  PROVE  Init => OwnInv(u)
<1> SUFFICES ASSUME Init PROVE OwnInv(u)
  OBVIOUS
<1>1. WorkInv
  BY InitWork
<1>2. u \in Side /\ Other(u) \in Side
  BY DEF Sole
<1>3. RowsStay /\ DraftPresent /\ CreatedBounded /\ NothingFailed
  BY DEF Init, RowsStay, DraftPresent, CreatedBounded, NothingFailed
<1>4. \A s \in Side, r \in Record :
        /\ ~Visible(s, r) /\ ~(created[s][r] > Cursor(s, r))
        /\ rows[Local][r] = rows[Remote][r]
  <2>1. \A r \in Record : TableOf[r] \in Tables
    BY ConfigAssumption DEF ConfigAssumption
  <2> QED
    BY <2>1 DEF Init, Visible, Cursor
<1>5. MirrorQuiet(u) /\ MirrorFollows(u)
  BY <1>2, <1>4 DEF MirrorQuiet, MirrorFollows
<1>6. DOMAIN plan[u] = {} /\ DOMAIN plan[Other(u)] = {} /\ found = {} /\ pc = "idle"
  BY <1>2 DEF Init, NoPlan
<1>7. OneWayOnly(u) /\ FoundFits(u) /\ PlanFollows(u) /\ InsertsFit(u)
  BY <1>6 DEF OneWayOnly, FoundFits, PlanFollows, InsertsFit
<1> QED
  BY <1>1, <1>3, <1>5, <1>7 DEF OwnInv

\* A row changed by a user is dated by the user's clock.
LEMMA UsersDate ==
  ASSUME NEW u, Sole(u), OwnInv(u), [Next]_vars, NEW r \in Record, rows'[u][r] # rows[u][r]
  PROVE  edited'[u][r] # edited[u][r]
<1>1. Shape /\ Bounds /\ u \in Side
  BY DEF Sole, OwnInv, WorkInv, CursorInv
<1>2. WrittenByUser(u, r)
  BY OwnRows DEF Untouched
<1>3. PICK s \in Side, q \in Record, kind \in OperationType : UserWrite(s, q, kind)
  BY <1>2 DEF WrittenByUser, UserStep
<1>4. rows \in [Side -> [Record -> Nat]] /\ edited \in [Side -> [Record -> Nat]] /\ clock \in Nat
  BY <1>1 DEF Shape, TypeOK, StoreTypeOK
<1>5. rows' = [rows EXCEPT ![s][q] = IF kind = "D" THEN Absent ELSE clock']
  BY <1>3 DEF UserWrite
<1>6. s = u /\ q = r
  BY <1>1, <1>4, <1>5
<1>7. edited'[u][r] = clock + 1
  BY <1>1, <1>3, <1>4, <1>6 DEF UserWrite
<1>8. edited[u][r] <= clock /\ edited[u][r] \in Nat
  BY <1>1, <1>4 DEF Bounds
<1> QED
  BY <1>4, <1>7, <1>8

\* With users on one side who do not delete, and without faults, no cycle fails, and
\* the service never writes to the users' rows, whenever they write.
THEOREM SoleSideIsFollowed ==
  ASSUME NEW u, Sole(u)
  PROVE  Spec => /\ [](lastStatus # "FAILED")
                 /\ [][\A r \in Record : rows'[u][r] # rows[u][r] =>
                                           edited'[u][r] # edited[u][r]]_vars
<1>1. Init => OwnInv(u)
  BY InitOwn
<1>2. OwnInv(u) /\ [Next]_vars => OwnInv(u)'
  BY OwnStep
<1>3. OwnInv(u) => lastStatus # "FAILED"
  BY DEF OwnInv, NothingFailed
<1>4. OwnInv(u) /\ [Next]_vars =>
        [\A r \in Record : rows'[u][r] # rows[u][r] => edited'[u][r] # edited[u][r]]_vars
  BY UsersDate
<1> QED
  BY <1>1, <1>2, <1>3, <1>4, PTL DEF Spec

\* The same of whichever side it is: what run OneWay checks.
THEOREM UsersAreLeftAlone ==
  ASSUME NeverDelete, NoFaults
  PROVE  Spec => UsersOwnTheirSide
<1>1. CASE \E u \in Side : Writers = {u}
  <2>1. PICK u \in Side : Writers = {u}
    BY <1>1
  <2>2. Sole(u)
    BY <2>1 DEF Sole
  <2>3. Spec => [][\A r \in Record : rows'[u][r] # rows[u][r] =>
                                           edited'[u][r] # edited[u][r]]_vars
    BY <2>2, SoleSideIsFollowed
  <2>4. [\A r \in Record : rows'[u][r] # rows[u][r] => edited'[u][r] # edited[u][r]]_vars =>
          [\A s \in Writers, r \in Record :
             Writers = {s} /\ rows'[s][r] # rows[s][r] => edited'[s][r] # edited[s][r]]_vars
    BY <2>1
  <2> QED
    BY <2>3, <2>4, PTL DEF UsersOwnTheirSide
<1>2. CASE ~\E u \in Side : Writers = {u}
  <2>1. [\A s \in Writers, r \in Record :
           Writers = {s} /\ rows'[s][r] # rows[s][r] => edited'[s][r] # edited[s][r]]_vars
    BY <1>2, ConfigAssumption DEF ConfigAssumption
  <2> QED
    BY <2>1, PTL DEF UsersOwnTheirSide
<1> QED
  BY <1>1, <1>2

-----------------------------------------------------------------------------
(***************************************************************************)
(* No insertions and no faults: both sides may have users, who update and  *)
(* delete at any moment.                                                   *)
(***************************************************************************)
NeverInsert == "I" \notin EditKinds

\* No row was created since change tracking began.
NothingInserted ==
  /\ \A s \in Side, r \in Record : created[s][r] = 0
  /\ \A o \in found : o.type # "I"
  /\ \A s \in Side : \A i \in DOMAIN plan[s] : plan[s][i].type # "I"
  /\ inserted = {}

PlainInv == Shape /\ NothingFailed /\ NothingInserted

\* Without a creation there is no insertion to detect.
LEMMA DetectsNoInsertion ==
  ASSUME Shape, NothingInserted, NEW s \in Side, NEW t \in Tables, NEW now,
         NEW o \in Detected(s, t, now)
  PROVE  o.type # "I"
<1>1. PICK r \in Record :
        o.type = IF rows[s][r] = Absent THEN "D"
                 ELSE IF created[s][r] > control[s][t].version THEN "I" ELSE "U"
  BY DEF Detected
<1>2. created[s][r] = 0 /\ control[s][t].version \in Nat
  BY DEF NothingInserted, Shape, TypeOK, StoreTypeOK, ControlRow
<1> QED
  BY <1>1, <1>2

\* Only insertions fail: the steps there are.
LEMMA PlainSteps ==
  ASSUME NoFaults, PlainInv, [Next]_vars
  PROVE  \/ UserStep \/ StartCycle \/ NextReplay \/ DetectLocal \/ DetectRemote
         \/ NextDirection \/ StampLocal \/ StampRemote \/ UNCHANGED vars
         \/ pc = "apply" /\ \E i \in todo : ApplyOperation(i) /\ Operation(i).type # "I"
         \/ pc = "apply" /\ CommitBatch
<1>1. Shape /\ NothingFailed /\ source \in Side /\ faults \in Nat
  BY DEF PlainInv, Shape, TypeOK, StoreTypeOK, CycleTypeOK
<1>2. ~FaultStep
  BY <1>1 DEF NoFaults, FaultStep, Fault, PreconditionFails, StatementFails, BatchFails,
              CommitUnacknowledged, HandlerFails, Crash
<1>3. ASSUME NEW i \in todo, pc \in {"replay", "apply"}
      PROVE  pc = "apply" /\ Operation(i).type # "I"
  <2>1. pc = "apply"
    BY <1>1, <1>3 DEF NothingFailed
  <2>2. i \in DOMAIN plan[source] /\ Operation(i) = plan[source][i]
    BY <1>1, <1>3, <2>1 DEF Shape, Executing, Operation
  <2> QED
    BY <1>1, <2>1, <2>2 DEF PlainInv, NothingInserted
<1>4. ASSUME NEW i \in todo, DuplicateKey(i) PROVE FALSE
  BY <1>3, <1>4 DEF DuplicateKey
<1>5. ASSUME NEW i \in todo, ApplyOperation(i) PROVE pc = "apply" /\ Operation(i).type # "I"
  BY <1>3, <1>5 DEF ApplyOperation
<1>6. ASSUME CommitBatch PROVE pc = "apply"
  BY <1>1, <1>6 DEF CommitBatch, Commit, BatchFull, NothingFailed
<1>7. pc \notin {"mark", "fail", "queue"}
  BY <1>1 DEF NothingFailed
<1> QED
  BY <1>2, <1>4, <1>5, <1>6, <1>7 DEF Next, CycleStep, MarkCompleted, MarkFailure, QueueOperation,
     RaiseProcessingError

\* A plan resolved without insertions has none.
LEMMA PlansNoInsertion ==
  ASSUME PlainInv, DetectRemote, NEW now \in {0, 1}, Resolve(Detected(Remote, table, now)),
         NEW s \in Side, NEW i \in DOMAIN plan'[s]
  PROVE  plan'[s][i].type # "I"
<1> DEFINE theirs == Detected(Remote, table, now)
           out == LocalToRemote(found, theirs)
           in  == RemoteToLocal(found, theirs)
<1>1. /\ Shape /\ StoreTypeOK /\ NothingInserted /\ table \in Tables /\ IsFiniteSet(found)
      /\ Remote \in Side
  BY DEF PlainInv, DetectRemote, Shape, TypeOK, Phase, Replaying
<1>2. IsFiniteSet(theirs) /\ \A o \in theirs : o.type # "I"
  BY <1>1, DetectedType, DetectsNoInsertion
<1>3. PICK l \in Listings(out, theirs), r \in Listings(in, found) :
        plan' = [d \in Side |-> IF d = Local THEN l ELSE r]
  BY DEF Resolve
<1> HIDE DEF theirs
<1>4. out \subseteq found /\ in \subseteq theirs
  BY DEF LocalToRemote, RemoteToLocal
<1>5. IsFiniteSet(out) /\ IsFiniteSet(in)
  BY <1>1, <1>2, <1>4, FS_Subset
<1> HIDE DEF out, in
<1>6. (\A k \in DOMAIN l : l[k] \in out) /\ (\A k \in DOMAIN r : r[k] \in in)
  BY <1>5, ListingIsComplete
<1>7. plan'[Local] = l /\ plan'[Remote] = r
  BY <1>3 DEF Local, Remote
<1> QED
  BY <1>1, <1>2, <1>4, <1>6, <1>7 DEF NothingInserted

LEMMA PlainStep ==
  ASSUME NoFaults, NeverInsert
  PROVE  PlainInv /\ [Next]_vars => PlainInv'
<1> SUFFICES ASSUME PlainInv, [Next]_vars PROVE PlainInv'
  OBVIOUS
<1>1. Shape /\ NothingFailed /\ NothingInserted /\ Shape'
  BY ShapeStep DEF PlainInv
<1>2. \A s \in Side : PendingIds(s) = {}
  BY <1>1 DEF NothingFailed, PendingIds
<1>3. CASE UserStep
  <2>1. PICK u \in Side, q \in Record, kind \in OperationType : UserWrite(u, q, kind)
    BY <1>3 DEF UserStep
  <2>2. UNCHANGED <<created, pending, txn, cycle>>
    BY <2>1 DEF UserWrite, NeverInsert
  <2> QED
    BY <1>1, <2>2 DEF PlainInv, NothingFailed, NothingInserted, txn, cycle
<1>4. CASE StartCycle \/ NextReplay \/ NextDirection \/ StampLocal
  BY <1>1, <1>2, <1>4 DEF StartCycle, NextReplay, NextDirection, StampLocal,
     PlainInv, NothingFailed, NothingInserted, Shape, database, txn
<1>5. CASE DetectLocal
  <2>1. \A o \in found' : o.type # "I"
    <3>1. table \in Tables /\ found' = Detected(Local, table, 0) /\ Local \in Side
      BY <1>1, <1>5 DEF DetectLocal, Shape, Phase, Replaying
    <3> QED
      BY <1>1, <3>1, DetectsNoInsertion
  <2> QED
    BY <1>1, <1>5, <2>1 DEF DetectLocal, PlainInv, NothingFailed, NothingInserted, database, txn
<1>6. ASSUME NextTable, UNCHANGED <<created, pending>> PROVE PlainInv'
  <2>1. \A s \in Side : DOMAIN NoPlan[s] = {}
    BY DEF NoPlan
  <2> QED
    BY <1>1, <1>6, <2>1 DEF NextTable, EndCycle, CloseTxn, PlainInv, NothingFailed,
                            NothingInserted, txn
<1>7. CASE DetectRemote
  <2>1. UNCHANGED <<created, pending>>
    BY <1>7 DEF DetectRemote, database
  <2>2. PICK now \in {0, 1} : NextTable \/ Resolve(Detected(Remote, table, now))
    BY <1>7 DEF DetectRemote
  <2>3. CASE Resolve(Detected(Remote, table, now))
    <3>1. \A s \in Side : \A i \in DOMAIN plan'[s] : plan'[s][i].type # "I"
      BY <1>7, <2>3, PlansNoInsertion
    <3> QED
      BY <1>1, <2>1, <2>3, <3>1 DEF Resolve, PlainInv, NothingFailed, NothingInserted, txn
  <2> QED
    BY <1>6, <2>1, <2>2, <2>3
<1>8. CASE StampRemote
  BY <1>6, <1>8 DEF StampRemote, database
<1>9. CASE pc = "apply" /\ \E i \in todo : ApplyOperation(i) /\ Operation(i).type # "I"
  BY <1>1, <1>9 DEF ApplyOperation, PlainInv, NothingFailed, NothingInserted, database
<1>10. CASE pc = "apply" /\ CommitBatch
  <2>1. created' = created
    <3>1. created \in [Side -> [Record -> Nat]] /\ inserted = {} /\ Target \in Side
      BY <1>1 DEF Shape, TypeOK, StoreTypeOK, CycleTypeOK, NothingInserted, Target
    <3>2. created' = [created EXCEPT ![Target] =
                        [r \in Record |-> IF r \in inserted THEN version[Target] + 1 ELSE @[r]]]
      BY <1>10 DEF CommitBatch, Commit
    <3>3. [r \in Record |-> IF r \in inserted THEN version[Target] + 1 ELSE created[Target][r]]
            = created[Target]
      BY <3>1
    <3> QED
      BY <3>1, <3>2, <3>3
  <2> QED
    BY <1>1, <1>10, <2>1
       DEF CommitBatch, Commit, CloseTxn, PlainInv, NothingFailed, NothingInserted
<1>11. CASE UNCHANGED vars
  BY <1>1, <1>11 DEF vars, database, txn, cycle, PlainInv, NothingFailed, NothingInserted
<1> QED
  BY <1>3, <1>4, <1>5, <1>7, <1>8, <1>9, <1>10, <1>11, PlainSteps DEF PlainInv

\* A cycle fails for a fault or for an insertion, and for nothing else: users of both
\* sides who update and delete, at any moment and however their writes conflict, do not
\* make a cycle fail.
THEOREM OnlyInsertionsFail ==
  ASSUME NoFaults, NeverInsert
  PROVE  Spec => [](lastStatus # "FAILED")
<1>1. Init => PlainInv
  <2>1. Init => NothingFailed /\ NothingInserted
    BY DEF Init, NothingFailed, NothingInserted, NoPlan
  <2> QED
    BY <2>1, InitShape DEF PlainInv
<1>2. PlainInv /\ [Next]_vars => PlainInv'
  BY PlainStep
<1>3. PlainInv => lastStatus # "FAILED"
  BY DEF PlainInv, NothingFailed
<1> QED
  BY <1>1, <1>2, <1>3, PTL DEF Spec

-----------------------------------------------------------------------------
(***************************************************************************)
(* Users who do not delete, any faults: what the service knows of a change *)
(* is consistent, and an insertion that was made cannot be made again.     *)
(***************************************************************************)

\* The operations the service holds in direction s.
Known(s) ==
  {pending[s][k].op : k \in DOMAIN pending[s]} \cup {plan[s][i] : i \in DOMAIN plan[s]}
    \cup (IF s = Local THEN found ELSE {})

\* They carry rows, and changes that were made.
KnownPresent == \A s \in Side : \A o \in Known(s) :
  Present(s, o) /\ o.version <= changed[s][o.record]

\* The type of a change that is still to be synchronized is the one it is detected with.
KnownIsCurrent == \A s \in Side : \A o \in Known(s) :
  o.version = changed[s][o.record] /\ Visible(s, o.record) =>
    (o.type = "I" <=> created[s][o.record] > Cursor(s, o.record))

\* Detected or queued twice, a change is an insertion both times or neither time.
KnownAgree == \A s \in Side : \A o, p \in Known(s) :
  o.record = p.record /\ o.version = p.version => (o.type = "I" <=> p.type = "I")

KnownInv ==
  WorkInv /\ RowsStay /\ DraftPresent /\ KnownPresent /\ KnownIsCurrent /\ KnownAgree

SameChange(o, p) ==
  o.record = p.record /\ o.version = p.version /\ o.type = p.type /\ o.data = p.data

\* What a detection of side s would return.
Detects(s, o) == pc \in Detecting /\ \E now \in {0, 1} : o \in Detected(s, table, now)

\* Operations are typed.
LEMMA KnownType ==
  ASSUME Shape, NEW s \in Side, NEW o \in Known(s)
  PROVE  o \in SyncOperation
<1>1. /\ pending[s] \in Seq(PendingRow) /\ plan[s] \in Seq(SyncOperation)
      /\ found \subseteq SyncOperation
  BY DEF Shape, TypeOK, StoreTypeOK, CycleTypeOK
<1>2. \A k \in DOMAIN pending[s] : pending[s][k].op \in SyncOperation
  <2>1. \A k \in DOMAIN pending[s] : pending[s][k] \in PendingRow
    BY <1>1, LenProperties, ElementOfSeq
  <2> QED
    BY <2>1 DEF PendingRow
<1>3. \A i \in DOMAIN plan[s] : plan[s][i] \in SyncOperation
  BY <1>1, LenProperties, ElementOfSeq
<1> QED
  BY <1>1, <1>2, <1>3 DEF Known

\* The service learns of changes by detecting them.
LEMMA KnownSteps ==
  ASSUME Shape, [Next]_vars, NEW s \in Side, NEW o \in Known(s)'
  PROVE  \E p : SameChange(o, p) /\ (p \in Known(s) \/ Detects(s, p))
<1>1. CASE \E k \in DOMAIN pending'[s] : o = pending'[s][k].op
  <2>1. PICK k \in DOMAIN pending'[s] : o = pending'[s][k].op
    BY <1>1
  <2>2. CASE k \in DOMAIN pending[s] /\ pending'[s][k].op = pending[s][k].op
    BY <2>1, <2>2 DEF Known, SameChange
  <2>3. CASE \E i \in DOMAIN plan[s] :
               /\ pending'[s][k].op.record = plan[s][i].record
               /\ pending'[s][k].op.version = plan[s][i].version
               /\ pending'[s][k].op.type = plan[s][i].type
               /\ pending'[s][k].op.data = plan[s][i].data
    BY <2>1, <2>3 DEF Known, SameChange
  <2> QED
    BY <2>2, <2>3, PendingSteps
<1>2. CASE \E i \in DOMAIN plan'[s] : o = plan'[s][i]
  <2>1. CASE UNCHANGED plan
    BY <1>2, <2>1 DEF Known, SameChange
  <2>2. CASE plan' = NoPlan
    BY <1>2, <2>2 DEF NoPlan
  <2>3. ASSUME DetectRemote, NEW now \in {0, 1}, Resolve(Detected(Remote, table, now))
        PROVE  o \in IF s = Local THEN found ELSE Detected(Remote, table, now)
    <3> DEFINE theirs == Detected(Remote, table, now)
               out == LocalToRemote(found, theirs)
               in  == RemoteToLocal(found, theirs)
    <3>1. StoreTypeOK /\ table \in Tables /\ IsFiniteSet(found) /\ Remote \in Side
      BY <2>3 DEF DetectRemote, Shape, TypeOK, Phase, Replaying
    <3>2. IsFiniteSet(theirs)
      BY <3>1, DetectedType
    <3>3. PICK l \in Listings(out, theirs), r \in Listings(in, found) :
            plan' = [d \in Side |-> IF d = Local THEN l ELSE r]
      BY <2>3 DEF Resolve
    <3> HIDE DEF theirs
    <3>4. out \subseteq found /\ in \subseteq theirs
      BY DEF LocalToRemote, RemoteToLocal
    <3>5. IsFiniteSet(out) /\ IsFiniteSet(in)
      BY <3>1, <3>2, <3>4, FS_Subset
    <3> HIDE DEF out, in
    <3>6. (\A k \in DOMAIN l : l[k] \in found) /\ (\A k \in DOMAIN r : r[k] \in theirs)
      BY <3>4, <3>5, ListingIsComplete
    <3>7. plan'[Local] = l /\ plan'[Remote] = r
      BY <3>3 DEF Local, Remote
    <3> QED
      BY <1>2, <3>6, <3>7 DEF theirs
  <2> QED
    BY <2>1, <2>2, <2>3, PlanMoves
       DEF Known, SameChange, Detects, Detecting, DetectRemote, Local, Remote
<1>3. CASE s = Local /\ o \in found'
  <2>1. CASE found' \subseteq found
    BY <1>3, <2>1 DEF Known, SameChange
  <2>2. CASE DetectLocal
    BY <1>3, <2>2 DEF DetectLocal, SameChange, Detects, Detecting
  <2>3. NextTable \/ (\E st : EndCycle(st)) \/ RetryOrRaise \/ BatchRaises => found' \subseteq found
    BY DEF NextTable, EndCycle, RetryOrRaise, Attempt, BatchRaises, DirectionRaises
  <2>4. ASSUME NEW theirs, Resolve(theirs) PROVE found' \subseteq found
    BY <2>4 DEF Resolve
  <2>5. CASE CycleStep /\ ~DetectLocal
    BY <2>1, <2>3, <2>4, <2>5 DEF CycleStep, StartCycle, NextReplay, ApplyOperation, DuplicateKey,
       CommitBatch, MarkCompleted, DetectRemote, NextDirection, MarkFailure, QueueOperation,
       RaiseProcessingError, StampLocal, StampRemote
  <2>6. CASE FaultStep
    BY <2>1, <2>3, <2>6 DEF FaultStep, PreconditionFails, StatementFails, BatchFails,
       HandlerFails, Crash, CommitUnacknowledged
  <2>7. CASE UserStep \/ UNCHANGED vars
    BY <2>1, <2>7 DEF UserStep, UserWrite, vars, cycle
  <2> QED
    BY <2>2, <2>5, <2>6, <2>7 DEF Next
<1> QED
  BY <1>1, <1>2, <1>3 DEF Known

\* What is detected carries a row and the type of the change.
LEMMA DetectsCurrent ==
  ASSUME Shape, RowsStay, NEW s \in Side, NEW o, Detects(s, o)
  PROVE  /\ o \in SyncOperation /\ Present(s, o)
         /\ o.version = changed[s][o.record] /\ Visible(s, o.record)
         /\ o.type = "I" <=> created[s][o.record] > Cursor(s, o.record)
<1>1. PICK now \in {0, 1} : o \in Detected(s, table, now)
  BY DEF Detects
<1>2. table \in Tables /\ StoreTypeOK
  BY DEF Detects, Detecting, Shape, TypeOK, Phase, Replaying
<1> DEFINE last == control[s][table].version
           Type(q) == IF rows[s][q] = Absent THEN "D"
                      ELSE IF created[s][q] > last THEN "I" ELSE "U"
<1>3. PICK q \in Record : /\ TableOf[q] = table /\ changed[s][q] > last
                          /\ o = [record |-> q, type |-> Type(q), version |-> changed[s][q],
                                  data |-> rows[s][q], timestamp |-> now]
  BY <1>1 DEF Detected
<1>4. last \in Nat /\ changed[s][q] \in Nat /\ rows[s][q] \in Nat
  BY <1>2 DEF StoreTypeOK, ControlRow
<1>5. rows[s][q] # Absent
  BY <1>3, <1>4 DEF RowsStay
<1>6. o.record = q /\ o.type = Type(q) /\ o.data = rows[s][q] /\ o.version = changed[s][q]
  BY <1>3
<1>7. Type(q) \in {"I", "U"} /\ (Type(q) = "I" <=> created[s][q] > last)
  BY <1>5
<1>8. o \in SyncOperation
  BY <1>3, <1>4, <1>7 DEF SyncOperation, OperationType
<1> QED
  BY <1>3, <1>5, <1>6, <1>7, <1>8 DEF Present, Visible, Cursor

\* Where a row keeps its version it keeps its creation, and its cursor unless a stamp
\* passes it.
LEMMA CurrentKept ==
  ASSUME KnownInv, NeverDelete, [Next]_vars, NEW s \in Side, NEW r \in Record,
         NEW v \in Nat, v <= changed[s][r], v = changed'[s][r], Visible(s, r)'
  PROVE  /\ v = changed[s][r] /\ Visible(s, r)
         /\ created'[s][r] > Cursor(s, r)' <=> created[s][r] > Cursor(s, r)
<1>1. Shape /\ DraftPresent /\ CursorInv /\ CursorsBounded /\ Bounds
  BY DEF KnownInv, WorkInv, CursorInv
<1>2. /\ changed[s][r] \in Nat /\ version[s] \in Nat /\ changed'[s][r] \in Nat
      /\ changed[s][r] <= version[s]
  BY <1>1, ShapeStep DEF Bounds, Shape, TypeOK, StoreTypeOK
<1>3. Untouched(s, r)
  BY <1>1, <1>2, RowMoves DEF WrittenByUser, WrittenByBatch
<1>4. TableOf[r] \in Tables
  BY ConfigAssumption DEF ConfigAssumption
<1>5. Cursor(s, r)' = Cursor(s, r)
  BY <1>1, <1>2, <1>3, <1>4, CursorMoves DEF Visible, Cursor, Untouched
<1> QED
  BY <1>3, <1>5 DEF Untouched, Visible

LEMMA KnownDraftStep ==
  ASSUME KnownInv, NeverDelete, [Next]_vars
  PROVE  DraftPresent'
<1>1. Shape /\ Locks /\ DraftPresent /\ KnownPresent /\ source \in Side
  BY DEF KnownInv, WorkInv, CursorInv, Shape, TypeOK, CycleTypeOK
<1>2. ASSUME NEW i \in todo, ApplyOperation(i)
      PROVE  DraftPresent'
  <2> DEFINE op == Operation(i)
  <2>1. op \in Known(source)
    BY <1>1, <1>2 DEF ApplyOperation, Operation, Known, Shape, Replaying, Executing
  <2>2. Present(source, op) /\ op.record \in Record
    BY <1>1, <2>1, KnownType DEF KnownPresent, SyncOperation
  <2>3. draft \in [Record -> Nat]
    BY <1>1 DEF Shape, TypeOK, CycleTypeOK
  <2>4. UNCHANGED <<rows, source>> /\ \A r \in touched' :
           \/ r \in touched /\ draft'[r] = draft[r]
           \/ r = op.record /\ draft'[r] = op.data
    BY <1>2, <2>2, <2>3 DEF ApplyOperation, database
  <2> HIDE DEF op
  <2> QED
    BY <1>1, <2>2, <2>4 DEF DraftPresent, Present
<1>3. CASE UserStep \/ UNCHANGED vars
  <2>1. UNCHANGED <<touched, draft, source>> /\ touched \subseteq Record
    BY <1>1, <1>3 DEF UserStep, UserWrite, vars, txn, cycle, Shape, TypeOK, CycleTypeOK
  <2>2. \A r \in Record : rows[source][r] # Absent => rows'[source][r] # Absent
    BY <1>1, PresenceGrows
  <2> QED
    BY <1>1, <2>1, <2>2 DEF DraftPresent
<1>4. CASE touched' = {}
  BY <1>4 DEF DraftPresent
<1> QED
  BY <1>1, <1>2, <1>3, <1>4, TxnSteps

LEMMA KnownStep ==
  ASSUME NeverDelete
  PROVE  KnownInv /\ [Next]_vars => KnownInv'
<1> SUFFICES ASSUME KnownInv, [Next]_vars PROVE KnownInv'
  OBVIOUS
<1>1. /\ Shape /\ DraftPresent /\ RowsStay /\ Bounds /\ CursorInv
      /\ KnownPresent /\ KnownIsCurrent /\ KnownAgree
  BY DEF KnownInv, WorkInv, CursorInv
<1>2. WorkInv' /\ Shape'
  BY WorkStep, ShapeStep, <1>1 DEF KnownInv
<1>3. RowsStay'
  BY <1>1, RowMoves DEF RowsStay, Untouched, WrittenByUser, WrittenByBatch
<1>4. DraftPresent'
  BY KnownDraftStep
<1>5. ASSUME NEW s \in Side, NEW o \in Known(s)'
      PROVE  \E p : /\ SameChange(o, p) /\ (p \in Known(s) \/ Detects(s, p))
                    /\ p \in SyncOperation /\ Present(s, p)
                    /\ p.version <= changed[s][p.record]
                    /\ p.version = changed[s][p.record] /\ Visible(s, p.record) =>
                         (p.type = "I" <=> created[s][p.record] > Cursor(s, p.record))
  <2>1. PICK p : SameChange(o, p) /\ (p \in Known(s) \/ Detects(s, p))
    BY <1>1, KnownSteps
  <2>2. CASE p \in Known(s)
    BY <1>1, <2>1, <2>2, KnownType DEF KnownPresent, KnownIsCurrent
  <2>3. CASE Detects(s, p)
    <3>1. /\ p \in SyncOperation /\ Present(s, p) /\ p.version = changed[s][p.record]
          /\ p.type = "I" <=> created[s][p.record] > Cursor(s, p.record)
      BY <1>1, <2>3, DetectsCurrent
    <3>2. p.version \in Nat
      BY <3>1 DEF SyncOperation
    <3> QED
      BY <2>1, <3>1, <3>2
  <2> QED
    BY <2>1, <2>2, <2>3
<1>6. KnownPresent'
  <2> SUFFICES ASSUME NEW s \in Side, NEW o \in Known(s)'
               PROVE  Present(s, o)' /\ o.version <= changed'[s][o.record]
    BY DEF KnownPresent
  <2>1. PICK p : /\ SameChange(o, p) /\ p \in SyncOperation /\ Present(s, p)
                 /\ p.version <= changed[s][p.record]
    BY <1>5
  <2>2. p.record \in Record /\ p.version \in Nat
    BY <2>1 DEF SyncOperation
  <2>3. rows'[s][p.record] # Absent
    BY <1>1, <2>1, <2>2, PresenceGrows DEF Present
  <2>4. p.version <= changed'[s][p.record]
    <3>1. /\ changed[s][p.record] \in Nat /\ changed'[s][p.record] \in Nat
          /\ changed[s][p.record] <= changed'[s][p.record]
      BY <1>1, <1>2, <2>2, Tracks DEF Shape, TypeOK, StoreTypeOK
    <3> QED
      BY <2>1, <2>2, <3>1
  <2> QED
    BY <2>1, <2>3, <2>4 DEF SameChange, Present
<1>7. KnownIsCurrent'
  <2> SUFFICES ASSUME NEW s \in Side, NEW o \in Known(s)',
                      o.version = changed'[s][o.record], Visible(s, o.record)'
               PROVE  o.type = "I" <=> created'[s][o.record] > Cursor(s, o.record)'
    BY DEF KnownIsCurrent
  <2>1. PICK p : /\ SameChange(o, p) /\ p \in SyncOperation
                 /\ p.version <= changed[s][p.record]
                 /\ p.version = changed[s][p.record] /\ Visible(s, p.record) =>
                      (p.type = "I" <=> created[s][p.record] > Cursor(s, p.record))
    BY <1>5
  <2>2. p.record \in Record /\ p.version \in Nat /\ o.record = p.record /\ o.version = p.version
    BY <2>1 DEF SyncOperation, SameChange
  <2>3. /\ p.version = changed[s][p.record] /\ Visible(s, p.record)
        /\ created'[s][p.record] > Cursor(s, p.record)' <=> created[s][p.record] > Cursor(s, p.record)
    BY <2>1, <2>2, CurrentKept
  <2> QED
    BY <2>1, <2>2, <2>3 DEF SameChange
<1>8. KnownAgree'
  <2> SUFFICES ASSUME NEW s \in Side, NEW o1 \in Known(s)', NEW o2 \in Known(s)',
                      o1.record = o2.record, o1.version = o2.version
               PROVE  o1.type = "I" <=> o2.type = "I"
    BY DEF KnownAgree
  <2> DEFINE Origin(o, p) ==
         /\ SameChange(o, p) /\ (p \in Known(s) \/ Detects(s, p))
         /\ p.version = changed[s][p.record] /\ Visible(s, p.record) =>
              (p.type = "I" <=> created[s][p.record] > Cursor(s, p.record))
  <2>1. PICK p1 : Origin(o1, p1)
    BY <1>5
  <2>2. PICK p2 : Origin(o2, p2)
    BY <1>5
  <2>3. p1.record = p2.record /\ p1.version = p2.version
    BY <2>1, <2>2 DEF SameChange
  <2>4. CASE p1 \in Known(s) /\ p2 \in Known(s)
    BY <1>1, <2>1, <2>2, <2>3, <2>4 DEF KnownAgree, SameChange
  <2>5. CASE Detects(s, p1) \/ Detects(s, p2)
    <3>1. p1.version = changed[s][p1.record] /\ Visible(s, p1.record)
      BY <1>1, <2>3, <2>5, DetectsCurrent
    <3> QED
      BY <2>1, <2>2, <2>3, <3>1 DEF SameChange
  <2> QED
    BY <2>1, <2>2, <2>4, <2>5
<1> QED
  BY <1>2, <1>3, <1>4, <1>6, <1>7, <1>8 DEF KnownInv

LEMMA InitKnown == Init => KnownInv
<1> SUFFICES ASSUME Init PROVE KnownInv
  OBVIOUS
<1>1. RowsStay /\ DraftPresent
  BY DEF Init, RowsStay, DraftPresent
<1>2. \A s \in Side : Known(s) = {}
  BY DEF Init, Known, NoPlan
<1> QED
  BY <1>1, <1>2, InitWork DEF KnownInv, KnownPresent, KnownIsCurrent, KnownAgree

\* A pending insertion of a row that is there.
Poisoned(s, k) ==
  /\ k \in DOMAIN pending[s]
  /\ pending[s][k].status = "PENDING" /\ pending[s][k].op.type = "I"
  /\ rows[Other(s)][pending[s][k].op.record] # Absent

\* The cycle is not past the replay of this operation, and marks no other row of it.
Stuck(s, k) ==
  /\ Poisoned(s, k)
  /\ pc \in {"idle"} \cup Replaying
  /\ pc \in Replaying => source = s \/ (s = Remote /\ source = Local)
  /\ pc \in Replaying /\ source = s =>
       /\ k \in todo
       /\ \A i \in batch : ChangeOf(pending[s][i].op) # ChangeOf(pending[s][k].op)

\* The steps of an idle service and of a replay.
LEMMA StuckSteps ==
  ASSUME NEW s \in Side, NEW k, Stuck(s, k), [Next]_vars
  PROVE  \/ StartCycle \/ NextReplay \/ CommitBatch
         \/ \E i \in todo : ApplyOperation(i)
         \/ \E i \in batch : MarkCompleted(i)
         \/ (UserStep \/ UNCHANGED vars) /\ UNCHANGED <<pending, pc, source, todo, batch>>
         \/ pc' = "idle" /\ UNCHANGED pending
<1>1. pc \in {"idle", "replay", "mark"}
  BY DEF Stuck, Replaying
<1>2. BatchRaises => pc' = "idle"
  BY <1>1 DEF BatchRaises, DirectionRaises, EndCycle
<1>3. CASE UserStep \/ UNCHANGED vars
  BY <1>3 DEF UserStep, UserWrite, vars, cycle
<1>4. CASE CycleStep
  BY <1>1, <1>2, <1>4 DEF CycleStep, DuplicateKey, DetectLocal, DetectRemote, NextDirection,
     MarkFailure, QueueOperation, RaiseProcessingError, StampLocal, StampRemote
<1>5. CASE FaultStep
  BY <1>1, <1>2, <1>5 DEF FaultStep, PreconditionFails, StatementFails, BatchFails, HandlerFails,
     Crash, CommitUnacknowledged, Commit, EndCycle
<1> QED
  BY <1>3, <1>4, <1>5 DEF Next

\* The operation stays pending and its row stays: only its own mark, or that of another
\* row with its change, would complete it.
LEMMA PoisonStays ==
  ASSUME KnownInv, NeverDelete, NEW s \in Side, NEW k, Stuck(s, k), [Next]_vars
  PROVE  Poisoned(s, k)' /\ pending'[s][k].op = pending[s][k].op
<1>1. /\ Shape /\ DraftPresent /\ pending \in [Side -> Seq(PendingRow)] /\ source \in Side
      /\ Poisoned(s, k) /\ Other(s) \in Side
  BY DEF KnownInv, WorkInv, CursorInv, Shape, TypeOK, StoreTypeOK, CycleTypeOK, Stuck
<1>2. \A n \in DOMAIN pending[s] : pending[s][n] \in PendingRow
  BY <1>1, LenProperties, ElementOfSeq
<1>3. rows'[Other(s)][pending[s][k].op.record] # Absent
  BY <1>1, <1>2, PresenceGrows DEF Poisoned, PendingRow, SyncOperation
<1>4. CASE UNCHANGED pending
  BY <1>1, <1>3, <1>4 DEF Poisoned
<1>5. ASSUME NEW i \in batch, MarkCompleted(i)
      PROVE  k \in DOMAIN pending'[s] /\ pending'[s][k] = pending[s][k]
  <2> DEFINE op == Operation(i)
             g == [n \in DOMAIN pending[source] |->
                    IF pending[source][n].op.record = op.record
                         /\ pending[source][n].op.version = op.version
                    THEN [pending[source][n] EXCEPT !.status = "COMPLETED"]
                    ELSE pending[source][n]]
  <2>1. pending' = [pending EXCEPT ![source] = g] /\ op = pending[source][i].op /\ pc \in Replaying
    BY <1>5 DEF MarkCompleted, Operation, Replaying
  <2>2. CASE s = source
    <3>1. op.record # pending[s][k].op.record \/ op.version # pending[s][k].op.version
      BY <1>5, <2>1, <2>2 DEF Stuck, ChangeOf
    <3>2. pending'[s] = g
      BY <1>1, <2>1, <2>2
    <3> QED
      BY <1>1, <2>2, <3>1, <3>2 DEF Poisoned
  <2>3. CASE s # source
    BY <1>1, <2>1, <2>3 DEF Poisoned
  <2> QED
    BY <2>2, <2>3
<1>6. CASE \E i \in batch : MarkCompleted(i)
  BY <1>1, <1>3, <1>5, <1>6 DEF Poisoned
<1> QED
  BY <1>4, <1>6, StuckSteps DEF StartCycle, NextReplay, CommitBatch, Commit, ApplyOperation

LEMMA StuckStep ==
  ASSUME NeverDelete, NEW s \in Side, NEW k
  PROVE  KnownInv /\ Stuck(s, k) /\ [Next]_vars => Stuck(s, k)'
<1> SUFFICES ASSUME KnownInv, Stuck(s, k), [Next]_vars PROVE Stuck(s, k)'
  OBVIOUS
<1>1. /\ Shape /\ DraftPresent /\ KnownAgree /\ Poisoned(s, k) /\ source \in Side
      /\ pc \in {"idle"} \cup Replaying
  BY DEF KnownInv, WorkInv, CursorInv, Shape, TypeOK, CycleTypeOK, Stuck
<1>2. Poisoned(s, k)' /\ pending'[s][k].op = pending[s][k].op
  BY PoisonStays
<1>3. CASE pc' = "idle"
  BY <1>2, <1>3 DEF Stuck, Replaying
<1>4. CASE StartCycle
  <2>1. batch' = {} /\ pc' = "replay" /\ source' = Local /\ todo' = PendingIds(Local)
    BY <1>1, <1>4 DEF StartCycle, Shape
  <2> QED
    BY <1>1, <1>2, <2>1 DEF Stuck, Replaying, PendingIds, Poisoned
<1>5. CASE NextReplay
  <2>1. pc = "replay" /\ todo = {} /\ batch = {}
    BY <1>5 DEF NextReplay
  <2>2. s = Remote /\ source = Local
    BY <2>1 DEF Stuck, Replaying
  <2>3. source' = Remote /\ todo' = PendingIds(Remote) /\ UNCHANGED <<pc, batch>>
    BY <1>5, <2>2 DEF NextReplay
  <2> QED
    BY <1>1, <1>2, <2>1, <2>2, <2>3 DEF Stuck, Replaying, PendingIds, Poisoned
<1>6. CASE CommitBatch
  <2>1. pc' = "mark" /\ pc = "replay" /\ UNCHANGED <<source, todo, batch, pending>>
    BY <1>1, <1>6 DEF CommitBatch, Commit, Replaying
  <2> QED
    BY <1>2, <2>1 DEF Stuck, Replaying
<1>7. ASSUME NEW i \in todo, ApplyOperation(i)
      PROVE  Stuck(s, k)'
  <2>1. /\ pc = "replay" /\ UNCHANGED <<pc, source, pending>>
        /\ todo' = todo \ {i} /\ batch' = batch \cup {i}
    BY <1>1, <1>7 DEF ApplyOperation, Replaying
  <2>2. ASSUME source = s, ChangeOf(pending[s][i].op) = ChangeOf(pending[s][k].op)
        PROVE  FALSE
    <3> DEFINE o == pending[s][i].op
               p == pending[s][k].op
    <3>1. i \in DOMAIN pending[s] /\ k \in DOMAIN pending[s] /\ Operation(i) = o
      BY <1>1, <1>7, <2>1, <2>2 DEF Shape, Replaying, Operation, Poisoned
    <3>2. o \in Known(s) /\ p \in Known(s) /\ o.record = p.record /\ o.version = p.version
      BY <2>2, <3>1 DEF Known, ChangeOf
    <3>3. o.type = "I"
      BY <1>1, <3>2 DEF KnownAgree, Poisoned
    <3>4. Current(o.record) = Absent
      BY <1>7, <3>1, <3>3 DEF ApplyOperation
    <3> QED
      BY <1>1, <2>2, <3>2, <3>4 DEF Current, Target, DraftPresent, Poisoned
  <2> QED
    BY <1>2, <2>1, <2>2 DEF Stuck, Replaying
<1>8. ASSUME NEW i \in batch, MarkCompleted(i)
      PROVE  Stuck(s, k)'
  <2>1. /\ pc = "mark" /\ pc' \in Replaying /\ UNCHANGED <<source, todo>> /\ batch' \subseteq batch
    BY <1>8 DEF MarkCompleted, Replaying
  <2>2. CASE source = s
    <3>1. batch \subseteq DOMAIN pending[s]
      BY <1>1, <2>1, <2>2 DEF Shape, Replaying
    <3>2. \A n \in DOMAIN pending[s] : ChangeOf(pending'[s][n].op) = ChangeOf(pending[s][n].op)
      <4>1. ASSUME NEW n \in DOMAIN pending[s]
            PROVE  ChangeOf(pending'[s][n].op) = ChangeOf(pending[s][n].op)
        <5>1. n \in DOMAIN pending'[s]
          BY <1>1, <1>8 DEF MarkCompleted, Shape, TypeOK, StoreTypeOK
        <5> QED
          BY <1>1, <2>1, <5>1, PendingSteps DEF ChangeOf
      <4> QED
        BY <4>1
    <3> QED
      BY <1>1, <1>2, <2>1, <2>2, <3>1, <3>2 DEF Stuck, Replaying, Poisoned, ChangeOf
  <2>3. CASE source # s
    BY <1>2, <2>1, <2>3 DEF Stuck, Replaying
  <2> QED
    BY <2>2, <2>3
<1>9. CASE UNCHANGED <<pending, pc, source, todo, batch>>
  BY <1>2, <1>9 DEF Stuck, Replaying, ChangeOf
<1> QED
  BY <1>3, <1>4, <1>5, <1>6, <1>7, <1>8, <1>9, StuckSteps

\* For users who do not delete: once a service is idle with a pending insertion of a row
\* that the other side has, as a lost acknowledgement leaves one, every cycle that ever
\* starts ends in the replay.  Nothing is detected or sent again, in any table.
THEOREM PoisonIsForever ==
  ASSUME NeverDelete, NEW s \in Side, NEW k \in Nat
  PROVE  Spec => [](pc = "idle" /\ Poisoned(s, k) =>
                      [](Poisoned(s, k) /\ pc \in {"idle", "replay", "mark"}))
<1>1. Init => KnownInv
  BY InitKnown
<1>2. KnownInv /\ [Next]_vars => KnownInv'
  BY KnownStep
<1>3. KnownInv /\ Stuck(s, k) /\ [Next]_vars => Stuck(s, k)'
  BY StuckStep
<1>4. pc = "idle" /\ Poisoned(s, k) => Stuck(s, k)
  BY DEF Stuck, Replaying
<1>5. Stuck(s, k) => Poisoned(s, k) /\ pc \in {"idle", "replay", "mark"}
  BY DEF Stuck, Replaying
<1> QED
  BY <1>1, <1>2, <1>3, <1>4, <1>5, PTL DEF Spec
=============================================================================
