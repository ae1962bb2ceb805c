-------------------------- MODULE SyncEngineProofs --------------------------
(***************************************************************************)
(* Theorems about SyncEngine, for any records, tables, batch sizes and     *)
(* numbers of attempts, edits and faults.                                  *)
(***************************************************************************)
EXTENDS SyncEngine, FiniteSetTheorems, SequenceTheorems, TLAPS

USE DEF Side, Other

-----------------------------------------------------------------------------
(***************************************************************************)
(* The operators the model is built from.                                  *)
(***************************************************************************)

\* The elements of an ordering of a finite set are those of the set.
LEMMA OrderingType ==
  ASSUME NEW S, IsFiniteSet(S), NEW w \in SetToSeqs(S)
  PROVE  w \in Seq(S)
<1>1. Cardinality(S) \in Nat
  BY FS_CardinalityType
<1>2. w \in [1..Cardinality(S) -> S]
  BY DEF SetToSeqs
<1> QED
  BY <1>1, <1>2, SeqDef

\* resolve() returns lists of the operations it was given.
LEMMA ListingType ==
  ASSUME NEW ops, NEW others, IsFiniteSet(ops), NEW l \in Listings(ops, others)
  PROVE  l \in Seq(ops)
<1> DEFINE won == {o \in ops : Opponents(o, others) # {}}
<1>1. IsFiniteSet(won) /\ IsFiniteSet(ops \ won)
  BY FS_Subset
<1>2. PICK w \in SetToSeqs(won), rest \in SetToSeqs(ops \ won) : l = w \o rest
  BY DEF Listings
<1>3. w \in Seq(ops) /\ rest \in Seq(ops)
  BY <1>1, <1>2, OrderingType, SeqMonotonic
<1> QED
  BY <1>2, <1>3, ConcatProperties

\* What detect_changes returns: finitely many operations of the table.
LEMMA DetectedType ==
  ASSUME StoreTypeOK, NEW s \in Side, NEW t \in Tables, NEW now \in Nat
  PROVE  Detected(s, t, now) \subseteq SyncOperation /\ IsFiniteSet(Detected(s, t, now))
<1> DEFINE last == control[s][t].version
           Changes == {r \in Record : TableOf[r] = t /\ changed[s][r] > last}
           Type(r) == IF rows[s][r] = Absent THEN "D"
                      ELSE IF created[s][r] > last THEN "I" ELSE "U"
           op(r) == [record |-> r, type |-> Type(r), version |-> changed[s][r],
                     data |-> rows[s][r], timestamp |-> now]
           f == [r \in Changes |-> op(r)]
<1>1. Detected(s, t, now) = {op(r) : r \in Changes}
  BY DEF Detected
<1>2. Detected(s, t, now) \subseteq SyncOperation
  BY <1>1 DEF StoreTypeOK, SyncOperation, OperationType
<1>3. IsFiniteSet(Changes)
  BY ConfigAssumption, FS_Subset DEF ConfigAssumption
<1>4. f \in Surjection(Changes, Detected(s, t, now))
  BY <1>1 DEF Surjection
<1> QED
  BY <1>2, <1>3, <1>4, FS_Surjection

\* A sequence keeps its type when the status of some of its rows changes.
LEMMA MappedType ==
  ASSUME NEW S, NEW q \in Seq(S), NEW g, DOMAIN g = DOMAIN q,
         g = [k \in DOMAIN g |-> g[k]], \A k \in DOMAIN q : g[k] \in S
  PROVE  g \in Seq(S)
<1>1. Len(q) \in Nat /\ DOMAIN q = 1..Len(q)
  BY LenProperties
<1>2. g \in [1..Len(q) -> S]
  BY <1>1
<1> QED
  BY <1>1, <1>2, SeqDef

-----------------------------------------------------------------------------
(***************************************************************************)
(* Type correctness.  Operation(i) has a type only if i is an index of the *)
(* list at work, so the invariant follows the indexes through the phases.  *)
(***************************************************************************)
Replaying == {"replay", "mark"}
Executing == {"apply", "fail", "queue"}

Shape ==
  /\ TypeOK
  /\ IsFiniteSet(found)
  /\ pc \in Replaying => todo \cup batch \subseteq DOMAIN pending[source]
  /\ pc \in Executing => todo \cup batch \subseteq DOMAIN plan[source]
  /\ pc \in Executing => attempt > 0
  /\ pc \in Phase \ ({"idle"} \cup Replaying) => table \in Tables
  /\ pc \in {"idle", "detectLocal", "detectRemote"} => batch = {}

\* What a step must establish of the cycle's locals.
CycleShape ==
  /\ CycleTypeOK
  /\ IsFiniteSet(found)
  /\ pc \in Replaying => todo \cup batch \subseteq DOMAIN pending[source]
  /\ pc \in Executing => todo \cup batch \subseteq DOMAIN plan[source]
  /\ pc \in Executing => attempt > 0
  /\ pc \in Phase \ ({"idle"} \cup Replaying) => table \in Tables
  /\ pc \in {"idle", "detectLocal", "detectRemote"} => batch = {}

\* The empty transaction and the empty plan are well typed.
LEMMA Empties == NoDraft \in [Record -> Nat] /\ NoPlan \in [Side -> Seq(SyncOperation)]
BY EmptySeq DEF NoDraft, NoPlan, Absent

\* A cycle that returns or raises leaves its locals well shaped.
LEMMA EndCycleShape ==
  ASSUME NEW status \in {"PENDING", "COMPLETED", "FAILED"}, EndCycle(status)
  PROVE  CycleShape'
BY Empties, FS_EmptySet, ConfigAssumption
   DEF EndCycle, CloseTxn, CycleShape, CycleTypeOK, Phase, Replaying, Executing, ConfigAssumption

\* The indexes of a plan are numbers.
LEMMA PlanIndexes == ASSUME CycleTypeOK, NEW s \in Side PROVE DOMAIN plan[s] \subseteq Nat
<1>1. plan[s] \in Seq(SyncOperation)
  BY DEF CycleTypeOK
<1> QED
  BY <1>1, LenProperties

\* The next attempt starts from the whole lists.
LEMMA AttemptShape ==
  ASSUME CycleShape, NEW n \in 1..MaxRetries, Attempt(n), pc \in Executing
  PROVE  CycleShape'
<1>1. DOMAIN plan[Local] \subseteq Nat
  BY PlanIndexes DEF CycleShape
<1> QED
  BY <1>1, Empties
     DEF Attempt, CloseTxn, CycleShape, CycleTypeOK, Phase, Replaying, Executing

\* A failed attempt is followed by another one or by the end of the cycle.
LEMMA RetryShape ==
  ASSUME CycleShape, RetryOrRaise, pc \in Executing
  PROVE  CycleShape'
<1>1. attempt \in 0..MaxRetries /\ attempt > 0
  BY DEF CycleShape, CycleTypeOK
<1>2. CASE attempt < MaxRetries
  BY <1>1, <1>2, AttemptShape, ConfigAssumption DEF RetryOrRaise, ConfigAssumption
<1>3. CASE ~(attempt < MaxRetries)
  BY <1>3, EndCycleShape DEF RetryOrRaise
<1> QED
  BY <1>2, <1>3

\* A batch that raises ends the cycle or leads to the handler with the whole list.
LEMMA BatchRaisesShape ==
  ASSUME CycleShape, BatchRaises
  PROVE  CycleShape'
<1>1. CASE EndCycle("FAILED")
  BY <1>1, EndCycleShape
<1>2. CASE pc = "apply" /\ pc' = "fail"
  <2>1. source \in Side /\ DOMAIN plan[source] \subseteq Nat
    BY PlanIndexes DEF CycleShape, CycleTypeOK
  <2> QED
    BY <1>2, <2>1, Empties
       DEF BatchRaises, DirectionRaises, EndCycle, CloseTxn, CycleShape, CycleTypeOK, Phase,
           Replaying, Executing
<1> QED
  BY <1>1, <1>2 DEF BatchRaises, DirectionRaises

\* The loop of run_cycle goes to the next table or ends.
LEMMA NextTableShape ==
  ASSUME CycleShape, NextTable, table \in Tables
  PROVE  CycleShape'
<1>1. CASE table < NumTables
  <2>1. table + 1 \in Tables /\ table + 1 \in 0..NumTables
    BY <1>1, ConfigAssumption DEF Tables, ConfigAssumption
  <2>2. /\ pc' = "detectLocal" /\ table' = table + 1 /\ source' = Local /\ found' = {}
        /\ plan' = NoPlan /\ todo' = {} /\ batch' = {} /\ attempt' = 0
        /\ UNCHANGED <<lastStatus, draft, touched, inserted>>
    BY <1>1 DEF NextTable, txn
  <2> QED
    BY <2>1, <2>2, Empties, FS_EmptySet, ConfigAssumption
       DEF CycleShape, CycleTypeOK, Phase, Replaying, Executing, ConfigAssumption
<1>2. CASE ~(table < NumTables)
  BY <1>2, EndCycleShape DEF NextTable
<1> QED
  BY <1>1, <1>2

\* The index of an operation of the list at work names an operation.
LEMMA OperationIsTyped ==
  ASSUME StoreTypeOK, CycleShape, pc \in Replaying \cup Executing, NEW i \in todo \cup batch
  PROVE  /\ Operation(i) \in SyncOperation
         /\ Operation(i).record \in Record /\ Operation(i).version \in Nat
         /\ Operation(i).data \in Nat /\ TableOf[Operation(i).record] \in Tables
<1>1. pending[source] \in Seq(PendingRow) /\ plan[source] \in Seq(SyncOperation)
  BY DEF StoreTypeOK, CycleShape, CycleTypeOK
<1>2. CASE pc \in Replaying
  <2>1. i \in DOMAIN pending[source]
    BY <1>2 DEF CycleShape
  <2>2. pending[source][i] \in PendingRow
    BY <1>1, <2>1, LenProperties, ElementOfSeq
  <2>3. Operation(i) = pending[source][i].op
    BY <1>2 DEF Operation, Replaying
  <2> QED
    BY <2>2, <2>3, ConfigAssumption DEF PendingRow, SyncOperation, ConfigAssumption
<1>3. CASE pc \in Executing
  <2>1. i \in DOMAIN plan[source]
    BY <1>3 DEF CycleShape
  <2>2. plan[source][i] \in SyncOperation
    BY <1>1, <2>1, LenProperties, ElementOfSeq
  <2>3. Operation(i) = plan[source][i]
    BY <1>3 DEF Operation, Executing
  <2> QED
    BY <2>2, <2>3, ConfigAssumption DEF SyncOperation, ConfigAssumption
<1> QED
  BY <1>2, <1>3

\* A user write only changes one database and its change tracking.
LEMMA UserWriteShape ==
  ASSUME StoreTypeOK, CycleShape, NEW s \in Side, NEW r \in Record, NEW kind \in OperationType,
         UserWrite(s, r, kind)
  PROVE  StoreTypeOK' /\ CycleShape'
<1>1. StoreTypeOK'
  <2>1. clock' \in Nat /\ version'[s] \in Nat /\ version' \in [Side -> Nat]
    BY DEF UserWrite, StoreTypeOK
  <2>2. rows' \in [Side -> [Record -> Nat]]
    BY <2>1 DEF UserWrite, StoreTypeOK, Absent
  <2>3. changed' \in [Side -> [Record -> Nat]] /\ created' \in [Side -> [Record -> Nat]]
    BY <2>1 DEF UserWrite, StoreTypeOK
  <2>4. edited' \in [Side -> [Record -> Nat]]
    BY <2>1 DEF UserWrite, StoreTypeOK
  <2> QED
    BY <2>1, <2>2, <2>3, <2>4 DEF UserWrite, StoreTypeOK
<1>2. CycleShape'
  BY DEF UserWrite, CycleShape, CycleTypeOK, txn, cycle
<1> QED
  BY <1>1, <1>2

\* A commit adds typed rows, versions and history.
LEMMA CommitStore ==
  ASSUME StoreTypeOK, CycleShape, Commit, faults' \in Nat
  PROVE  StoreTypeOK'
<1>1. Target \in Side /\ source \in Side
  BY DEF Target, CycleShape, CycleTypeOK
<1> DEFINE v == version[Target] + 1
<1>2. v \in Nat
  BY <1>1 DEF StoreTypeOK
<1>3. rows' \in [Side -> [Record -> Nat]]
  <2>1. [r \in Record |-> IF r \in touched THEN draft[r] ELSE rows[Target][r]] \in [Record -> Nat]
    BY <1>1 DEF StoreTypeOK, CycleShape, CycleTypeOK
  <2> QED
    BY <1>1, <2>1 DEF Commit, StoreTypeOK
<1>4. changed' \in [Side -> [Record -> Nat]] /\ created' \in [Side -> [Record -> Nat]]
  <2>1. /\ [r \in Record |-> IF r \in touched THEN v ELSE changed[Target][r]] \in [Record -> Nat]
        /\ [r \in Record |-> IF r \in inserted THEN v ELSE created[Target][r]] \in [Record -> Nat]
    BY <1>1, <1>2 DEF StoreTypeOK
  <2> QED
    BY <1>1, <2>1 DEF Commit, StoreTypeOK
<1>5. version' \in [Side -> Nat]
  BY <1>1, <1>2 DEF Commit, StoreTypeOK
<1>6. delivered' \in [Side -> SUBSET Change]
  <2>1. \A i \in batch : ChangeOf(Operation(i)) \in Change
    BY OperationIsTyped DEF Commit, ChangeOf, Change, Replaying, Executing
  <2> QED
    BY <1>1, <2>1 DEF Commit, StoreTypeOK
<1>7. waived' \in [Side -> SUBSET Change]
  <2>1. touched \X {v} \subseteq Change
    BY <1>2 DEF CycleShape, CycleTypeOK, Change
  <2> QED
    BY <1>1, <2>1 DEF Commit, StoreTypeOK
<1> QED
  BY <1>3, <1>4, <1>5, <1>6, <1>7 DEF Commit, StoreTypeOK

\* An applied operation moves its index from todo to batch.
LEMMA ApplyShape ==
  ASSUME StoreTypeOK, CycleShape, NEW i \in todo, ApplyOperation(i)
  PROVE  StoreTypeOK' /\ CycleShape'
<1> DEFINE op == Operation(i)
           r == op.record
           writes == op.type = "I" \/ Current(r) # Absent
<1>1. r \in Record /\ op.data \in Nat /\ TableOf[r] \in Tables
  BY OperationIsTyped DEF ApplyOperation, Replaying, Executing
<1>2. draft' \in [Record -> Nat] /\ touched' \subseteq Record /\ inserted' \subseteq touched'
  BY <1>1 DEF ApplyOperation, CycleShape, CycleTypeOK
<1>3. todo' \cup batch' = todo \cup batch /\ todo' \subseteq Nat /\ batch' \subseteq Nat
  BY DEF ApplyOperation, CycleShape, CycleTypeOK
<1>4. table' \in Tables /\ table' \in 0..NumTables
  BY <1>1, ConfigAssumption DEF ApplyOperation, Tables, ConfigAssumption
<1>5. CycleShape'
  BY <1>2, <1>3, <1>4 DEF ApplyOperation, CycleShape, CycleTypeOK, Replaying, Executing
<1>6. StoreTypeOK'
  BY DEF ApplyOperation, StoreTypeOK, database, history
<1> QED
  BY <1>5, <1>6

\* A committed batch leaves the indexes of the list at work.
LEMMA CommitBatchShape ==
  ASSUME StoreTypeOK, CycleShape, CommitBatch
  PROVE  StoreTypeOK' /\ CycleShape'
<1>1. faults' \in Nat
  BY DEF CommitBatch, StoreTypeOK
<1>2. StoreTypeOK'
  BY <1>1, CommitStore DEF CommitBatch
<1>3. CycleShape'
  BY Empties
     DEF CommitBatch, Commit, CloseTxn, CycleShape, CycleTypeOK, Phase, Replaying, Executing
<1> QED
  BY <1>2, <1>3

\* Marking changes statuses only, so the indexes still name pending operations.
LEMMA MarkShape ==
  ASSUME StoreTypeOK, CycleShape, NEW i \in batch, MarkCompleted(i)
  PROVE  StoreTypeOK' /\ CycleShape' /\ DOMAIN pending'[source] = DOMAIN pending[source]
<1> DEFINE q == pending[source]
           op == Operation(i)
           g == [k \in DOMAIN q |->
                  IF q[k].op.record = op.record /\ q[k].op.version = op.version
                  THEN [q[k] EXCEPT !.status = "COMPLETED"] ELSE q[k]]
<1>1. source \in Side /\ q \in Seq(PendingRow)
  BY DEF StoreTypeOK, CycleShape, CycleTypeOK
<1>2. \A k \in DOMAIN q : q[k] \in PendingRow
  BY <1>1, LenProperties, ElementOfSeq
<1>3. \A k \in DOMAIN q : g[k] \in PendingRow
  BY <1>2 DEF PendingRow
<1>4. g \in Seq(PendingRow)
  <2>1. DOMAIN g = DOMAIN q /\ g = [k \in DOMAIN g |-> g[k]]
    OBVIOUS
  <2> HIDE DEF g
  <2> QED
    BY <1>1, <1>3, <2>1, MappedType
<1>5. pending' = [pending EXCEPT ![source] = g]
  BY DEF MarkCompleted
<1>6. pending' \in [Side -> Seq(PendingRow)] /\ DOMAIN pending'[source] = DOMAIN q
  <2>1. DOMAIN g = DOMAIN q
    OBVIOUS
  <2> HIDE DEF g
  <2> QED
    BY <1>1, <1>4, <1>5, <2>1 DEF StoreTypeOK
<1>7. StoreTypeOK'
  BY <1>6 DEF MarkCompleted, StoreTypeOK, database, history
<1>8. CycleShape'
  BY <1>6 DEF MarkCompleted, CycleShape, CycleTypeOK, txn, Phase, Replaying, Executing
<1> QED
  BY <1>6, <1>7, <1>8

\* Queueing appends a typed row.
LEMMA QueueShape ==
  ASSUME StoreTypeOK, CycleShape, NEW i \in todo, QueueOperation(i)
  PROVE  StoreTypeOK' /\ CycleShape'
<1> DEFINE row == [op |-> [Operation(i) EXCEPT !.timestamp = 0], status |-> "PENDING"]
<1>1. source \in Side /\ pending[source] \in Seq(PendingRow)
  BY DEF StoreTypeOK, CycleShape, CycleTypeOK
<1>2. row \in PendingRow
  <2>1. Operation(i) \in SyncOperation
    BY OperationIsTyped DEF QueueOperation, Replaying, Executing
  <2> QED
    BY <2>1 DEF PendingRow, SyncOperation
<1>3. Append(pending[source], row) \in Seq(PendingRow)
  BY <1>1, <1>2, AppendProperties
<1>4. StoreTypeOK'
  BY <1>1, <1>3 DEF QueueOperation, StoreTypeOK, database, history
<1>5. CycleShape'
  BY DEF QueueOperation, CycleShape, CycleTypeOK, txn, Replaying, Executing
<1> QED
  BY <1>4, <1>5

\* Detection of the local changes: SyncControl has a row, the list found is finite.
LEMMA DetectLocalShape ==
  ASSUME StoreTypeOK, CycleShape, DetectLocal
  PROVE  StoreTypeOK' /\ CycleShape'
<1>1. table \in Tables
  BY DEF DetectLocal, CycleShape, Phase, Replaying
<1>2. control' \in [Side -> [Tables -> ControlRow]]
  <2>1. ASSUME NEW s \in Side
        PROVE  [control[s] EXCEPT ![table].status = IF @ = "ABSENT" THEN "INITIALIZED" ELSE @]
                 \in [Tables -> ControlRow]
    <3>1. control[s] \in [Tables -> ControlRow] /\ control[s][table] \in ControlRow
      BY <1>1 DEF StoreTypeOK
    <3>2. ASSUME NEW st \in {"ABSENT", "INITIALIZED", "COMPLETED", "FAILED"}
          PROVE  [control[s] EXCEPT ![table].status = st] \in [Tables -> ControlRow]
      BY <3>1 DEF ControlRow
    <3>3. control[s][table].status \in {"ABSENT", "INITIALIZED", "COMPLETED", "FAILED"}
      BY <3>1 DEF ControlRow
    <3> QED
      BY <3>2, <3>3
  <2> QED
    BY <2>1 DEF DetectLocal, EnsureInitialized
<1>3. StoreTypeOK'
  BY <1>1, <1>2 DEF DetectLocal, StoreTypeOK, database
<1>4. found' \subseteq SyncOperation /\ IsFiniteSet(found')
  BY <1>1, DetectedType DEF DetectLocal
<1>5. CycleShape'
  BY <1>1, <1>4 DEF DetectLocal, CycleShape, CycleTypeOK, txn, Phase, Replaying, Executing
<1> QED
  BY <1>3, <1>5

\* resolve() builds a plan of typed operations.
LEMMA ResolveShape ==
  ASSUME StoreTypeOK, CycleShape, table \in Tables, batch = {}, NEW theirs,
         theirs \subseteq SyncOperation, IsFiniteSet(theirs), Resolve(theirs)
  PROVE  CycleShape' /\ waived' \in [Side -> SUBSET Change]
<1> DEFINE out == LocalToRemote(found, theirs)
           in  == RemoteToLocal(found, theirs)
<1>1. found \subseteq SyncOperation /\ IsFiniteSet(found)
  BY DEF CycleShape, CycleTypeOK
<1>2. /\ out \subseteq SyncOperation /\ IsFiniteSet(out)
      /\ in \subseteq SyncOperation /\ IsFiniteSet(in)
  <2>1. out \subseteq found /\ in \subseteq theirs
    BY DEF LocalToRemote, RemoteToLocal
  <2> QED
    BY <1>1, <2>1, FS_Subset
<1>3. PICK l \in Listings(out, theirs), r \in Listings(in, found) :
        /\ plan' = [s \in Side |-> IF s = Local THEN l ELSE r]
        /\ pc' = "apply" /\ attempt' = 1 /\ source' = Local
        /\ found' = {} /\ todo' = DOMAIN l
        /\ waived' = [waived EXCEPT ![Local]  = @ \cup Lost(found, theirs, in),
                                   ![Remote] = @ \cup Lost(theirs, found, out)]
        /\ UNCHANGED <<table, batch, lastStatus, txn>>
  BY DEF Resolve
<1>4. l \in Seq(SyncOperation) /\ r \in Seq(SyncOperation)
  <2>1. l \in Seq(out) /\ r \in Seq(in)
    BY <1>2, ListingType
  <2> QED
    BY <1>2, <2>1, SeqMonotonic
<1>5. plan' \in [Side -> Seq(SyncOperation)]
  BY <1>3, <1>4
<1>6. todo' = DOMAIN plan'[Local] /\ todo' \subseteq Nat
  BY <1>3, <1>4, LenProperties
<1>7. CycleShape'
  BY <1>3, <1>5, <1>6, FS_EmptySet, ConfigAssumption
     DEF CycleShape, CycleTypeOK, txn, Phase, Replaying, Executing, ConfigAssumption
<1>8. waived' \in [Side -> SUBSET Change]
  <2>1. Lost(found, theirs, in) \subseteq Change /\ Lost(theirs, found, out) \subseteq Change
    BY <1>1 DEF Lost, ChangeOf, Change, SyncOperation
  <2> QED
    BY <1>3, <2>1 DEF StoreTypeOK
<1> QED
  BY <1>7, <1>8

\* Detection of the remote changes: the next table, or a typed plan.
LEMMA DetectRemoteShape ==
  ASSUME StoreTypeOK, CycleShape, DetectRemote
  PROVE  StoreTypeOK' /\ CycleShape'
<1>1. table \in Tables
  BY DEF DetectRemote, CycleShape, Phase, Replaying
<1>2. seen' \in [Side -> [Tables -> Nat]]
  BY <1>1 DEF DetectRemote, StoreTypeOK
<1>3. PICK now \in {0, 1} :
        \/ NextTable /\ UNCHANGED waived
        \/ Resolve(Detected(Remote, table, now))
  BY DEF DetectRemote
<1>4. CycleShape' /\ waived' \in [Side -> SUBSET Change]
  <2>1. CASE NextTable /\ UNCHANGED waived
    BY <1>1, <2>1, NextTableShape DEF StoreTypeOK
  <2>2. CASE Resolve(Detected(Remote, table, now))
    <3>1. batch = {}
      BY DEF DetectRemote, CycleShape
    <3> QED
      BY <1>1, <2>2, <3>1, DetectedType, ResolveShape
  <2> QED
    BY <1>3, <2>1, <2>2
<1>5. StoreTypeOK'
  BY <1>2, <1>4 DEF DetectRemote, StoreTypeOK, database
<1> QED
  BY <1>4, <1>5

\* update_status writes a typed SyncControl row.
LEMMA StampControl ==
  ASSUME StoreTypeOK, table \in Tables, NEW s \in Side, Stamp(s)
  PROVE  control' \in [Side -> [Tables -> ControlRow]]
BY DEF Stamp, StoreTypeOK, ControlRow

\* The steps of the cycle that only move control.
LEMMA ControlShape ==
  ASSUME StoreTypeOK, CycleShape,
         StartCycle \/ NextReplay \/ NextDirection \/ MarkFailure \/ StampLocal
  PROVE  StoreTypeOK' /\ CycleShape'
<1>1. CASE StartCycle
  <2>1. todo' \subseteq DOMAIN pending[Local] /\ todo' \subseteq Nat
    BY <1>1, LenProperties DEF StartCycle, PendingIds, StoreTypeOK
  <2>2. CycleShape'
    BY <1>1, <2>1 DEF StartCycle, CycleShape, CycleTypeOK, txn, Phase, Replaying, Executing
  <2> QED
    BY <1>1, <2>2 DEF StartCycle, StoreTypeOK, database, history
<1>2. CASE NextReplay
  <2>1. CASE source = Local
    <3>1. todo' \subseteq DOMAIN pending[Remote] /\ todo' \subseteq Nat
      BY <1>2, <2>1, LenProperties DEF NextReplay, PendingIds, StoreTypeOK
    <3>2. /\ batch = {} /\ source' = Remote /\ table' = 0 /\ pc = "replay"
          /\ UNCHANGED <<draft, touched, inserted, pending, pc, found, plan, batch, attempt,
                         lastStatus>>
      BY <1>2, <2>1 DEF NextReplay, txn
    <3>3. table' \in 0..NumTables
      BY <3>2, ConfigAssumption DEF ConfigAssumption
    <3>4. CycleShape'
      BY <3>1, <3>2, <3>3 DEF CycleShape, CycleTypeOK, Phase, Replaying, Executing
    <3> QED
      BY <1>2, <3>4 DEF NextReplay, StoreTypeOK, database, history
  <2>2. CASE source # Local
    <3>1. 1 \in Tables /\ 1 \in 0..NumTables
      BY ConfigAssumption DEF Tables, ConfigAssumption
    <3>2. /\ todo = {} /\ batch = {} /\ pc' = "detectLocal" /\ source' = Local /\ table' = 1
          /\ UNCHANGED <<draft, touched, inserted, found, plan, todo, batch, attempt, lastStatus>>
      BY <1>2, <2>2 DEF NextReplay, txn
    <3>3. CycleShape'
      BY <3>1, <3>2 DEF CycleShape, CycleTypeOK, Phase, Replaying, Executing
    <3> QED
      BY <1>2, <3>3 DEF NextReplay, StoreTypeOK, database, history
  <2> QED
    BY <2>1, <2>2
<1>3. CASE NextDirection
  <2>1. DOMAIN plan[Remote] \subseteq Nat
    BY PlanIndexes DEF CycleShape
  <2>2. CycleShape'
    BY <1>3, <2>1 DEF NextDirection, CycleShape, CycleTypeOK, txn, Phase, Replaying, Executing
  <2> QED
    BY <1>3, <2>2 DEF NextDirection, StoreTypeOK, database, history
<1>4. CASE MarkFailure
  <2>1. source \in Side /\ table \in Tables
    BY <1>4 DEF MarkFailure, CycleShape, CycleTypeOK, Phase, Replaying
  <2>2. control' \in [Side -> [Tables -> ControlRow]]
    <3>1. control[source][table] \in ControlRow
      BY <2>1 DEF StoreTypeOK
    <3>2. [control[source][table] EXCEPT !.status = "FAILED"] \in ControlRow
      BY <3>1 DEF ControlRow
    <3> QED
      BY <1>4, <2>1, <3>2 DEF MarkFailure, Failed, StoreTypeOK
  <2>3. CycleShape'
    BY <1>4 DEF MarkFailure, CycleShape, CycleTypeOK, txn, Phase, Replaying, Executing
  <2> QED
    BY <1>4, <2>2, <2>3 DEF MarkFailure, StoreTypeOK, database, history
<1>5. CASE StampLocal
  <2>1. table \in Tables
    BY <1>5 DEF StampLocal, CycleShape, Phase, Replaying
  <2>2. CycleShape'
    BY <1>5 DEF StampLocal, CycleShape, CycleTypeOK, txn, Phase, Replaying, Executing
  <2> QED
    BY <1>5, <2>1, <2>2, StampControl DEF StampLocal, StoreTypeOK, database, history
<1> QED
  BY <1>1, <1>2, <1>3, <1>4, <1>5

\* The faults that leave the databases alone, and the steps that end a cycle or an
\* attempt.
LEMMA EndingShape ==
  ASSUME StoreTypeOK, CycleShape,
         \/ \E i \in todo : DuplicateKey(i)
         \/ RaiseProcessingError \/ StampRemote
         \/ PreconditionFails \/ StatementFails \/ BatchFails \/ HandlerFails \/ Crash
  PROVE  StoreTypeOK' /\ CycleShape'
<1>1. ASSUME UNCHANGED <<database, control, pending, history>>, faults' \in Nat
      PROVE  StoreTypeOK'
  BY <1>1 DEF StoreTypeOK, database, history
<1>2. Fault => faults' \in Nat
  BY DEF Fault, StoreTypeOK
<1>3. CASE \E i \in todo : DuplicateKey(i)
  BY <1>1, <1>3, BatchRaisesShape DEF DuplicateKey, StoreTypeOK
<1>4. CASE RaiseProcessingError
  BY <1>1, <1>4, RetryShape DEF RaiseProcessingError, StoreTypeOK, Executing
<1>5. CASE StampRemote
  <2>1. table \in Tables
    BY <1>5 DEF StampRemote, CycleShape, Phase, Replaying
  <2>2. control' \in [Side -> [Tables -> ControlRow]]
    BY <1>5, <2>1, StampControl DEF StampRemote
  <2>3. StoreTypeOK'
    BY <1>5, <2>2 DEF StampRemote, StoreTypeOK, database, history
  <2> QED
    BY <1>5, <2>1, <2>3, NextTableShape DEF StampRemote
<1>6. CASE PreconditionFails
  BY <1>1, <1>2, <1>6 DEF PreconditionFails, CycleShape, CycleTypeOK, txn, Replaying, Executing
<1>7. CASE StatementFails
  BY <1>1, <1>2, <1>7, EndCycleShape DEF StatementFails
<1>8. CASE BatchFails
  BY <1>1, <1>2, <1>8, BatchRaisesShape DEF BatchFails
<1>9. CASE HandlerFails
  BY <1>1, <1>2, <1>9, RetryShape DEF HandlerFails, Executing
<1>10. CASE Crash
  BY <1>1, <1>2, <1>10, EndCycleShape DEF Crash
<1> QED
  BY <1>3, <1>4, <1>5, <1>6, <1>7, <1>8, <1>9, <1>10

\* Every step keeps the types.
LEMMA ShapeStep == Shape /\ [Next]_vars => Shape'
<1> SUFFICES ASSUME StoreTypeOK, CycleShape, [Next]_vars PROVE StoreTypeOK' /\ CycleShape'
  BY DEF Shape, CycleShape, TypeOK
<1>1. CASE UserStep
  BY <1>1, UserWriteShape DEF UserStep
<1>2. CASE CycleStep
  BY <1>2, ControlShape, EndingShape, ApplyShape, CommitBatchShape, MarkShape, QueueShape,
     DetectLocalShape, DetectRemoteShape DEF CycleStep
<1>3. CASE FaultStep
  <2>1. CASE CommitUnacknowledged
    <3>1. faults' \in Nat
      BY <2>1 DEF CommitUnacknowledged, Fault, StoreTypeOK
    <3> QED
      BY <2>1, <3>1, CommitStore, BatchRaisesShape DEF CommitUnacknowledged
  <2> QED
    BY <1>3, <2>1, EndingShape DEF FaultStep
<1>4. CASE UNCHANGED vars
  BY <1>4 DEF vars, database, txn, cycle, history, StoreTypeOK, CycleShape, CycleTypeOK,
              Replaying, Executing
<1> QED
  BY <1>1, <1>2, <1>3, <1>4 DEF Next

\* The initial states are well typed.
LEMMA InitShape == Init => Shape
<1> SUFFICES ASSUME Init PROVE StoreTypeOK /\ CycleShape
  BY DEF Shape, CycleShape, TypeOK
<1>1. StoreTypeOK
  BY EmptySeq DEF Init, StoreTypeOK, ControlRow, Absent, Change
<1>2. CycleShape
  BY Empties, FS_EmptySet, ConfigAssumption
     DEF Init, CycleShape, CycleTypeOK, Phase, Replaying, Executing, ConfigAssumption
<1> QED
  BY <1>1, <1>2

\* The type invariant with its strengthening holds in every reachable state.
LEMMA ShapeInvariant == Spec => []Shape
BY InitShape, ShapeStep, PTL DEF Spec

\* In every state of every instance the variables keep their types, and no table
\* is tried more than max_retries times.
THEOREM TypeCorrect == Spec => []TypeOK
BY ShapeInvariant, PTL DEF Shape

-----------------------------------------------------------------------------
(***************************************************************************)
(* Pending operations.  The batch that is being marked was committed: the  *)
(* commit and the mark are separate steps, and everything that can come    *)
(* between them leaves the mark undone.                                    *)
(***************************************************************************)
MarkedIsDelivered ==
  pc = "mark" => \A i \in batch : ChangeOf(pending[source][i].op) \in delivered[source]

CompletedInv == Shape /\ CompletedIsDelivered /\ MarkedIsDelivered

\* Nothing is taken out of the history, whose commits add to it.
LEMMA CommitDelivers ==
  ASSUME Shape, Commit
  PROVE  /\ \A s \in Side : delivered[s] \subseteq delivered'[s]
         /\ \A i \in batch : ChangeOf(Operation(i)) \in delivered'[source]
         /\ UNCHANGED <<pending, control>>
<1>1. source \in Side
  BY DEF Shape, TypeOK, CycleTypeOK
<1> QED
  BY <1>1 DEF Commit, Shape, TypeOK, StoreTypeOK

\* The steps that neither commit nor touch the pending operations.
LEMMA OtherSteps ==
  ASSUME [Next]_vars,
         ~CommitBatch, ~CommitUnacknowledged,
         \A i \in batch : ~MarkCompleted(i),
         \A i \in todo : ~QueueOperation(i)
  PROVE  /\ UNCHANGED <<pending, delivered>>
         /\ pc' # "mark" \/ UNCHANGED <<pc, batch, source>>
<1>1. CASE UserStep
  BY <1>1 DEF UserStep, UserWrite, cycle
<1>2. CASE CycleStep
  <2>1. CASE StartCycle \/ NextReplay \/ NextDirection
    BY <2>1 DEF StartCycle, NextReplay, NextDirection, history
  <2>2. CASE \E i \in todo : ApplyOperation(i)
    BY <2>2 DEF ApplyOperation, history
  <2>3. CASE \E i \in todo : DuplicateKey(i)
    BY <2>3 DEF DuplicateKey, BatchRaises, DirectionRaises, EndCycle, history
  <2>4. CASE DetectLocal \/ DetectRemote
    BY <2>4 DEF DetectLocal, DetectRemote, Resolve, NextTable, EndCycle
  <2>5. CASE MarkFailure \/ RaiseProcessingError
    BY <2>5 DEF MarkFailure, RaiseProcessingError, RetryOrRaise, Attempt, EndCycle, history
  <2>6. CASE StampLocal \/ StampRemote
    BY <2>6 DEF StampLocal, StampRemote, NextTable, EndCycle, history
  <2> QED
    BY <1>2, <2>1, <2>2, <2>3, <2>4, <2>5, <2>6 DEF CycleStep
<1>3. CASE FaultStep
  BY <1>3 DEF FaultStep, PreconditionFails, StatementFails, BatchFails, HandlerFails, Crash,
              BatchRaises, DirectionRaises, RetryOrRaise, Attempt, EndCycle, history
<1>4. CASE UNCHANGED vars
  BY <1>4 DEF vars, cycle, history
<1> QED
  BY <1>1, <1>2, <1>3, <1>4 DEF Next

\* No step completes a pending operation that was not committed.
LEMMA CompletedStep == CompletedInv /\ [Next]_vars => CompletedInv'
<1> SUFFICES ASSUME CompletedInv, [Next]_vars
             PROVE  CompletedIsDelivered' /\ MarkedIsDelivered'
  BY ShapeStep DEF CompletedInv
<1>1. source \in Side
  BY DEF CompletedInv, Shape, TypeOK, CycleTypeOK
<1>2. CASE CommitBatch \/ CommitUnacknowledged
  <2>1. CompletedIsDelivered'
    BY <1>2, CommitDelivers
       DEF CompletedInv, CommitBatch, CommitUnacknowledged, CompletedIsDelivered
  <2>2. CASE pc = "replay" /\ CommitBatch
    <3>1. \A i \in batch : Operation(i) = pending[source][i].op
      BY <2>2 DEF Operation
    <3> QED
      BY <2>1, <2>2, <3>1, CommitDelivers DEF CompletedInv, CommitBatch, MarkedIsDelivered
  <2>3. CASE pc' # "mark"
    BY <2>1, <2>3 DEF MarkedIsDelivered
  <2> QED
    BY <1>2, <2>2, <2>3
       DEF CommitBatch, CommitUnacknowledged, BatchRaises, DirectionRaises, EndCycle
<1>3. ASSUME NEW i \in batch, MarkCompleted(i)
      PROVE  CompletedIsDelivered' /\ MarkedIsDelivered'
  <2> DEFINE q == pending[source]
             op == Operation(i)
             same(k) == q[k].op.record = op.record /\ q[k].op.version = op.version
             g == [k \in DOMAIN q |->
                    IF same(k) THEN [q[k] EXCEPT !.status = "COMPLETED"] ELSE q[k]]
  <2>1. pending' = [pending EXCEPT ![source] = g] /\ UNCHANGED <<delivered, source>>
    BY <1>3 DEF MarkCompleted, history
  <2>2. \A k \in DOMAIN q : q[k] \in PendingRow
    BY <1>1, LenProperties, ElementOfSeq DEF CompletedInv, Shape, TypeOK, StoreTypeOK
  <2>3. ChangeOf(op) \in delivered[source]
    BY <1>3 DEF MarkCompleted, CompletedInv, MarkedIsDelivered, Operation
  <2>4. \A k \in DOMAIN q : g[k].op = q[k].op
    BY <2>2 DEF PendingRow
  <2>5. \A k \in DOMAIN q : g[k].status = "COMPLETED" => ChangeOf(q[k].op) \in delivered[source]
    <3>1. TAKE k \in DOMAIN q
    <3>2. CASE same(k)
      BY <2>3, <3>2 DEF ChangeOf
    <3>3. CASE ~same(k)
      BY <1>1, <3>3 DEF CompletedInv, CompletedIsDelivered
    <3> QED
      BY <3>2, <3>3
  <2>6. DOMAIN g = DOMAIN q
    OBVIOUS
  <2> HIDE DEF g
  <2>7. /\ pending'[source] = g
        /\ \A s \in Side : s # source => pending'[s] = pending[s]
    BY <1>1, <2>1 DEF CompletedInv, Shape, TypeOK, StoreTypeOK
  <2>8. CompletedIsDelivered'
    BY <1>1, <2>1, <2>4, <2>5, <2>6, <2>7 DEF CompletedInv, CompletedIsDelivered
  <2>9. \A j \in batch : j \in DOMAIN q
    BY <1>3 DEF MarkCompleted, CompletedInv, Shape, Replaying
  <2>10. \A j \in batch' : ChangeOf(pending'[source][j].op) \in delivered[source]
    BY <1>3, <2>4, <2>7, <2>9 DEF MarkCompleted, CompletedInv, MarkedIsDelivered
  <2> QED
    BY <2>1, <2>8, <2>10 DEF MarkedIsDelivered
<1>4. ASSUME NEW i \in todo, QueueOperation(i)
      PROVE  CompletedIsDelivered' /\ MarkedIsDelivered'
  <2> DEFINE q == pending[source]
             row == [op |-> [Operation(i) EXCEPT !.timestamp = 0], status |-> "PENDING"]
  <2>1. /\ pending' = [pending EXCEPT ![source] = Append(q, row)]
        /\ UNCHANGED <<delivered, source, pc>> /\ pc = "queue"
    BY <1>4 DEF QueueOperation, history
  <2>2. q \in Seq(PendingRow)
    BY <1>1 DEF CompletedInv, Shape, TypeOK, StoreTypeOK
  <2>3. row.status = "PENDING"
    OBVIOUS
  <2> HIDE DEF row
  <2>4. \A k \in DOMAIN Append(q, row) :
          \/ Append(q, row)[k] = row
          \/ k \in DOMAIN q /\ Append(q, row)[k] = q[k]
    BY <2>2, LenProperties
  <2>5. /\ pending'[source] = Append(q, row)
        /\ \A s \in Side : s # source => pending'[s] = pending[s]
    BY <1>1, <2>1 DEF CompletedInv, Shape, TypeOK, StoreTypeOK
  <2>6. CompletedIsDelivered'
    BY <1>1, <2>1, <2>3, <2>4, <2>5 DEF CompletedInv, CompletedIsDelivered
  <2> QED
    BY <2>1, <2>6 DEF MarkedIsDelivered
<1>5. CASE UNCHANGED <<pending, delivered>> /\ (pc' # "mark" \/ UNCHANGED <<pc, batch, source>>)
  BY <1>5 DEF CompletedInv, CompletedIsDelivered, MarkedIsDelivered
<1> QED
  BY <1>2, <1>3, <1>4, <1>5, OtherSteps

\* Nothing is pending before the first cycle.
LEMMA InitCompleted == Init => CompletedInv
<1> SUFFICES ASSUME Init PROVE CompletedIsDelivered /\ MarkedIsDelivered
  BY InitShape DEF CompletedInv
<1>1. \A s \in Side : DOMAIN pending[s] = {}
  BY DEF Init
<1> QED
  BY <1>1 DEF Init, CompletedIsDelivered, MarkedIsDelivered

\* However failures and crashes interleave with replays, a pending operation that
\* is marked COMPLETED was committed at the other side.
THEOREM CompletedWasDelivered == Spec => []CompletedIsDelivered
<1>1. CompletedInv => CompletedIsDelivered
  BY DEF CompletedInv
<1> QED
  BY <1>1, InitCompleted, CompletedStep, PTL DEF Spec

-----------------------------------------------------------------------------
(***************************************************************************)
(* The cursors.  An operation of the plan that is neither in todo nor in   *)
(* batch was committed, by this attempt or an earlier one; a cursor never  *)
(* exceeds the version of its database.                                    *)
(***************************************************************************)
Stamping == {"stampLocal", "stampRemote"}

PlanDelivered(d) == \A i \in DOMAIN plan[d] : ChangeOf(plan[d][i]) \in delivered[d]

Progress ==
  /\ pc = "apply" => \A i \in DOMAIN plan[source] \ (todo \cup batch) :
                       ChangeOf(plan[source][i]) \in delivered[source]
  /\ pc = "apply" /\ source = Remote => PlanDelivered(Local)
  /\ pc \in Stamping => PlanDelivered(Local) /\ PlanDelivered(Remote)

CursorsBounded == \A s \in Side, t \in Tables : control[s][t].version <= version[s]

CursorInv == Shape /\ Progress /\ CursorsBounded

\* What is delivered stays delivered.
LEMMA DeliveredGrows ==
  ASSUME Shape, [Next]_vars
  PROVE  \A s \in Side : delivered[s] \subseteq delivered'[s]
<1>1. CASE CommitBatch \/ CommitUnacknowledged
  BY <1>1, CommitDelivers DEF CommitBatch, CommitUnacknowledged
<1>2. CASE \E i \in batch : MarkCompleted(i)
  BY <1>2 DEF MarkCompleted, history
<1>3. CASE \E i \in todo : QueueOperation(i)
  BY <1>3 DEF QueueOperation, history
<1> QED
  BY <1>1, <1>2, <1>3, OtherSteps

\* The ways into execution, and the steps inside it: an attempt starts, the other
\* direction starts, an operation joins the batch, or the batch is committed.
LEMMA ApplySteps ==
  ASSUME CycleTypeOK, [Next]_vars, pc' = "apply"
  PROVE  \/ source' = Local /\ todo' = DOMAIN plan'[Local]
         \/ /\ pc = "apply" /\ source = Local /\ todo = {} /\ batch = {}
            /\ source' = Remote /\ todo' = DOMAIN plan'[Remote] /\ UNCHANGED plan
         \/ pc = "apply" /\ todo' \cup batch' = todo \cup batch /\ UNCHANGED <<plan, source>>
         \/ pc = "apply" /\ Commit /\ UNCHANGED <<plan, source, todo>>
<1>1. CASE UserStep
  BY <1>1 DEF UserStep, UserWrite, cycle
<1>2. CASE CycleStep
  <2>1. CASE StartCycle \/ NextReplay \/ NextDirection
    BY <2>1 DEF StartCycle, NextReplay, NextDirection, CycleTypeOK
  <2>2. CASE \E i \in todo : ApplyOperation(i)
    BY <2>2 DEF ApplyOperation
  <2>3. CASE \E i \in todo : DuplicateKey(i)
    BY <2>3 DEF DuplicateKey, BatchRaises, DirectionRaises, EndCycle
  <2>4. CASE CommitBatch
    BY <2>4 DEF CommitBatch
  <2>5. CASE DetectLocal \/ DetectRemote
    <3>1. ASSUME NEW theirs, Resolve(theirs)
          PROVE  source' = Local /\ todo' = DOMAIN plan'[Local]
      BY <3>1 DEF Resolve
    <3> QED
      BY <2>5, <3>1 DEF DetectLocal, DetectRemote, NextTable, EndCycle
  <2>6. CASE MarkFailure \/ RaiseProcessingError
    BY <2>6 DEF MarkFailure, RaiseProcessingError, RetryOrRaise, Attempt, EndCycle
  <2>7. CASE StampLocal \/ StampRemote
    BY <2>7 DEF StampLocal, StampRemote, NextTable, EndCycle
  <2>8. CASE (\E i \in batch : MarkCompleted(i)) \/ (\E i \in todo : QueueOperation(i))
    BY <2>8 DEF MarkCompleted, QueueOperation
  <2> QED
    BY <1>2, <2>1, <2>2, <2>3, <2>4, <2>5, <2>6, <2>7, <2>8 DEF CycleStep
<1>3. CASE FaultStep
  BY <1>3 DEF FaultStep, PreconditionFails, StatementFails, BatchFails, HandlerFails, Crash,
              CommitUnacknowledged, BatchRaises, DirectionRaises, RetryOrRaise, Attempt, EndCycle
<1>4. CASE UNCHANGED vars
  BY <1>4 DEF vars, cycle
<1> QED
  BY <1>1, <1>2, <1>3, <1>4 DEF Next

\* The only way to the stamps is through the whole of both directions.
LEMMA StampSteps ==
  ASSUME CycleTypeOK, [Next]_vars, pc' \in Stamping
  PROVE  /\ UNCHANGED plan
         /\ \/ pc \in Stamping
            \/ pc = "apply" /\ source = Remote /\ todo = {} /\ batch = {}
<1>1. CASE UserStep
  BY <1>1 DEF UserStep, UserWrite, cycle
<1>2. CASE CycleStep
  <2>1. CASE StartCycle \/ NextReplay \/ NextDirection
    BY <2>1 DEF StartCycle, NextReplay, NextDirection, CycleTypeOK, Stamping
  <2>2. CASE CommitBatch \/ \E i \in todo : ApplyOperation(i)
    BY <2>2 DEF CommitBatch, Commit, ApplyOperation, Stamping
  <2>3. CASE \E i \in todo : DuplicateKey(i)
    BY <2>3 DEF DuplicateKey, BatchRaises, DirectionRaises, EndCycle, Stamping
  <2>4. CASE DetectLocal \/ DetectRemote
    <3>1. ASSUME NEW theirs, Resolve(theirs)
          PROVE  pc' = "apply"
      BY <3>1 DEF Resolve
    <3> QED
      BY <2>4, <3>1 DEF DetectLocal, DetectRemote, NextTable, EndCycle, Stamping
  <2>5. CASE MarkFailure \/ RaiseProcessingError
    BY <2>5 DEF MarkFailure, RaiseProcessingError, RetryOrRaise, Attempt, EndCycle, Stamping
  <2>6. CASE StampLocal \/ StampRemote
    BY <2>6 DEF StampLocal, StampRemote, NextTable, EndCycle, Stamping
  <2>7. CASE (\E i \in batch : MarkCompleted(i)) \/ (\E i \in todo : QueueOperation(i))
    BY <2>7 DEF MarkCompleted, QueueOperation, Stamping
  <2> QED
    BY <1>2, <2>1, <2>2, <2>3, <2>4, <2>5, <2>6, <2>7 DEF CycleStep
<1>3. CASE FaultStep
  BY <1>3 DEF FaultStep, PreconditionFails, StatementFails, BatchFails, HandlerFails, Crash,
              CommitUnacknowledged, BatchRaises, DirectionRaises, RetryOrRaise, Attempt,
              EndCycle, Stamping
<1>4. CASE UNCHANGED vars
  BY <1>4 DEF vars, cycle
<1> QED
  BY <1>1, <1>2, <1>3, <1>4 DEF Next

\* Every step keeps track of what was committed.
LEMMA ProgressStep ==
  ASSUME Shape, Progress, [Next]_vars
  PROVE  Progress'
<1>1. CycleTypeOK /\ source \in Side
  BY DEF Shape, TypeOK, CycleTypeOK
<1>2. \A s \in Side : delivered[s] \subseteq delivered'[s]
  BY DeliveredGrows
<1>3. ASSUME UNCHANGED plan, NEW d \in Side, PlanDelivered(d)
      PROVE  PlanDelivered(d)'
  BY <1>2, <1>3 DEF PlanDelivered
<1>4. CASE pc' = "apply"
  <2>1. CASE source' = Local /\ todo' = DOMAIN plan'[Local]
    BY <1>4, <2>1 DEF Progress, Stamping, Local, Remote
  <2>2. CASE /\ pc = "apply" /\ source = Local /\ todo = {} /\ batch = {}
             /\ source' = Remote /\ todo' = DOMAIN plan'[Remote] /\ UNCHANGED plan
    <3>1. PlanDelivered(Local)
      BY <2>2 DEF Progress, PlanDelivered
    <3> QED
      BY <1>3, <1>4, <2>2, <3>1 DEF Progress, Stamping
  <2>3. CASE pc = "apply" /\ todo' \cup batch' = todo \cup batch /\ UNCHANGED <<plan, source>>
    BY <1>1, <1>2, <1>3, <1>4, <2>3 DEF Progress, Stamping
  <2>4. CASE pc = "apply" /\ Commit /\ UNCHANGED <<plan, source, todo>>
    <3>1. \A i \in batch : ChangeOf(plan[source][i]) \in delivered'[source]
      BY <2>4, CommitDelivers DEF Operation
    <3> QED
      BY <1>1, <1>2, <1>3, <1>4, <2>4, <3>1 DEF Progress, Stamping
  <2> QED
    BY <1>1, <1>4, <2>1, <2>2, <2>3, <2>4, ApplySteps
<1>5. CASE pc' \in Stamping
  <2>1. PlanDelivered(Local) /\ PlanDelivered(Remote) /\ UNCHANGED plan
    <3>1. CASE pc = "apply" /\ source = Remote /\ todo = {} /\ batch = {}
      BY <1>1, <1>5, <3>1, StampSteps DEF Progress, PlanDelivered
    <3> QED
      BY <1>1, <1>5, <3>1, StampSteps DEF Progress
  <2> QED
    BY <1>3, <1>5, <2>1 DEF Progress, Stamping
<1>6. CASE pc' \notin Stamping /\ pc' # "apply"
  BY <1>6 DEF Progress
<1> QED
  BY <1>4, <1>5, <1>6

\* Only the stamps move a cursor, to the version of its database.
LEMMA CursorSteps ==
  ASSUME Shape, [Next]_vars, NEW s \in Side, NEW t \in Tables
  PROVE  \/ control'[s][t].version = control[s][t].version
         \/ pc \in Stamping /\ control'[s][t].version = version[s]
<1>1. control \in [Side -> [Tables -> ControlRow]] /\ control[s][t] \in ControlRow
  BY DEF Shape, TypeOK, StoreTypeOK
<1>2. CASE DetectLocal
  <2>1. control'[s] = [control[s] EXCEPT ![table].status =
                         IF @ = "ABSENT" THEN "INITIALIZED" ELSE @]
    BY <1>2 DEF DetectLocal, EnsureInitialized
  <2>2. ASSUME NEW st
        PROVE  [control[s] EXCEPT ![table].status = st][t].version = control[s][t].version
    BY <1>1 DEF ControlRow
  <2> QED
    BY <2>1, <2>2
<1>3. CASE MarkFailure
  BY <1>1, <1>3 DEF MarkFailure, Failed, ControlRow
<1>4. CASE StampLocal \/ StampRemote
  BY <1>1, <1>4 DEF StampLocal, StampRemote, Stamp, Stamping
<1>5. CASE UNCHANGED control
  BY <1>5
<1>6. CASE CycleStep
  BY <1>2, <1>3, <1>4, <1>5, <1>6, CommitDelivers
     DEF CycleStep, StartCycle, NextReplay, ApplyOperation, DuplicateKey, CommitBatch, Commit,
         MarkCompleted, DetectRemote, NextDirection, QueueOperation, RaiseProcessingError
<1>7. CASE FaultStep
  BY <1>5, <1>7 DEF FaultStep, PreconditionFails, StatementFails, BatchFails, HandlerFails, Crash,
              CommitUnacknowledged, Commit
<1>8. CASE UserStep
  BY <1>5, <1>8 DEF UserStep, UserWrite
<1>9. CASE UNCHANGED vars
  BY <1>5, <1>9 DEF vars
<1> QED
  BY <1>6, <1>7, <1>8, <1>9 DEF Next

\* The version of a database never goes back.
LEMMA VersionGrows ==
  ASSUME Shape, [Next]_vars, NEW s \in Side
  PROVE  version[s] \in Nat /\ version'[s] \in Nat /\ version[s] <= version'[s]
<1>1. Shape' /\ version \in [Side -> Nat] /\ version' \in [Side -> Nat]
  BY ShapeStep DEF Shape, TypeOK, StoreTypeOK
<1>2. CASE Commit
  BY <1>1, <1>2 DEF Commit
<1>3. CASE UserStep
  BY <1>1, <1>3 DEF UserStep, UserWrite
<1>4. CASE UNCHANGED version
  BY <1>1, <1>4
<1>5. CASE CycleStep
  BY <1>2, <1>4, <1>5
     DEF CycleStep, StartCycle, NextReplay, ApplyOperation, DuplicateKey, CommitBatch,
         MarkCompleted, DetectLocal, DetectRemote, NextDirection, MarkFailure, QueueOperation,
         RaiseProcessingError, StampLocal, StampRemote, database
<1>6. CASE FaultStep
  BY <1>2, <1>4, <1>6 DEF FaultStep, PreconditionFails, StatementFails, BatchFails, HandlerFails,
              Crash, CommitUnacknowledged, database
<1>7. CASE UNCHANGED vars
  BY <1>4, <1>7 DEF vars, database
<1> QED
  BY <1>3, <1>5, <1>6, <1>7 DEF Next

\* The invariant behind the cursors is inductive.
LEMMA CursorStep == CursorInv /\ [Next]_vars => CursorInv'
<1> SUFFICES ASSUME CursorInv, [Next]_vars PROVE CursorsBounded'
  BY ShapeStep, ProgressStep DEF CursorInv
<1> SUFFICES ASSUME NEW s \in Side, NEW t \in Tables
             PROVE  control'[s][t].version <= version'[s]
  BY DEF CursorsBounded
<1>1. control[s][t].version \in Nat /\ control[s][t].version <= version[s]
  BY DEF CursorInv, CursorsBounded, Shape, TypeOK, StoreTypeOK, ControlRow
<1>2. control'[s][t].version <= version[s]
  BY <1>1, CursorSteps, VersionGrows DEF CursorInv
<1> QED
  BY <1>1, <1>2, CursorSteps, VersionGrows DEF CursorInv

\* Cursors start at 0, the version of both databases.
LEMMA InitCursor == Init => CursorInv
<1> SUFFICES ASSUME Init PROVE Progress /\ CursorsBounded
  BY InitShape DEF CursorInv
<1> QED
  BY DEF Init, Progress, CursorsBounded, Stamping

\* In every instance LastSyncVersion only moves forward, and only after all the
\* operations of both directions of its table were committed.
THEOREM CursorsWait == Spec => CursorWaitsForBothDirections
<1> DEFINE Step ==
      \A s \in Side, t \in Tables :
        control'[s][t].version # control[s][t].version =>
          /\ control'[s][t].version > control[s][t].version
          /\ \A d \in Side : \A i \in DOMAIN plan[d] :
               ChangeOf(plan[d][i]) \in delivered[d]
<1>1. CursorInv /\ [Next]_vars => [Step]_vars
  <2> SUFFICES ASSUME CursorInv, [Next]_vars, NEW s \in Side, NEW t \in Tables,
                      control'[s][t].version # control[s][t].version
               PROVE  /\ control'[s][t].version > control[s][t].version
                      /\ \A d \in Side : PlanDelivered(d)
    BY DEF PlanDelivered
  <2>1. control[s][t].version \in Nat /\ control[s][t].version <= version[s]
    BY DEF CursorInv, CursorsBounded, Shape, TypeOK, StoreTypeOK, ControlRow
  <2>2. pc \in Stamping /\ control'[s][t].version = version[s]
    BY CursorSteps DEF CursorInv
  <2>3. version[s] \in Nat
    BY VersionGrows DEF CursorInv
  <2>4. \A d \in Side : PlanDelivered(d)
    BY <2>2 DEF CursorInv, Progress, Local, Remote
  <2> QED
    BY <2>1, <2>2, <2>3, <2>4
<1>2. Spec => [][Step]_vars
  BY <1>1, InitCursor, CursorStep, PTL DEF Spec
<1> QED
  BY <1>2 DEF CursorWaitsForBothDirections
=============================================================================
