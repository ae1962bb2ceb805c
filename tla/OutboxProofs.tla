---------------------------- MODULE OutboxProofs ----------------------------
(***************************************************************************)
(* SyncEngine implements Outbox, for every instance.  Each step of the     *)
(* cycle, of the faults and of the users is one operation of Outbox, or    *)
(* leaves what Outbox sees as it was.                                      *)
(***************************************************************************)
EXTENDS SyncEngineProofs

\* There is a plan only from its first attempt to the stamps.
PlanIsAtWork == pc \in {"idle", "detectLocal", "detectRemote"} \cup Replaying => plan = NoPlan

RefinementInv == CompletedInv /\ CursorInv /\ PlanIsAtWork

\* A step of Outbox, as SyncEngine sees it.
PromiseStep == [Promise!Next]_(Promise!outbox)

\* The operations of Outbox are its steps.
LEMMA StepsOfOutbox ==
  ASSUME NEW s \in Side
  PROVE  /\ \A change \in Planned(s) : Promise!Enqueue(s, change) => PromiseStep
         /\ \A change \in delivered[s] : Promise!Complete(s, change) => PromiseStep
         /\ \A t \in Tables : Promise!Advance(s, t) => PromiseStep
<1>1. ASSUME NEW change \in Planned(s), Promise!Enqueue(s, change) PROVE Promise!Next
  <2>1. \E c \in [d \in Side |-> Planned(d)][s] : Promise!Enqueue(s, c)
    <3> HIDE DEF Planned
    <3>1. change \in [d \in Side |-> Planned(d)][s]
      OBVIOUS
    <3> QED
      BY <1>1, <3>1
  <2> QED
    BY <2>1 DEF Promise!Next
<1>2. ASSUME NEW change \in delivered[s], Promise!Complete(s, change) PROVE Promise!Next
  BY <1>2 DEF Promise!Next
<1>3. ASSUME NEW t \in Tables, Promise!Advance(s, t) PROVE Promise!Next
  BY <1>3 DEF Promise!Next
<1> QED
  BY <1>1, <1>2, <1>3 DEF PromiseStep

\* The parts of what Outbox sees.
CursorOf == [s \in Side |-> [t \in Tables |-> control[s][t].version]]
OpenOf   == [s \in Side |-> Planned(s)]
QueueOf  == [s \in Side |-> [k \in DOMAIN pending[s] |-> Entry(pending[s][k])]]

\* An empty plan is nothing taken up.
LEMMA NothingPlanned ==
  /\ plan = NoPlan => OpenOf = [s \in Side |-> {}]
  /\ plan' = NoPlan => OpenOf' = [s \in Side |-> {}]
<1>1. plan = NoPlan => \A s \in Side : Planned(s) = {}
  BY DEF NoPlan, Planned
<1>2. plan' = NoPlan => \A s \in Side : Planned(s)' = {}
  BY DEF NoPlan, Planned
<1> QED
  BY <1>1, <1>2 DEF OpenOf

\* A step that changes nothing Outbox sees, except that it may give the plan up.
LEMMA Invisible ==
  ASSUME UNCHANGED <<version, pending, delivered>>, UNCHANGED CursorOf,
         UNCHANGED plan \/ plan' = NoPlan
  PROVE  PromiseStep
<1>1. UNCHANGED QueueOf
  BY DEF QueueOf, Entry, ChangeOf
<1>2. CASE UNCHANGED plan
  <2>1. UNCHANGED OpenOf
    BY <1>2 DEF OpenOf, Planned, ChangeOf
  <2> QED
    BY <1>1, <2>1 DEF PromiseStep, Promise!outbox, CursorOf, OpenOf, QueueOf
<1>3. CASE plan' = NoPlan
  <2>1. Promise!GiveUp
    BY <1>1, <1>3, NothingPlanned
       DEF Promise!GiveUp, Promise!Nothing, CursorOf, OpenOf, QueueOf
  <2> QED
    BY <2>1 DEF PromiseStep, Promise!Next
<1> QED
  BY <1>2, <1>3

\* A user's write.
LEMMA WriteRefines ==
  ASSUME Shape, NEW s \in Side, NEW r \in Record, NEW kind, UserWrite(s, r, kind)
  PROVE  PromiseStep
<1>1. Promise!Write(s)
  BY DEF UserWrite, cycle, Promise!Write, Planned, Entry, ChangeOf
<1> QED
  BY <1>1 DEF PromiseStep, Promise!Next

\* A batch is a set of changes of the plan or of the queue.
LEMMA BatchIsKnown ==
  ASSUME Shape, pc \in {"replay", "apply"}
  PROVE  {ChangeOf(Operation(i)) : i \in batch}
           \subseteq OpenOf[source] \cup {QueueOf[source][k].change : k \in DOMAIN QueueOf[source]}
<1>1. source \in Side
  BY DEF Shape, TypeOK, CycleTypeOK
<1>2. CASE pc = "apply"
  <2>1. batch \subseteq DOMAIN plan[source] /\ \A i \in batch : Operation(i) = plan[source][i]
    BY <1>2 DEF Shape, Executing, Operation
  <2> QED
    BY <1>1, <2>1 DEF OpenOf, Planned
<1>3. CASE pc = "replay"
  <2>1. /\ batch \subseteq DOMAIN pending[source]
        /\ \A i \in batch : Operation(i) = pending[source][i].op
    BY <1>3 DEF Shape, Replaying, Operation
  <2>2. /\ DOMAIN QueueOf[source] = DOMAIN pending[source]
        /\ \A k \in DOMAIN pending[source] :
             QueueOf[source][k].change = ChangeOf(pending[source][k].op)
    BY <1>1 DEF QueueOf, Entry
  <2> QED
    BY <2>1, <2>2
<1> QED
  BY <1>2, <1>3

\* A commit, acknowledged or not.
LEMMA CommitRefines ==
  ASSUME Shape, Commit, UNCHANGED plan \/ plan' = NoPlan
  PROVE  PromiseStep
<1> DEFINE changes == {ChangeOf(Operation(i)) : i \in batch}
           moved == IF touched = {} THEN {} ELSE {Target}
<1>1. source \in Side /\ Target \in Side \ {source}
  BY DEF Shape, TypeOK, CycleTypeOK, Target, Other, Side, Local, Remote
<1>2. changes \subseteq OpenOf[source] \cup
                         {QueueOf[source][k].change : k \in DOMAIN QueueOf[source]}
  BY BatchIsKnown DEF Commit
<1>3. delivered' = [delivered EXCEPT ![source] = @ \cup changes]
  BY DEF Commit
<1>4. version' = [o \in Side |-> IF o \in moved THEN version[o] + 1 ELSE version[o]]
  BY <1>1 DEF Commit, Shape, TypeOK, StoreTypeOK
<1>5. OpenOf' \in {OpenOf, [s \in Side |-> {}]}
  <2>1. UNCHANGED plan => UNCHANGED OpenOf
    BY DEF OpenOf, Planned, ChangeOf
  <2> QED
    BY <2>1, NothingPlanned
<1>6. UNCHANGED CursorOf /\ UNCHANGED QueueOf
  BY DEF Commit, CursorOf, QueueOf, Entry, ChangeOf
<1> HIDE DEF changes, moved
<1>7. moved \in SUBSET (Side \ {source})
  BY <1>1 DEF moved
<1>8. Promise!Deliver(source, changes)
  BY <1>2, <1>3, <1>4, <1>5, <1>6, <1>7
     DEF Promise!Deliver, Promise!Queued, Promise!Nothing, OpenOf, CursorOf, QueueOf
<1>9. changes \in SUBSET (OpenOf[source] \cup Promise!Queued(source))
  BY <1>2 DEF Promise!Queued, QueueOf
<1> QED
  BY <1>1, <1>8, <1>9 DEF PromiseStep, Promise!Next, OpenOf

\* The mark of a replayed operation.
LEMMA MarkRefines ==
  ASSUME Shape, MarkedIsDelivered, NEW i \in batch, MarkCompleted(i)
  PROVE  PromiseStep
<1> DEFINE q == pending[source]
           op == Operation(i)
           same(k) == q[k].op.record = op.record /\ q[k].op.version = op.version
           g == [k \in DOMAIN q |->
                  IF same(k) THEN [q[k] EXCEPT !.status = "COMPLETED"] ELSE q[k]]
<1>1. source \in Side
  BY DEF Shape, TypeOK, CycleTypeOK
<1>2. pending' = [pending EXCEPT ![source] = g] /\ UNCHANGED <<version, control, plan, delivered>>
  BY DEF MarkCompleted, history, database
<1>3. ChangeOf(op) \in delivered[source]
  BY DEF MarkCompleted, MarkedIsDelivered, Operation
<1>4. \A k \in DOMAIN q : q[k] \in PendingRow
  BY <1>1, LenProperties, ElementOfSeq DEF Shape, TypeOK, StoreTypeOK
<1>5. \A k \in DOMAIN q :
        Entry(g[k]) = IF Entry(q[k]).change = ChangeOf(op)
                      THEN [Entry(q[k]) EXCEPT !.done = TRUE] ELSE Entry(q[k])
  <2> SUFFICES ASSUME NEW k \in DOMAIN q
               PROVE  Entry(g[k]) = IF Entry(q[k]).change = ChangeOf(op)
                                    THEN [Entry(q[k]) EXCEPT !.done = TRUE] ELSE Entry(q[k])
    OBVIOUS
  <2>1. Entry(q[k]).change = ChangeOf(op) <=> same(k)
    BY DEF Entry, ChangeOf
  <2>2. CASE same(k)
    <3>1. g[k].op = q[k].op /\ g[k].status = "COMPLETED"
      BY <1>4, <2>2 DEF PendingRow
    <3> QED
      BY <2>1, <2>2, <3>1 DEF Entry
  <2>3. CASE ~same(k)
    BY <2>1, <2>3
  <2> QED
    BY <2>2, <2>3
<1>6. DOMAIN g = DOMAIN q
  OBVIOUS
<1> HIDE DEF g
<1>7. pending'[source] = g /\ \A s \in Side : s # source => pending'[s] = pending[s]
  BY <1>1, <1>2 DEF Shape, TypeOK, StoreTypeOK
<1>8. QueueOf' = [s \in Side |-> [k \in DOMAIN pending'[s] |-> Entry(pending'[s][k])]]
  BY DEF QueueOf, Entry, ChangeOf
<1>9. QueueOf' = [QueueOf EXCEPT ![source] = [k \in DOMAIN @ |->
                    IF @[k].change = ChangeOf(op) THEN [@[k] EXCEPT !.done = TRUE] ELSE @[k]]]
  <2> DEFINE marked(s) == [k \in DOMAIN QueueOf[s] |->
                             IF QueueOf[s][k].change = ChangeOf(op)
                             THEN [QueueOf[s][k] EXCEPT !.done = TRUE] ELSE QueueOf[s][k]]
  <2>1. /\ DOMAIN QueueOf[source] = DOMAIN q
        /\ \A k \in DOMAIN q : QueueOf[source][k] = Entry(q[k])
    BY <1>1 DEF QueueOf
  <2>2. [k \in DOMAIN g |-> Entry(g[k])] = marked(source)
    BY <1>5, <1>6, <2>1
  <2>3. QueueOf'[source] = marked(source)
    BY <1>1, <1>7, <1>8, <2>2
  <2>4. \A s \in Side : s # source => QueueOf'[s] = QueueOf[s]
    BY <1>7, <1>8 DEF QueueOf
  <2> HIDE DEF marked
  <2>5. QueueOf' = [QueueOf EXCEPT ![source] = marked(source)]
    <3>1. DOMAIN QueueOf = Side /\ QueueOf = [s \in Side |-> QueueOf[s]]
      BY DEF QueueOf
    <3>2. QueueOf' = [s \in Side |-> QueueOf'[s]]
      BY <1>8
    <3> QED
      BY <1>1, <2>3, <2>4, <3>1, <3>2
  <2> QED
    BY <1>1, <2>5 DEF marked
<1>10. UNCHANGED CursorOf /\ UNCHANGED OpenOf
  BY <1>2 DEF CursorOf, OpenOf, Planned, ChangeOf
<1>11. PICK s \in Side : s = source
  BY <1>1
<1>12. PICK change \in delivered[s] : change = ChangeOf(op)
  BY <1>3, <1>11
<1>13. Promise!Complete(s, change)
  BY <1>2, <1>3, <1>9, <1>10, <1>11, <1>12
     DEF Promise!Complete, QueueOf, CursorOf, OpenOf
<1> QED
  BY <1>13, StepsOfOutbox

\* The queueing of an operation of the plan.
LEMMA QueueRefines ==
  ASSUME Shape, NEW i \in todo, QueueOperation(i)
  PROVE  PromiseStep
<1> DEFINE q == pending[source]
           op == Operation(i)
           row == [op |-> [op EXCEPT !.timestamp = 0], status |-> "PENDING"]
<1>1. source \in Side
  BY DEF Shape, TypeOK, CycleTypeOK
<1>2. /\ pending' = [pending EXCEPT ![source] = Append(q, row)]
      /\ UNCHANGED <<version, control, plan, delivered>>
  BY DEF QueueOperation, history, database
<1>3. ChangeOf(op) \in Planned(source)
  <2>1. i \in DOMAIN plan[source] /\ op = plan[source][i]
    BY DEF QueueOperation, Shape, Executing, Operation
  <2> QED
    BY <2>1 DEF Planned
<1>4. Entry(row) = [change |-> ChangeOf(op), done |-> FALSE]
  <2>1. op \in SyncOperation
    <3>1. StoreTypeOK /\ CycleShape /\ pc \in Replaying \cup Executing
      BY DEF Shape, CycleShape, TypeOK, QueueOperation, Executing
    <3> QED
      BY <3>1, OperationIsTyped
  <2> QED
    BY <2>1 DEF Entry, ChangeOf, SyncOperation
<1>5. q \in Seq(PendingRow) /\ Len(q) \in Nat /\ DOMAIN q = 1..Len(q)
  BY <1>1, LenProperties DEF Shape, TypeOK, StoreTypeOK
<1> HIDE DEF row
<1>6. /\ DOMAIN Append(q, row) = 1..(Len(q) + 1)
      /\ \A k \in DOMAIN q : Append(q, row)[k] = q[k]
      /\ Append(q, row)[Len(q) + 1] = row
  BY <1>5
<1>7. pending'[source] = Append(q, row) /\ \A s \in Side : s # source => pending'[s] = pending[s]
  BY <1>1, <1>2 DEF Shape, TypeOK, StoreTypeOK
<1>8. QueueOf' = [s \in Side |-> [k \in DOMAIN pending'[s] |-> Entry(pending'[s][k])]]
  BY DEF QueueOf, Entry, ChangeOf
<1>9. QueueOf'[source] = Append(QueueOf[source], [change |-> ChangeOf(op), done |-> FALSE])
  <2> DEFINE e == [k \in 1..Len(q) |-> Entry(q[k])]
             e1 == [k \in 1..(Len(q) + 1) |-> Entry(Append(q, row)[k])]
  <2>1. QueueOf[source] = e
    BY <1>1, <1>5 DEF QueueOf
  <2>2. QueueOf'[source] = e1
    BY <1>1, <1>6, <1>7, <1>8
  <2>3. e1 = Append(e, Entry(row))
    <3>1. e \in Seq({Entry(q[k]) : k \in 1..Len(q)}) /\ Len(e) = Len(q)
      BY <1>5
    <3>2. Append(e, Entry(row)) =
            [k \in 1..(Len(q) + 1) |-> IF k = Len(q) + 1 THEN Entry(row) ELSE e[k]]
      BY <1>5, <3>1
    <3> QED
      BY <1>5, <1>6, <3>2
  <2> QED
    BY <1>4, <2>1, <2>2, <2>3
<1>10. QueueOf' = [QueueOf EXCEPT ![source] =
                     Append(@, [change |-> ChangeOf(op), done |-> FALSE])]
  BY <1>1, <1>7, <1>8, <1>9 DEF QueueOf
<1>11. UNCHANGED CursorOf /\ UNCHANGED OpenOf
  BY <1>2 DEF CursorOf, OpenOf, Planned, ChangeOf
<1>12. PICK s \in Side : s = source
  BY <1>1
<1>13. PICK change \in Planned(s) : change = ChangeOf(op)
  BY <1>3, <1>12
<1>14. /\ change \in OpenOf[s]
       /\ QueueOf' = [QueueOf EXCEPT ![s] = Append(@, [change |-> change, done |-> FALSE])]
       /\ UNCHANGED <<version, CursorOf, OpenOf, delivered>>
  BY <1>2, <1>10, <1>11, <1>12, <1>13 DEF OpenOf
<1>15. Promise!Enqueue(s, change)
  BY <1>14 DEF Promise!Enqueue, QueueOf, CursorOf, OpenOf
<1> QED
  BY <1>15, StepsOfOutbox

\* A stamp.
LEMMA StampRefines ==
  ASSUME Shape, Progress, NEW s \in Side, pc \in Stamping, Stamp(s), NEW t \in Tables, t = table,
         UNCHANGED <<version, pending, delivered>>, UNCHANGED plan \/ plan' = NoPlan
  PROVE  PromiseStep
<1>1. control \in [Side -> [Tables -> ControlRow]]
  BY DEF Shape, TypeOK, StoreTypeOK
<1>2. CursorOf' = [CursorOf EXCEPT ![s][table] = version[s]]
  BY <1>1 DEF Stamp, CursorOf
<1>3. \A o \in Side : OpenOf[o] \subseteq delivered[o]
  BY DEF Progress, PlanDelivered, OpenOf, Planned, Side
<1>4. OpenOf' \in {OpenOf, [o \in Side |-> {}]}
  <2>1. UNCHANGED plan => UNCHANGED OpenOf
    BY DEF OpenOf, Planned, ChangeOf
  <2> QED
    BY <2>1, NothingPlanned
<1>5. UNCHANGED QueueOf
  BY DEF QueueOf, Entry, ChangeOf
<1>6. Promise!Advance(s, t)
  BY <1>2, <1>3, <1>4, <1>5
     DEF Promise!Advance, Promise!Nothing, QueueOf, CursorOf, OpenOf
<1> QED
  BY <1>6, StepsOfOutbox

\* The plan of a table is taken up where there was none.
LEMMA ResolveRefines ==
  ASSUME Shape, Shape', plan = NoPlan, UNCHANGED <<version, control, pending, delivered>>
  PROVE  PromiseStep
<1>1. OpenOf' \in [Side -> SUBSET Change]
  <2>1. \A s \in Side : plan'[s] \in Seq(SyncOperation)
    BY DEF Shape, TypeOK, CycleTypeOK
  <2>2. \A s \in Side : \A i \in DOMAIN plan'[s] : plan'[s][i] \in SyncOperation
    BY <2>1, LenProperties, ElementOfSeq
  <2>3. \A s \in Side : Planned(s)' \subseteq Change
    BY <2>2 DEF Planned, ChangeOf, Change, SyncOperation
  <2> QED
    BY <2>3 DEF OpenOf
<1>2. UNCHANGED CursorOf /\ UNCHANGED QueueOf
  BY DEF CursorOf, QueueOf, Entry, ChangeOf
<1>3. Promise!TakeUp
  BY <1>1, <1>2, NothingPlanned
     DEF Promise!TakeUp, Promise!Nothing, QueueOf, CursorOf, OpenOf
<1> QED
  BY <1>3 DEF PromiseStep, Promise!Next

-----------------------------------------------------------------------------
\* The steps of a cycle, a fault or a user that Outbox does not see, or sees as the
\* plan being given up.
LEMMA CursorsKept ==
  ASSUME Shape,
         UNCHANGED control \/ DetectLocal \/ MarkFailure
  PROVE  UNCHANGED CursorOf
<1>1. control \in [Side -> [Tables -> ControlRow]]
  BY DEF Shape, TypeOK, StoreTypeOK
<1>2. CASE UNCHANGED control
  BY <1>2 DEF CursorOf
<1>3. CASE DetectLocal
  <2>1. \A s \in Side, t \in Tables : control'[s][t].version = control[s][t].version
    <3> SUFFICES ASSUME NEW s \in Side, NEW t \in Tables
                 PROVE  control'[s][t].version = control[s][t].version
      OBVIOUS
    <3>1. control'[s] = [control[s] EXCEPT ![table].status =
                           IF @ = "ABSENT" THEN "INITIALIZED" ELSE @]
      BY <1>3 DEF DetectLocal, EnsureInitialized
    <3>2. ASSUME NEW st
          PROVE  [control[s] EXCEPT ![table].status = st][t].version = control[s][t].version
      BY <1>1 DEF ControlRow
    <3> QED
      BY <3>1, <3>2
  <2> QED
    BY <2>1 DEF CursorOf
<1>4. CASE MarkFailure
  <2>1. \A s \in Side, t \in Tables : control'[s][t].version = control[s][t].version
    BY <1>1, <1>4 DEF MarkFailure, Failed, ControlRow
  <2> QED
    BY <2>1 DEF CursorOf
<1> QED
  BY <1>2, <1>3, <1>4

\* Giving up, or going on with the plan there is.
LEMMA PlanKept ==
  /\ RetryOrRaise => UNCHANGED plan \/ plan' = NoPlan
  /\ BatchRaises => UNCHANGED plan \/ plan' = NoPlan
  /\ NextTable => plan' = NoPlan
BY DEF RetryOrRaise, BatchRaises, DirectionRaises, NextTable, Attempt, EndCycle

\* Every step of the cycle is an operation of Outbox or invisible.
LEMMA CycleRefines ==
  ASSUME RefinementInv, Shape', CycleStep
  PROVE  PromiseStep
<1>1. Shape /\ Progress /\ MarkedIsDelivered
  BY DEF RefinementInv, CompletedInv, CursorInv
<1>2. CASE StartCycle \/ NextReplay \/ NextDirection \/ MarkFailure \/ DetectLocal
  <2>1. UNCHANGED <<version, pending, delivered, plan>>
    BY <1>2 DEF StartCycle, NextReplay, NextDirection, MarkFailure, DetectLocal, database, history
  <2>2. UNCHANGED CursorOf
    BY <1>1, <1>2, CursorsKept DEF StartCycle, NextReplay, NextDirection
  <2> QED
    BY <2>1, <2>2, Invisible
<1>3. ASSUME NEW i \in todo, ApplyOperation(i) \/ DuplicateKey(i) PROVE PromiseStep
  <2>1. UNCHANGED <<version, pending, delivered, control>> /\ (UNCHANGED plan \/ plan' = NoPlan)
    BY <1>3, PlanKept DEF ApplyOperation, DuplicateKey, database, history
  <2> QED
    BY <1>1, <2>1, CursorsKept, Invisible
<1>4. CASE RaiseProcessingError
  <2>1. UNCHANGED <<version, pending, delivered, control>> /\ (UNCHANGED plan \/ plan' = NoPlan)
    BY <1>4, PlanKept DEF RaiseProcessingError, database, history
  <2> QED
    BY <1>1, <2>1, CursorsKept, Invisible
<1>5. CASE CommitBatch
  BY <1>1, <1>5, CommitRefines DEF CommitBatch
<1>6. ASSUME NEW i \in batch, MarkCompleted(i) PROVE PromiseStep
  BY <1>1, <1>6, MarkRefines
<1>7. ASSUME NEW i \in todo, QueueOperation(i) PROVE PromiseStep
  BY <1>1, <1>7, QueueRefines
<1>8. CASE DetectRemote
  <2>1. UNCHANGED <<version, control, pending, delivered>> /\ plan = NoPlan
    BY <1>8 DEF DetectRemote, database, RefinementInv, PlanIsAtWork
  <2> QED
    BY <1>1, <2>1, ResolveRefines
<1>9. CASE StampLocal \/ StampRemote
  <2>1. /\ pc \in Stamping /\ table \in Tables
        /\ \E s \in Side : Stamp(s)
        /\ UNCHANGED <<version, pending, delivered>> /\ (UNCHANGED plan \/ plan' = NoPlan)
    BY <1>1, <1>9, PlanKept
       DEF StampLocal, StampRemote, Stamping, Shape, Phase, Replaying, Side, database, history
  <2>2. PICK t \in Tables : t = table
    BY <2>1
  <2> QED
    BY <1>1, <2>1, <2>2, StampRefines
<1> QED
  BY <1>2, <1>3, <1>4, <1>5, <1>6, <1>7, <1>8, <1>9 DEF CycleStep

\* So is every fault.
LEMMA FaultRefines ==
  ASSUME Shape, FaultStep
  PROVE  PromiseStep
<1>1. CASE CommitUnacknowledged
  BY <1>1, CommitRefines, PlanKept DEF CommitUnacknowledged
<1>2. CASE PreconditionFails \/ StatementFails \/ BatchFails \/ HandlerFails \/ Crash
  <2>1. UNCHANGED <<version, pending, delivered, control>> /\ (UNCHANGED plan \/ plan' = NoPlan)
    BY <1>2, PlanKept
       DEF PreconditionFails, StatementFails, BatchFails, HandlerFails, Crash, EndCycle,
           database, history
  <2> QED
    BY <2>1, CursorsKept, Invisible
<1> QED
  BY <1>1, <1>2 DEF FaultStep

\* A plan is made by resolve() only, and dropped when the cycle leaves its table.
LEMMA PlanIsAtWorkStep ==
  ASSUME Shape, PlanIsAtWork, [Next]_vars
  PROVE  PlanIsAtWork'
<1> USE DEF PlanIsAtWork, Replaying
<1>1. CASE UserStep \/ UNCHANGED vars
  BY <1>1 DEF UserStep, UserWrite, vars, cycle
<1>2. CASE CycleStep
  <2>1. CASE StartCycle \/ NextReplay \/ NextDirection
    BY <2>1 DEF StartCycle, NextReplay, NextDirection
  <2>2. CASE CommitBatch \/ \E i \in todo : ApplyOperation(i)
    BY <2>2 DEF CommitBatch, Commit, ApplyOperation
  <2>3. CASE \E i \in todo : DuplicateKey(i)
    BY <2>3 DEF DuplicateKey, BatchRaises, DirectionRaises, EndCycle
  <2>4. CASE DetectLocal \/ DetectRemote
    <3>1. ASSUME NEW theirs, Resolve(theirs) PROVE pc' = "apply"
      BY <3>1 DEF Resolve
    <3> QED
      BY <2>4, <3>1, PlanKept DEF DetectLocal, DetectRemote
  <2>5. CASE MarkFailure \/ RaiseProcessingError
    BY <2>5 DEF MarkFailure, RaiseProcessingError, RetryOrRaise, Attempt, EndCycle
  <2>6. CASE StampLocal \/ StampRemote
    BY <2>6, PlanKept DEF StampLocal, StampRemote
  <2>7. CASE (\E i \in batch : MarkCompleted(i)) \/ (\E i \in todo : QueueOperation(i))
    BY <2>7 DEF MarkCompleted, QueueOperation
  <2> QED
    BY <1>2, <2>1, <2>2, <2>3, <2>4, <2>5, <2>6, <2>7 DEF CycleStep
<1>3. CASE FaultStep
  BY <1>3 DEF FaultStep, PreconditionFails, StatementFails, BatchFails, HandlerFails, Crash,
              CommitUnacknowledged, BatchRaises, DirectionRaises, RetryOrRaise, Attempt, EndCycle
<1> QED
  BY <1>1, <1>2, <1>3 DEF Next

\* The initial states of SyncEngine are those of Outbox.
LEMMA InitRefines == Init => Promise!Init
<1> SUFFICES ASSUME Init PROVE Promise!Init
  OBVIOUS
<1>1. CursorOf = [s \in Side |-> [t \in Tables |-> 0]]
  BY DEF Init, CursorOf
<1>2. OpenOf = [s \in Side |-> {}]
  BY NothingPlanned DEF Init
<1>3. QueueOf = [s \in Side |-> <<>>]
  <2>1. \A s \in Side : pending[s] = <<>>
    BY DEF Init
  <2>2. [k \in DOMAIN <<>> |-> Entry(<<>>[k])] = <<>>
    OBVIOUS
  <2>3. \A s \in Side : [k \in DOMAIN pending[s] |-> Entry(pending[s][k])] = <<>>
    BY <2>1, <2>2
  <2> QED
    BY <2>3 DEF QueueOf
<1> QED
  BY <1>1, <1>2, <1>3
     DEF Init, Promise!Init, Promise!Nothing, CursorOf, OpenOf, QueueOf

\* Whatever batches, retries, replays, failures and crashes there are, the cycle keeps
\* the promise of Outbox: a queued operation stays queued until it was delivered,
\* only what was detected or queued is delivered, and LastSyncVersion moves only
\* while nothing that was taken up is undelivered.
THEOREM EngineImplementsOutbox == Spec => ImplementsOutbox
<1>1. Init => RefinementInv
  BY InitCompleted, InitCursor DEF RefinementInv, PlanIsAtWork, Init
<1>2. RefinementInv /\ [Next]_vars => RefinementInv'
  BY CompletedStep, CursorStep, PlanIsAtWorkStep DEF RefinementInv, CompletedInv
<1>3. RefinementInv /\ [Next]_vars => PromiseStep
  <2> SUFFICES ASSUME RefinementInv, [Next]_vars PROVE PromiseStep
    OBVIOUS
  <2>1. Shape /\ Shape'
    BY ShapeStep DEF RefinementInv, CompletedInv
  <2>2. CASE UserStep
    BY <2>1, <2>2, WriteRefines DEF UserStep
  <2>3. CASE CycleStep
    BY <2>1, <2>3, CycleRefines
  <2>4. CASE FaultStep
    BY <2>1, <2>4, FaultRefines
  <2>5. CASE UNCHANGED vars
    <3>1. UNCHANGED <<version, pending, delivered, control, plan>>
      BY <2>5 DEF vars, database, cycle, history
    <3> QED
      BY <2>1, <3>1, CursorsKept, Invisible
  <2> QED
    BY <2>2, <2>3, <2>4, <2>5 DEF Next
<1> QED
  BY <1>1, <1>2, <1>3, InitRefines, PTL DEF Spec, ImplementsOutbox, Promise!Spec, PromiseStep
=============================================================================
