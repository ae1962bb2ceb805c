---------------------------- MODULE CursorProofs ----------------------------
(***************************************************************************)
(* What a cursor of SyncEngine means, for every instance: nothing behind   *)
(* it is lost, queued work behind it is a repetition, a failed direction   *)
(* has work ahead of it, and the service's own writes are behind it.  What *)
(* a write during a cycle changes: it can be skipped, and then stays lost. *)
(* And what resolve() makes of the changes that cursors let detection see. *)
(***************************************************************************)
EXTENDS SyncEngineProofs

USE DEF Side, Other

Detecting == {"detectLocal", "detectRemote"}

-----------------------------------------------------------------------------
(***************************************************************************)
(* resolve() and detection.                                                *)
(***************************************************************************)

\* resolve() is given at most one operation on a record and side.
OnePerRecord(ops) == \A o, p \in ops : o.record = p.record => o = p

\* An ordering of a finite set lists every element.
LEMMA OrderingIsComplete ==
  ASSUME NEW S, IsFiniteSet(S), NEW w \in SetToSeqs(S), NEW x \in S
  PROVE  \E i \in DOMAIN w : w[i] = x
<1>1. Cardinality(S) \in Nat /\ w \in [1..Cardinality(S) -> S]
  BY FS_CardinalityType DEF SetToSeqs
<1>2. w \in Injection(1..Cardinality(S), S)
  BY <1>1 DEF SetToSeqs, Injection, IsInjective
<1>3. Cardinality(1..Cardinality(S)) = Cardinality(S)
  BY <1>1, FS_Interval
<1>4. w \in Surjection(1..Cardinality(S), S)
  BY <1>2, <1>3, FS_Injection
<1> QED
  BY <1>1, <1>4 DEF Surjection

\* The list of a direction holds all of its operations, and no others.
LEMMA ListingIsComplete ==
  ASSUME NEW ops, NEW others, IsFiniteSet(ops), NEW l \in Listings(ops, others)
  PROVE  /\ \A i \in DOMAIN l : l[i] \in ops
         /\ \A o \in ops : \E i \in DOMAIN l : l[i] = o
<1> DEFINE won == {o \in ops : Opponents(o, others) # {}}
<1>1. IsFiniteSet(won) /\ IsFiniteSet(ops \ won)
  BY FS_Subset
<1>2. PICK w \in SetToSeqs(won), rest \in SetToSeqs(ops \ won) : l = w \o rest
  BY DEF Listings
<1>3. w \in Seq(ops) /\ rest \in Seq(ops)
  BY <1>1, <1>2, OrderingType, SeqMonotonic
<1>4. l \in Seq(ops)
  BY <1>2, <1>3, ConcatProperties
<1>5. ASSUME NEW o \in ops
      PROVE  \E i \in DOMAIN l : l[i] = o
  <2>1. CASE o \in won
    <3>1. PICK i \in DOMAIN w : w[i] = o
      BY <1>1, <2>1, OrderingIsComplete
    <3>2. i \in 1..Len(w) /\ i \in 1..(Len(w) + Len(rest))
      BY <1>3, LenProperties
    <3> QED
      BY <1>2, <1>3, <3>1, <3>2, ConcatProperties
  <2>2. CASE o \in ops \ won
    <3>1. PICK i \in DOMAIN rest : rest[i] = o
      BY <1>1, <2>2, OrderingIsComplete
    <3>2. i \in 1..Len(rest) /\ Len(w) \in Nat /\ Len(rest) \in Nat
      BY <1>3, LenProperties
    <3> DEFINE j == Len(w) + i
    <3>3. j \in 1..(Len(w) + Len(rest)) /\ j > Len(w) /\ j - Len(w) = i
      BY <3>2
    <3>4. j \in DOMAIN l /\ l[j] = rest[j - Len(w)]
      BY <1>2, <1>3, <3>3, ConcatProperties
    <3> QED
      BY <3>1, <3>3, <3>4
  <2> QED
    BY <2>1, <2>2
<1> QED
  BY <1>4, <1>5, LenProperties

\* A list of a direction has every operation once.
LEMMA ListingIsInjective ==
  ASSUME NEW ops, NEW others, IsFiniteSet(ops), NEW l \in Listings(ops, others),
         NEW i \in DOMAIN l, NEW j \in DOMAIN l, l[i] = l[j]
  PROVE  i = j
<1> DEFINE won == {o \in ops : Opponents(o, others) # {}}
<1>1. IsFiniteSet(won) /\ IsFiniteSet(ops \ won)
  BY FS_Subset
<1>2. PICK w \in SetToSeqs(won), rest \in SetToSeqs(ops \ won) : l = w \o rest
  BY DEF Listings
<1>3. w \in Seq(won) /\ rest \in Seq(ops \ won)
  BY <1>1, <1>2, OrderingType
<1>4. /\ \A m, n \in DOMAIN w : w[m] = w[n] => m = n
      /\ \A m, n \in DOMAIN rest : rest[m] = rest[n] => m = n
  BY DEF SetToSeqs, IsInjective
<1> HIDE DEF won
<1>5. /\ Len(w) \in Nat /\ Len(rest) \in Nat
      /\ DOMAIN w = 1..Len(w) /\ DOMAIN rest = 1..Len(rest)
      /\ \A n \in DOMAIN w : w[n] \in won
      /\ \A n \in DOMAIN rest : rest[n] \in ops \ won
  BY <1>3, LenProperties, ElementOfSeq
<1>6. /\ DOMAIN l = 1..(Len(w) + Len(rest))
      /\ \A n \in DOMAIN l : l[n] = IF n <= Len(w) THEN w[n] ELSE rest[n - Len(w)]
  BY <1>2, <1>3, <1>5, ConcatProperties
<1>7. CASE i <= Len(w) /\ j <= Len(w)
  BY <1>4, <1>5, <1>6, <1>7
<1>8. CASE i > Len(w) /\ j > Len(w)
  <2>1. i - Len(w) \in DOMAIN rest /\ j - Len(w) \in DOMAIN rest
    BY <1>5, <1>6, <1>8
  <2>2. rest[i - Len(w)] = rest[j - Len(w)]
    BY <1>5, <1>6, <1>8
  <2>3. i - Len(w) = j - Len(w)
    BY <1>4, <2>1, <2>2
  <2> QED
    BY <1>5, <1>6, <2>3
<1>9. ASSUME NEW m \in DOMAIN l, NEW n \in DOMAIN l, m <= Len(w), n > Len(w)
      PROVE  l[m] # l[n]
  <2>1. m \in DOMAIN w /\ n - Len(w) \in DOMAIN rest
    BY <1>5, <1>6, <1>9
  <2> QED
    BY <1>5, <1>6, <1>9, <2>1
<1> QED
  BY <1>5, <1>6, <1>7, <1>8, <1>9

\* resolve() drops an operation only for an opponent: each one is kept, or recorded
\* as lost, because both are deletions or because the opponent is kept.
LEMMA KeptOrLost ==
  ASSUME NEW L, NEW R, OnePerRecord(L), OnePerRecord(R)
  PROVE  /\ \A o \in L \ LocalToRemote(L, R) : ChangeOf(o) \in Lost(L, R, RemoteToLocal(L, R))
         /\ \A o \in R \ RemoteToLocal(L, R) : ChangeOf(o) \in Lost(R, L, LocalToRemote(L, R))
<1>1. ASSUME NEW o \in L, o \notin LocalToRemote(L, R)
      PROVE  \E p \in Opponents(o, R) : BothDelete(o, p) \/ p \in RemoteToLocal(L, R)
  <2>1. PICK p \in Opponents(o, R) : BothDelete(o, p) \/ ~LocalWins(o, p)
    BY <1>1 DEF LocalToRemote
  <2>2. Opponents(p, L) = {o}
    BY <2>1 DEF Opponents, OnePerRecord
  <2> QED
    BY <2>1, <2>2 DEF RemoteToLocal, Opponents
<1>2. ASSUME NEW o \in R, o \notin RemoteToLocal(L, R)
      PROVE  \E p \in Opponents(o, L) : BothDelete(o, p) \/ p \in LocalToRemote(L, R)
  <2>1. PICK p \in Opponents(o, L) : BothDelete(p, o) \/ LocalWins(p, o)
    BY <1>2 DEF RemoteToLocal
  <2>2. Opponents(p, R) = {o}
    BY <2>1 DEF Opponents, OnePerRecord
  <2> QED
    BY <2>1, <2>2 DEF LocalToRemote, Opponents, BothDelete
<1> QED
  BY <1>1, <1>2 DEF Lost

\* No record is sent both ways.
LEMMA OneWinner ==
  ASSUME NEW L, NEW R, NEW o \in LocalToRemote(L, R), NEW p \in RemoteToLocal(L, R)
  PROVE  o.record # p.record
BY DEF LocalToRemote, RemoteToLocal, Opponents

Ahead(s, t, op) ==
  /\ op.record \in Record /\ TableOf[op.record] = t
  /\ op.version \in Nat /\ op.version > Cursor(s, op.record)
  /\ op.version <= changed[s][op.record]

\* Detection returns one operation for every change of the table ahead of the
\* cursor, with the version it has now.
LEMMA DetectedIsAhead ==
  ASSUME StoreTypeOK, NEW s \in Side, NEW t \in Tables, NEW now \in Nat
  PROVE  /\ OnePerRecord(Detected(s, t, now))
         /\ \A o \in Detected(s, t, now) : Ahead(s, t, o)
         /\ \A r \in Record : TableOf[r] = t /\ Visible(s, r) =>
              \E o \in Detected(s, t, now) : ChangeOf(o) = <<r, changed[s][r]>>
<1>1. \A r \in Record : changed[s][r] \in Nat
  BY DEF StoreTypeOK
<1>2. OnePerRecord(Detected(s, t, now))
  BY DEF Detected, OnePerRecord
<1>3. \A o \in Detected(s, t, now) : Ahead(s, t, o)
  BY <1>1 DEF Detected, Ahead, Cursor
<1>4. ASSUME NEW r \in Record, TableOf[r] = t, Visible(s, r)
      PROVE  \E o \in Detected(s, t, now) : ChangeOf(o) = <<r, changed[s][r]>>
  <2> DEFINE last == control[s][t].version
             Type(q) == IF rows[s][q] = Absent THEN "D"
                        ELSE IF created[s][q] > last THEN "I" ELSE "U"
             op(q) == [record |-> q, type |-> Type(q), version |-> changed[s][q],
                       data |-> rows[s][q], timestamp |-> now]
  <2>1. Detected(s, t, now) = {op(q) : q \in {q \in Record : TableOf[q] = t /\ changed[s][q] > last}}
    BY DEF Detected
  <2>2. r \in {q \in Record : TableOf[q] = t /\ changed[s][q] > last}
    BY <1>4 DEF Visible, Cursor
  <2>3. op(r) \in Detected(s, t, now)
    BY <2>1, <2>2
  <2>4. ChangeOf(op(r)) = <<r, changed[s][r]>>
    BY DEF ChangeOf
  <2> QED
    BY <2>3, <2>4
<1> QED
  BY <1>2, <1>3, <1>4

-----------------------------------------------------------------------------
(***************************************************************************)
(* What a step does to the databases and to their histories.               *)
(***************************************************************************)

\* The clocks of the model bound what they number.
Bounds ==
  /\ \A s \in Side, r \in Record : changed[s][r] <= version[s] /\ edited[s][r] <= clock
  /\ \A s \in Side, t \in Tables : seen[s][t] <= clock

\* Only a batch at work holds locks, on rows of the table at work.
Locks ==
  /\ batch = {} \/ pc \notin {"replay", "apply"} => touched = {}
  /\ pc = "apply" => \A r \in touched : TableOf[r] = table

\* Users write, batches are committed, detection is recorded; nothing else touches
\* the databases or the history.
LEMMA DataSteps ==
  ASSUME [Next]_vars
  PROVE  \/ UserStep \/ Commit \/ DetectLocal \/ DetectRemote
         \/ UNCHANGED <<database, history>>
<1>1. CASE CycleStep
  BY <1>1 DEF CycleStep, StartCycle, NextReplay, ApplyOperation, DuplicateKey, CommitBatch,
         MarkCompleted, NextDirection, MarkFailure, QueueOperation, RaiseProcessingError,
         StampLocal, StampRemote
<1>2. CASE FaultStep
  BY <1>2 DEF FaultStep, PreconditionFails, StatementFails, BatchFails, HandlerFails,
              Crash, CommitUnacknowledged
<1>3. CASE UNCHANGED vars
  BY <1>3 DEF vars
<1> QED
  BY <1>1, <1>2, <1>3 DEF Next

\* A row changes by a user's write, which is dated after everything detected, or by
\* a batch, whose change needs no delivery.
Tracked(s, r) ==
  \/ changed'[s][r] = changed[s][r] /\ edited'[s][r] = edited[s][r]
  \/ edited'[s][r] = clock + 1 /\ clock' = clock + 1 /\ UNCHANGED <<seen, cycle>>
  \/ /\ pc \in {"replay", "apply"} /\ s = Target /\ r \in touched
     /\ changed'[s][r] = version[s] + 1 /\ version'[s] = version[s] + 1
     /\ edited'[s][r] = edited[s][r]
     /\ <<r, changed'[s][r]>> \in waived'[s]

\* What user writes change.
LEMMA UserTracks ==
  ASSUME Shape, Bounds, UserStep, NEW s \in Side, NEW r \in Record
  PROVE  /\ Tracked(s, r) /\ changed[s][r] <= changed'[s][r] /\ edited[s][r] <= edited'[s][r]
         /\ changed'[s][r] <= version'[s] /\ edited'[s][r] <= clock'
         /\ waived[s] \subseteq waived'[s] /\ clock <= clock' /\ UNCHANGED <<seen, cycle>>
<1>1. PICK u \in Side, q \in Record, kind \in OperationType : UserWrite(u, q, kind)
  BY DEF UserStep
<1>2. /\ changed \in [Side -> [Record -> Nat]] /\ edited \in [Side -> [Record -> Nat]]
      /\ version \in [Side -> Nat] /\ clock \in Nat
  BY DEF Shape, TypeOK, StoreTypeOK
<1>3. /\ clock' = clock + 1 /\ UNCHANGED <<seen, waived, cycle>>
      /\ version' = [version EXCEPT ![u] = @ + 1]
      /\ changed' = [changed EXCEPT ![u][q] = version'[u]]
      /\ edited' = [edited EXCEPT ![u][q] = clock']
  BY <1>1 DEF UserWrite
<1>4. changed[s][r] <= version[s] /\ edited[s][r] <= clock
  BY DEF Bounds
<1>5. CASE u = s /\ q = r
  <2>1. /\ version'[s] = version[s] + 1 /\ changed'[s][r] = version[s] + 1
        /\ edited'[s][r] = clock + 1
    BY <1>2, <1>3, <1>5
  <2>2. version[s] \in Nat /\ changed[s][r] \in Nat /\ edited[s][r] \in Nat
    BY <1>2
  <2>3. Tracked(s, r)
    BY <1>3, <2>1 DEF Tracked
  <2> QED
    BY <1>2, <1>3, <1>4, <2>1, <2>2, <2>3
<1>6. CASE ~(u = s /\ q = r)
  <2>1. /\ version'[s] \in {version[s], version[s] + 1} /\ changed'[s][r] = changed[s][r]
        /\ edited'[s][r] = edited[s][r]
    BY <1>2, <1>3, <1>6
  <2>2. version[s] \in Nat /\ changed[s][r] \in Nat /\ edited[s][r] \in Nat
    BY <1>2
  <2>3. Tracked(s, r)
    BY <2>1 DEF Tracked
  <2> QED
    BY <1>2, <1>3, <1>4, <2>1, <2>2, <2>3
<1> QED
  BY <1>5, <1>6

\* What a commit changes.
LEMMA CommitTracks ==
  ASSUME Shape, Bounds, Commit, NEW s \in Side, NEW r \in Record
  PROVE  /\ Tracked(s, r) /\ changed[s][r] <= changed'[s][r] /\ edited[s][r] <= edited'[s][r]
         /\ changed'[s][r] <= version'[s] /\ edited'[s][r] <= clock'
         /\ waived[s] \subseteq waived'[s] /\ clock <= clock' /\ UNCHANGED seen
<1> DEFINE v == version[Target] + 1
<1>1. /\ changed \in [Side -> [Record -> Nat]] /\ edited \in [Side -> [Record -> Nat]]
      /\ version \in [Side -> Nat] /\ clock \in Nat /\ waived \in [Side -> SUBSET Change]
      /\ Target \in Side
  BY DEF Shape, TypeOK, StoreTypeOK, CycleTypeOK, Target
<1>2. /\ pc \in {"replay", "apply"} /\ UNCHANGED <<edited, seen, clock>>
      /\ changed' = [changed EXCEPT ![Target] = [q \in Record |-> IF q \in touched THEN v ELSE @[q]]]
      /\ version' = IF touched = {} THEN version ELSE [version EXCEPT ![Target] = v]
      /\ waived' = [waived EXCEPT ![Target] = @ \cup (touched \X {v})]
  BY DEF Commit
<1>3. /\ changed[s][r] <= version[s] /\ edited[s][r] <= clock
      /\ version[s] \in Nat /\ changed[s][r] \in Nat /\ edited[s][r] \in Nat
  BY <1>1 DEF Bounds
<1>4. waived[s] \subseteq waived'[s]
  BY <1>1, <1>2
<1>5. CASE s = Target /\ r \in touched
  <2>1. /\ changed'[s][r] = version[s] + 1 /\ version'[s] = version[s] + 1
        /\ <<r, version[s] + 1>> \in waived'[s]
    BY <1>1, <1>2, <1>5
  <2>2. Tracked(s, r)
    BY <1>2, <1>5, <2>1 DEF Tracked
  <2> QED
    BY <1>1, <1>2, <1>3, <1>4, <2>1, <2>2
<1>6. CASE ~(s = Target /\ r \in touched)
  <2>1. changed'[s][r] = changed[s][r] /\ version'[s] \in {version[s], version[s] + 1}
    BY <1>1, <1>2, <1>6
  <2>2. Tracked(s, r)
    BY <1>2, <2>1 DEF Tracked
  <2> QED
    BY <1>1, <1>2, <1>3, <1>4, <2>1, <2>2
<1> QED
  BY <1>5, <1>6

\* A table is dated when it is read.
LEMMA SeenSteps ==
  ASSUME Shape, [Next]_vars, NEW s \in Side, NEW t \in Tables
  PROVE  \/ seen'[s][t] = seen[s][t]
         \/ /\ t = table /\ seen'[s][t] = clock /\ UNCHANGED clock
            /\ (s = Local /\ DetectLocal) \/ (s = Remote /\ DetectRemote)
<1>1. seen \in [Side -> [Tables -> Nat]] /\ clock \in Nat
  BY DEF Shape, TypeOK, StoreTypeOK
<1>2. CASE DetectLocal
  <2>1. seen' = [seen EXCEPT ![Local][table] = clock] /\ UNCHANGED clock
    BY <1>2 DEF DetectLocal
  <2> QED
    BY <1>1, <1>2, <2>1
<1>3. CASE DetectRemote
  <2>1. seen' = [seen EXCEPT ![Remote][table] = clock] /\ UNCHANGED clock
    BY <1>3 DEF DetectRemote
  <2> QED
    BY <1>1, <1>3, <2>1
<1>4. CASE UserStep \/ Commit \/ UNCHANGED <<database, history>>
  BY <1>4 DEF UserStep, UserWrite, Commit, history
<1> QED
  BY <1>2, <1>3, <1>4, DataSteps

\* In every step versions and dates only grow, and a row changes as Tracked says.
LEMMA Tracks ==
  ASSUME Shape, Bounds, [Next]_vars, NEW s \in Side, NEW r \in Record
  PROVE  /\ Tracked(s, r) /\ changed[s][r] <= changed'[s][r] /\ edited[s][r] <= edited'[s][r]
         /\ changed'[s][r] <= version'[s] /\ edited'[s][r] <= clock'
         /\ waived[s] \subseteq waived'[s] /\ clock <= clock'
<1>1. /\ changed[s][r] \in Nat /\ edited[s][r] \in Nat /\ clock \in Nat
      /\ waived \in [Side -> SUBSET Change]
  BY DEF Shape, TypeOK, StoreTypeOK
<1>2. changed[s][r] <= version[s] /\ edited[s][r] <= clock
  BY DEF Bounds
<1>3. ASSUME UNCHANGED <<changed, edited, clock>>, waived[s] \subseteq waived'[s],
             UNCHANGED version
      PROVE  /\ Tracked(s, r) /\ changed[s][r] <= changed'[s][r] /\ edited[s][r] <= edited'[s][r]
             /\ changed'[s][r] <= version'[s] /\ edited'[s][r] <= clock'
             /\ waived[s] \subseteq waived'[s] /\ clock <= clock'
  BY <1>1, <1>2, <1>3 DEF Tracked
<1>4. CASE DetectRemote
  <2>1. UNCHANGED <<changed, edited, clock, version>>
    BY <1>4 DEF DetectRemote, database
  <2>2. PICK now \in {0, 1} : UNCHANGED waived \/ Resolve(Detected(Remote, table, now))
    BY <1>4 DEF DetectRemote
  <2>3. CASE Resolve(Detected(Remote, table, now))
    BY <1>1, <1>3, <2>1, <2>3 DEF Resolve
  <2> QED
    BY <1>3, <2>1, <2>2, <2>3
<1>5. CASE DetectLocal \/ UNCHANGED <<database, history>>
  BY <1>3, <1>5 DEF DetectLocal, database, history
<1> QED
  BY <1>4, <1>5, DataSteps, UserTracks, CommitTracks

\* The bounds are inductive.
LEMMA BoundsStep == Shape /\ Bounds /\ [Next]_vars => Bounds'
<1> SUFFICES ASSUME Shape, Bounds, [Next]_vars PROVE Bounds'
  OBVIOUS
<1>1. ASSUME NEW s \in Side, NEW t \in Tables
      PROVE  seen'[s][t] <= clock'
  <2>1. clock \in Nat /\ clock' \in Nat /\ seen[s][t] \in Nat /\ seen[s][t] <= clock
    BY ShapeStep DEF Bounds, Shape, TypeOK, StoreTypeOK
  <2>2. clock <= clock'
    BY <2>1, DataSteps
       DEF UserStep, UserWrite, Commit, DetectLocal, DetectRemote, history
  <2> QED
    BY <2>1, <2>2, SeenSteps
<1> QED
  BY <1>1, Tracks DEF Bounds

\* Locks are taken by the operations of a batch, and released with it.
LEMMA LocksStep == Shape /\ Locks /\ [Next]_vars => Locks'
<1> SUFFICES ASSUME Shape, Locks, [Next]_vars PROVE Locks'
  OBVIOUS
<1>1. ASSUME CloseTxn PROVE Locks'
  BY <1>1 DEF CloseTxn, Locks
<1>2. CASE UNCHANGED <<touched, batch, pc, table>>
  BY <1>2 DEF Locks
<1>3. CASE UserStep
  BY <1>2, <1>3 DEF UserStep, UserWrite, txn, cycle
<1>4. ASSUME NEW i \in todo, ApplyOperation(i)
      PROVE  Locks'
  <2>1. i \in batch' /\ UNCHANGED pc /\ pc \in {"replay", "apply"}
    BY <1>4 DEF ApplyOperation
  <2>2. CASE pc = "apply"
    <3>1. batch = {} \/ table' = table
      BY <1>4 DEF ApplyOperation, IsNext, BatchFull, SameTable
    <3>2. \A r \in touched' : r \in touched \/ TableOf[r] = table'
      BY <1>4 DEF ApplyOperation
    <3> QED
      BY <2>1, <2>2, <3>1, <3>2 DEF Locks
  <2> QED
    BY <2>1, <2>2 DEF Locks
<1>5. CASE CycleStep
  <2>1. CASE StartCycle \/ NextReplay \/ NextDirection
    BY <2>1 DEF StartCycle, NextReplay, NextDirection, txn, Locks
  <2>2. CASE \E i \in todo : DuplicateKey(i)
    BY <1>1, <2>2 DEF DuplicateKey, BatchRaises, DirectionRaises, EndCycle
  <2>3. CASE CommitBatch
    BY <1>1, <2>3 DEF CommitBatch
  <2>4. CASE DetectLocal
    BY <2>4 DEF DetectLocal, txn, Locks
  <2>5. CASE DetectRemote
    <3>1. touched = {}
      BY <2>5 DEF DetectRemote, Locks
    <3>2. touched' = {}
      BY <2>5, <3>1 DEF DetectRemote, Resolve, NextTable, EndCycle, CloseTxn, txn
    <3> QED
      BY <3>2 DEF Locks
  <2>6. CASE MarkFailure \/ StampLocal \/ (\E i \in batch : MarkCompleted(i))
               \/ (\E i \in todo : QueueOperation(i))
    BY <2>6 DEF MarkFailure, StampLocal, MarkCompleted, QueueOperation, txn, Locks
  <2>7. CASE RaiseProcessingError
    BY <1>1, <2>7 DEF RaiseProcessingError, RetryOrRaise, Attempt, EndCycle
  <2>8. CASE StampRemote
    BY <2>8 DEF StampRemote, NextTable, EndCycle, CloseTxn, txn, Locks
  <2> QED
    BY <1>4, <1>5, <2>1, <2>2, <2>3, <2>4, <2>5, <2>6, <2>7, <2>8 DEF CycleStep
<1>6. CASE FaultStep
  <2>1. CASE PreconditionFails
    BY <1>2, <2>1 DEF PreconditionFails, txn
  <2> QED
    BY <1>1, <1>6, <2>1 DEF FaultStep, StatementFails, BatchFails, HandlerFails, Crash,
       CommitUnacknowledged, BatchRaises, DirectionRaises, RetryOrRaise, Attempt, EndCycle
<1>7. CASE UNCHANGED vars
  BY <1>2, <1>7 DEF vars, txn, cycle
<1> QED
  BY <1>3, <1>5, <1>6, <1>7 DEF Next

-----------------------------------------------------------------------------
(***************************************************************************)
(* The invariant.  What a cycle has found covers what is ahead of the      *)
(* cursors of the table at work, but for writes made since; the tables     *)
(* before it are done; what is pending was delivered or is planned.        *)
(***************************************************************************)
WrittenSince(s, r) == edited[s][r] > seen[s][TableOf[r]]

FoundInv == pc = "detectRemote" =>
  /\ \A o \in found : Ahead(Local, table, o)
  /\ OnePerRecord(found)
  /\ \A r \in Record : TableOf[r] = table /\ Visible(Local, r) =>
       WrittenSince(Local, r) \/ \E o \in found : ChangeOf(o) = <<r, changed[Local][r]>>

PlanAhead == pc \in Executing =>
  \A s \in Side : \A i \in DOMAIN plan[s] : Ahead(s, table, plan[s][i])

PlanCovers == pc \in Executing \cup Stamping =>
  \A s \in Side, r \in Record : TableOf[r] = table /\ Visible(s, r) =>
    WrittenSince(s, r) \/ <<r, changed[s][r]>> \in waived[s] \cup Planned(s)

FailHasPlan == pc = "fail" => \E i \in DOMAIN plan[source] : TRUE

TablesDone ==
  /\ pc \in Detecting \cup Executing \cup Stamping =>
       \A s \in Side, r \in Record : TableOf[r] < table /\ Visible(s, r) => WrittenSince(s, r)
  /\ pc = "stampRemote" =>
       \A r \in Record : TableOf[r] = table /\ Visible(Local, r) => WrittenSince(Local, r)

QueueDelivered(s) == \A k \in DOMAIN pending[s] : ChangeOf(pending[s][k].op) \in delivered[s]

PendingKept ==
  /\ pc \in Replaying => \A k \in DOMAIN pending[source] \ (todo \cup batch) :
                           ChangeOf(pending[source][k].op) \in delivered[source]
  /\ pc \in Replaying /\ source = Remote => QueueDelivered(Local)
  /\ pc \in Detecting => QueueDelivered(Local) /\ QueueDelivered(Remote)
  /\ pc \in Executing \cup Stamping => \A s \in Side : \A k \in DOMAIN pending[s] :
       ChangeOf(pending[s][k].op) \in delivered[s] \cup Planned(s)

WorkInv ==
  /\ CursorInv /\ CompletedInv /\ Bounds /\ Locks
  /\ FoundInv /\ PlanAhead /\ PlanCovers /\ FailHasPlan /\ TablesDone /\ PendingKept

\* How a cycle moves from phase to phase once the replay is over.
LEMMA PhaseSteps ==
  ASSUME Shape, PlanAhead, [Next]_vars, pc' \in Detecting \cup Executing \cup Stamping
  PROVE  \/ pc = "replay" /\ pc' = "detectLocal" /\ table' = 1 /\ source = Remote
            /\ todo = {} /\ batch = {}
         \/ DetectRemote /\ NextTable /\ \E now \in {0, 1} : found \cup Detected(Remote, table, now) = {}
         \/ StampRemote
         \/ DetectLocal
         \/ DetectRemote /\ \E now \in {0, 1} : Resolve(Detected(Remote, table, now))
         \/ pc' = pc /\ UNCHANGED <<table, found, plan>>
         \/ pc \in Executing /\ pc' \in Executing \cup {"stampLocal"} /\ UNCHANGED <<table, plan>>
         \/ StampLocal
<1> USE DEF Detecting, Executing, Stamping
<1>1. CASE UserStep
  BY <1>1 DEF UserStep, UserWrite, cycle
<1>2. ASSUME NEW i \in todo, ApplyOperation(i)
      PROVE  \/ pc' = pc /\ UNCHANGED <<table, found, plan>>
  <2>1. pc' = pc /\ pc = "apply" /\ UNCHANGED <<found, plan, source>>
    BY <1>2 DEF ApplyOperation
  <2>2. source \in Side /\ i \in DOMAIN plan[source] /\ Operation(i) = plan[source][i]
    BY <1>2, <2>1 DEF Shape, TypeOK, CycleTypeOK, Operation
  <2>3. table' = TableOf[Operation(i).record]
    BY <1>2 DEF ApplyOperation
  <2>4. Ahead(source, table, plan[source][i])
    BY <2>1, <2>2 DEF PlanAhead
  <2> QED
    BY <2>1, <2>2, <2>3, <2>4 DEF Ahead
<1>3. CASE CycleStep
  <2>1. CASE StartCycle \/ NextDirection
    BY <2>1 DEF StartCycle, NextDirection
  <2>2. CASE NextReplay
    BY <2>2 DEF NextReplay, Shape, TypeOK, CycleTypeOK
  <2>3. CASE \E i \in todo : DuplicateKey(i)
    BY <2>3 DEF DuplicateKey, BatchRaises, DirectionRaises, EndCycle
  <2>4. CASE CommitBatch
    BY <2>4 DEF CommitBatch
  <2>5. CASE DetectRemote
    BY <2>5 DEF DetectRemote
  <2>6. CASE MarkFailure \/ (\E i \in batch : MarkCompleted(i)) \/ (\E i \in todo : QueueOperation(i))
    BY <2>6 DEF MarkFailure, MarkCompleted, QueueOperation
  <2>7. CASE RaiseProcessingError
    BY <2>7 DEF RaiseProcessingError, RetryOrRaise, Attempt, EndCycle
  <2> QED
    BY <1>2, <1>3, <2>1, <2>2, <2>3, <2>5, <2>4, <2>6, <2>7 DEF CycleStep
<1>4. CASE FaultStep
  <2>1. pc' \notin {"idle"}
    OBVIOUS
  <2>2. CASE BatchFails \/ CommitUnacknowledged
    BY <2>1, <2>2 DEF BatchFails, CommitUnacknowledged, BatchRaises, DirectionRaises, EndCycle
  <2>3. CASE HandlerFails
    BY <2>1, <2>3 DEF HandlerFails, RetryOrRaise, Attempt, EndCycle
  <2> QED
    BY <1>4, <2>1, <2>2, <2>3 DEF FaultStep, PreconditionFails, StatementFails, Crash, EndCycle
<1>5. CASE UNCHANGED vars
  BY <1>5 DEF vars, cycle
<1> QED
  BY <1>1, <1>3, <1>4, <1>5 DEF Next

-----------------------------------------------------------------------------
(***************************************************************************)
(* What a step does to a change that is ahead of its cursor.               *)
(***************************************************************************)

\* A stamp moves the cursor of its side for the table at work; no other step moves
\* a cursor.
LEMMA CursorMoves ==
  ASSUME Shape, [Next]_vars, NEW s \in Side, NEW t \in Tables
  PROVE  \/ control'[s][t].version = control[s][t].version
         \/ /\ t = table /\ pc \in Stamping /\ control'[s][t].version = version[s]
            /\ (s = Local /\ StampLocal) \/ (s = Remote /\ StampRemote)
<1>1. control \in [Side -> [Tables -> ControlRow]]
  BY DEF Shape, TypeOK, StoreTypeOK
<1>2. CASE pc \notin Stamping
  BY <1>2, CursorSteps
<1>3. ASSUME NEW u \in Side, Stamp(u)
      PROVE  /\ s = u /\ t = table => control'[s][t].version = version[s]
             /\ ~(s = u /\ t = table) => control'[s][t].version = control[s][t].version
  BY <1>1, <1>3 DEF Stamp
<1>4. CASE StampLocal
  BY <1>3, <1>4 DEF StampLocal, Stamping
<1>5. CASE StampRemote
  BY <1>3, <1>5 DEF StampRemote, Stamping
<1>6. CASE pc \in Stamping /\ ~StampLocal /\ ~StampRemote
  <2>1. UNCHANGED control
    <3>1. CASE UserStep
      BY <3>1 DEF UserStep, UserWrite
    <3>2. CASE CycleStep
      BY <1>6, <3>2 DEF CycleStep, StartCycle, NextReplay, ApplyOperation, DuplicateKey,
         CommitBatch, Commit, MarkCompleted, DetectLocal, DetectRemote, NextDirection,
         MarkFailure, QueueOperation, RaiseProcessingError, Stamping
    <3>3. CASE FaultStep
      BY <3>3 DEF FaultStep, PreconditionFails, StatementFails, BatchFails, HandlerFails,
                  Crash, CommitUnacknowledged, Commit
    <3>4. CASE UNCHANGED vars
      BY <3>4 DEF vars
    <3> QED
      BY <3>1, <3>2, <3>3, <3>4 DEF Next
  <2> QED
    BY <2>1
<1> QED
  BY <1>2, <1>4, <1>5, <1>6

\* A change ahead of its cursor after a step was so before the step, or was just made
\* by a user, or is the service's own.
LEMMA VisibleSteps ==
  ASSUME CursorInv, Bounds, [Next]_vars, NEW s \in Side, NEW r \in Record, Visible(s, r)'
  PROVE  \/ WrittenSince(s, r)'
         \/ Visible(s, r) /\ changed'[s][r] = changed[s][r] /\ edited'[s][r] = edited[s][r]
         \/ /\ pc \in {"replay", "apply"} /\ s = Target /\ r \in touched
            /\ <<r, changed'[s][r]>> \in waived'[s]
<1>1. Shape /\ CursorsBounded
  BY DEF CursorInv
<1>2. TableOf[r] \in Tables
  BY ConfigAssumption DEF ConfigAssumption
<1>3. /\ control[s][TableOf[r]].version \in Nat /\ version[s] \in Nat /\ clock \in Nat
      /\ changed[s][r] \in Nat /\ seen[s][TableOf[r]] \in Nat
  BY <1>1, <1>2 DEF Shape, TypeOK, StoreTypeOK, ControlRow
<1>4. /\ control[s][TableOf[r]].version <= version[s] /\ changed[s][r] <= version[s]
      /\ seen[s][TableOf[r]] <= clock
  BY <1>1, <1>2 DEF CursorsBounded, Bounds
<1>5. changed'[s][r] > control'[s][TableOf[r]].version
  BY DEF Visible, Cursor
<1>6. CASE edited'[s][r] = clock + 1 /\ clock' = clock + 1 /\ UNCHANGED <<seen, cycle>>
  BY <1>3, <1>4, <1>6 DEF WrittenSince
<1>7. CASE changed'[s][r] = changed[s][r] /\ edited'[s][r] = edited[s][r]
  <2>1. control[s][TableOf[r]].version <= control'[s][TableOf[r]].version
    BY <1>1, <1>2, <1>3, <1>4, CursorMoves
  <2>2. control'[s][TableOf[r]].version \in Nat
    BY <1>1, <1>2, <1>3, CursorMoves
  <2> QED
    BY <1>3, <1>5, <1>7, <2>1, <2>2 DEF Visible, Cursor
<1> QED
  BY <1>1, <1>6, <1>7, Tracks DEF Tracked

\* What covers the changes of a table still covers them after a step that does not
\* read it.
LEMMA CoveredKept ==
  ASSUME CursorInv, Bounds, [Next]_vars, NEW s \in Side, NEW r \in Record, NEW S,
         seen'[s][TableOf[r]] = seen[s][TableOf[r]],
         Visible(s, r) => WrittenSince(s, r) \/ <<r, changed[s][r]>> \in waived[s] \cup S,
         Visible(s, r)'
  PROVE  WrittenSince(s, r)' \/ <<r, changed'[s][r]>> \in waived'[s] \cup S
<1>1. waived[s] \subseteq waived'[s]
  BY Tracks DEF CursorInv
<1>2. CASE Visible(s, r) /\ changed'[s][r] = changed[s][r] /\ edited'[s][r] = edited[s][r]
  BY <1>1, <1>2 DEF WrittenSince
<1> QED
  BY <1>2, VisibleSteps

\* Nothing but what users wrote is ahead of the cursor of a table that is done, and no
\* step but reading it again changes that.
LEMMA DoneKept ==
  ASSUME CursorInv, Bounds, [Next]_vars, NEW s \in Side, NEW r \in Record,
         seen'[s][TableOf[r]] = seen[s][TableOf[r]],
         Visible(s, r) => WrittenSince(s, r),
         ~(pc \in {"replay", "apply"} /\ r \in touched),
         Visible(s, r)'
  PROVE  WrittenSince(s, r)'
<1>1. CASE Visible(s, r) /\ changed'[s][r] = changed[s][r] /\ edited'[s][r] = edited[s][r]
  BY <1>1 DEF WrittenSince
<1> QED
  BY <1>1, VisibleSteps

\* An operation ahead of the cursor stays there until a stamp.
LEMMA AheadKept ==
  ASSUME Shape, Bounds, [Next]_vars, pc \notin Stamping,
         NEW s \in Side, NEW t, NEW op, Ahead(s, t, op)
  PROVE  /\ op.record \in Record /\ TableOf[op.record] = t /\ op.version \in Nat
         /\ op.version > control'[s][TableOf[op.record]].version
         /\ op.version <= changed'[s][op.record]
<1>1. op.record \in Record /\ op.version \in Nat /\ TableOf[op.record] \in Tables
  BY ConfigAssumption DEF Ahead, ConfigAssumption
<1>2. control'[s][TableOf[op.record]].version = control[s][TableOf[op.record]].version
  BY <1>1, CursorMoves
<1>3. /\ changed[s][op.record] \in Nat /\ changed[s][op.record] <= changed'[s][op.record]
      /\ changed'[s][op.record] \in Nat
  BY <1>1, Tracks, ShapeStep DEF Shape, TypeOK, StoreTypeOK
<1> QED
  BY <1>1, <1>2, <1>3 DEF Ahead, Cursor

-----------------------------------------------------------------------------
(***************************************************************************)
(* Every step keeps the invariant.                                         *)
(***************************************************************************)

\* Tables are read by the detection only.
LEMMA SeenKept ==
  ASSUME Shape, [Next]_vars, NEW s \in Side, NEW r \in Record,
         TableOf[r] # table \/ (~DetectLocal /\ ~DetectRemote)
  PROVE  seen'[s][TableOf[r]] = seen[s][TableOf[r]]
BY SeenSteps, ConfigAssumption DEF ConfigAssumption

\* What the local detection found stays true until the remote one.
LEMMA FoundStep == WorkInv /\ [Next]_vars => FoundInv'
<1> SUFFICES ASSUME WorkInv, [Next]_vars, pc' = "detectRemote" PROVE FoundInv'
  BY DEF FoundInv
<1>1. CursorInv /\ Shape /\ Bounds /\ PlanAhead
  BY DEF WorkInv, CursorInv
<1>2. CASE DetectLocal
  <2>1. table \in Tables /\ StoreTypeOK /\ Local \in Side
    BY <1>1, <1>2 DEF DetectLocal, Shape, TypeOK, Phase, Replaying
  <2>2. /\ found' = Detected(Local, table, 0) /\ UNCHANGED <<table, changed, edited>>
    BY <1>2 DEF DetectLocal, database
  <2>3. \A t \in Tables : control'[Local][t].version = control[Local][t].version
    BY <1>1, <1>2, <2>1, CursorMoves DEF DetectLocal, Stamping
  <2>4. \A r \in Record : /\ TableOf[r] \in Tables /\ Cursor(Local, r)' = Cursor(Local, r)
                          /\ Visible(Local, r)' <=> Visible(Local, r)
    BY <2>2, <2>3, ConfigAssumption DEF ConfigAssumption, Cursor, Visible
  <2>5. /\ OnePerRecord(found')
        /\ \A o \in found' : Ahead(Local, table, o)
        /\ \A r \in Record : TableOf[r] = table /\ Visible(Local, r) =>
             \E o \in found' : ChangeOf(o) = <<r, changed[Local][r]>>
    BY <2>1, <2>2, DetectedIsAhead
  <2>6. ASSUME NEW o \in found' PROVE Ahead(Local, table, o)'
    <3>1. Ahead(Local, table, o)
      BY <2>5
    <3> QED
      BY <2>2, <2>4, <3>1 DEF Ahead
  <2>7. OnePerRecord(found)'
    BY <2>5 DEF OnePerRecord
  <2>8. ASSUME NEW r \in Record, TableOf[r] = table', Visible(Local, r)'
        PROVE  \E o \in found' : ChangeOf(o) = <<r, changed'[Local][r]>>
    BY <2>2, <2>4, <2>5, <2>8
  <2> QED
    BY <2>6, <2>7, <2>8 DEF FoundInv, ChangeOf
<1>3. CASE pc' = pc /\ UNCHANGED <<table, found>>
  <2>1. FoundInv /\ pc = "detectRemote" /\ ~DetectLocal /\ ~DetectRemote
    <3>1. ~DetectRemote
      BY <1>3 DEF DetectRemote, Resolve, NextTable, EndCycle
    <3> QED
      BY <1>3, <3>1 DEF WorkInv, DetectLocal
  <2>2. ASSUME NEW o \in found PROVE Ahead(Local, table, o)'
    BY <1>1, <1>3, <2>1, <2>2, AheadKept DEF FoundInv, Stamping, Ahead, Cursor
  <2>3. ASSUME NEW r \in Record, TableOf[r] = table, Visible(Local, r)'
        PROVE  WrittenSince(Local, r)' \/ \E o \in found : ChangeOf(o) = <<r, changed'[Local][r]>>
    <3>1. seen'[Local][TableOf[r]] = seen[Local][TableOf[r]]
      BY <1>1, <2>1, SeenKept
    <3>2. CASE Visible(Local, r) /\ changed'[Local][r] = changed[Local][r]
               /\ edited'[Local][r] = edited[Local][r]
      BY <2>1, <2>3, <3>1, <3>2 DEF FoundInv, WrittenSince
    <3> QED
      BY <1>1, <2>1, <2>3, <3>2, VisibleSteps
  <2> QED
    BY <1>3, <2>1, <2>2, <2>3 DEF FoundInv, OnePerRecord, Ahead, Cursor
<1> QED
  BY <1>1, <1>2, <1>3, PhaseSteps
     DEF Detecting, Executing, StampRemote, StampLocal, NextTable, EndCycle, Resolve

\* The operations of a plan are those resolve() was given.
LEMMA ResolvedPlan ==
  ASSUME Shape, FoundInv, DetectRemote, NEW now \in {0, 1},
         Resolve(Detected(Remote, table, now))
  PROVE  /\ \A s \in Side : \A i \in DOMAIN plan'[s] : Ahead(s, table, plan'[s][i])
         /\ \A s \in Side, r \in Record : TableOf[r] = table /\ Visible(s, r) =>
              \/ s = Local /\ WrittenSince(s, r)
              \/ <<r, changed[s][r]>> \in waived'[s] \cup Planned(s)'
<1> DEFINE theirs == Detected(Remote, table, now)
           out == LocalToRemote(found, theirs)
           in  == RemoteToLocal(found, theirs)
<1>1. table \in Tables /\ StoreTypeOK /\ pc = "detectRemote" /\ IsFiniteSet(found)
  BY DEF DetectRemote, Shape, TypeOK, Phase, Replaying
<1>2. /\ IsFiniteSet(theirs) /\ OnePerRecord(theirs)
      /\ \A o \in theirs : Ahead(Remote, table, o)
      /\ \A r \in Record : TableOf[r] = table /\ Visible(Remote, r) =>
           \E o \in theirs : ChangeOf(o) = <<r, changed[Remote][r]>>
  BY <1>1, DetectedType, DetectedIsAhead
<1>3. PICK l \in Listings(out, theirs), r \in Listings(in, found) :
        /\ plan' = [s \in Side |-> IF s = Local THEN l ELSE r]
        /\ waived' = [waived EXCEPT ![Local]  = @ \cup Lost(found, theirs, in),
                                   ![Remote] = @ \cup Lost(theirs, found, out)]
  BY DEF Resolve
<1> HIDE DEF theirs
<1>4. out \subseteq found /\ in \subseteq theirs
  BY DEF LocalToRemote, RemoteToLocal
<1>5. IsFiniteSet(out) /\ IsFiniteSet(in)
  BY <1>1, <1>2, <1>4, FS_Subset
<1>6. /\ \A o \in found \ out : ChangeOf(o) \in Lost(found, theirs, in)
      /\ \A o \in theirs \ in : ChangeOf(o) \in Lost(theirs, found, out)
  BY <1>1, <1>2, KeptOrLost DEF FoundInv
<1>7. /\ Lost(found, theirs, in) \subseteq waived'[Local]
      /\ Lost(theirs, found, out) \subseteq waived'[Remote]
  BY <1>1, <1>3 DEF StoreTypeOK, Local, Remote
<1> HIDE DEF out, in
<1>8. /\ \A i \in DOMAIN l : l[i] \in out
      /\ \A o \in out : \E i \in DOMAIN l : l[i] = o
      /\ \A i \in DOMAIN r : r[i] \in in
      /\ \A o \in in : \E i \in DOMAIN r : r[i] = o
  BY <1>5, ListingIsComplete
<1>9. plan'[Local] = l /\ plan'[Remote] = r
  BY <1>3 DEF Local, Remote
<1>10. \A s \in Side : \A i \in DOMAIN plan'[s] : Ahead(s, table, plan'[s][i])
  <2>1. \A i \in DOMAIN l : Ahead(Local, table, l[i])
    BY <1>1, <1>4, <1>8 DEF FoundInv
  <2>2. \A i \in DOMAIN r : Ahead(Remote, table, r[i])
    BY <1>2, <1>4, <1>8
  <2> QED
    BY <1>9, <2>1, <2>2
<1>11. /\ \A o \in found : ChangeOf(o) \in waived'[Local] \cup Planned(Local)'
       /\ \A o \in theirs : ChangeOf(o) \in waived'[Remote] \cup Planned(Remote)'
  <2>1. /\ \A o \in out : ChangeOf(o) \in Planned(Local)'
        /\ \A o \in in : ChangeOf(o) \in Planned(Remote)'
    BY <1>8, <1>9 DEF Planned, ChangeOf
  <2> QED
    BY <1>6, <1>7, <2>1
<1>12. ASSUME NEW s \in Side, NEW q \in Record, TableOf[q] = table, Visible(s, q)
       PROVE  \/ s = Local /\ WrittenSince(s, q)
              \/ <<q, changed[s][q]>> \in waived'[s] \cup Planned(s)'
  <2>1. CASE s = Local
    BY <1>1, <1>11, <1>12, <2>1 DEF FoundInv
  <2>2. CASE s = Remote
    BY <1>2, <1>11, <1>12, <2>2
  <2> QED
    BY <2>1, <2>2
<1> QED
  BY <1>10, <1>12

\* A resolved plan is ahead of the cursors, and stays so until the stamps.
LEMMA PlanAheadStep == WorkInv /\ [Next]_vars => PlanAhead'
<1> SUFFICES ASSUME WorkInv, [Next]_vars, pc' \in Executing PROVE PlanAhead'
  BY DEF PlanAhead
<1>1. CursorInv /\ Shape /\ Bounds /\ PlanAhead /\ FoundInv
  BY DEF WorkInv, CursorInv
<1>2. pc' # "detectLocal" /\ pc' # "detectRemote" /\ pc' \notin Stamping
  BY DEF Executing, Stamping
<1>3. ASSUME NEW s \in Side, NEW i \in DOMAIN plan'[s], pc \notin Stamping, UNCHANGED table,
             Ahead(s, table, plan'[s][i])
      PROVE  Ahead(s, table, plan[s][i])'
  <2> DEFINE op == plan'[s][i]
  <2>1. /\ op.record \in Record /\ TableOf[op.record] = table /\ op.version \in Nat
        /\ op.version > control'[s][TableOf[op.record]].version
        /\ op.version <= changed'[s][op.record]
    <3> HIDE DEF op
    <3>1. Ahead(s, table, op)
      BY <1>3 DEF op
    <3> QED
      BY <1>1, <1>3, <3>1, AheadKept
  <2> QED
    BY <1>3, <2>1 DEF Ahead, Cursor
<1>4. CASE DetectRemote /\ \E now \in {0, 1} : Resolve(Detected(Remote, table, now))
  <2>1. UNCHANGED table /\ pc \notin Stamping
    BY <1>4 DEF DetectRemote, Resolve, Stamping
  <2>2. \A s \in Side : \A i \in DOMAIN plan'[s] : Ahead(s, table, plan'[s][i])
    BY <1>1, <1>4, ResolvedPlan
  <2> QED
    BY <1>3, <2>1, <2>2 DEF PlanAhead
<1>5. CASE pc \in Executing /\ UNCHANGED <<table, plan>>
  <2>1. pc \notin Stamping
    BY <1>5 DEF Executing, Stamping
  <2>2. \A s \in Side : \A i \in DOMAIN plan'[s] : Ahead(s, table, plan'[s][i])
    BY <1>1, <1>5 DEF PlanAhead
  <2> QED
    BY <1>3, <1>5, <2>1, <2>2 DEF PlanAhead
<1> QED
  BY <1>1, <1>2, <1>4, <1>5, PhaseSteps
     DEF NextTable, EndCycle, StampRemote, StampLocal, DetectLocal, Executing

\* The plan, what conflicts dropped and what users wrote since cover what is ahead of
\* the cursors.
LEMMA PlanCoversStep == WorkInv /\ [Next]_vars => PlanCovers'
<1> SUFFICES ASSUME WorkInv, [Next]_vars, pc' \in Executing \cup Stamping,
                    NEW s \in Side, NEW r \in Record, TableOf[r] = table', Visible(s, r)'
             PROVE  WrittenSince(s, r)' \/ <<r, changed'[s][r]>> \in waived'[s] \cup Planned(s)'
  BY DEF PlanCovers
<1>1. CursorInv /\ Shape /\ Bounds /\ PlanAhead /\ FoundInv /\ PlanCovers
  BY DEF WorkInv, CursorInv
<1>2. CASE DetectRemote /\ \E now \in {0, 1} : Resolve(Detected(Remote, table, now))
  <2>1. /\ UNCHANGED <<table, changed, edited, control, clock>> /\ pc = "detectRemote"
        /\ table \in Tables /\ seen' = [seen EXCEPT ![Remote][table] = clock]
    BY <1>1, <1>2 DEF DetectRemote, Resolve, database, Shape, Phase, Replaying
  <2>2. Visible(s, r)
    BY <2>1 DEF Visible, Cursor
  <2>3. \/ s = Local /\ WrittenSince(s, r)
        \/ <<r, changed[s][r]>> \in waived'[s] \cup Planned(s)'
    BY <1>1, <1>2, <2>1, <2>2, ResolvedPlan
  <2>4. s = Local => seen'[s][TableOf[r]] = seen[s][TableOf[r]]
    BY <1>1, <2>1 DEF Shape, TypeOK, StoreTypeOK, Local, Remote
  <2> QED
    BY <2>1, <2>3, <2>4 DEF WrittenSince
<1>3. CASE pc \in Executing \cup Stamping /\ UNCHANGED <<table, plan>>
  <2>1. seen'[s][TableOf[r]] = seen[s][TableOf[r]]
    BY <1>1, <1>3, SeenKept DEF DetectLocal, DetectRemote, Executing, Stamping
  <2>2. Planned(s)' = Planned(s)
    BY <1>3 DEF Planned, ChangeOf
  <2>3. Visible(s, r) => WrittenSince(s, r) \/ <<r, changed[s][r]>> \in waived[s] \cup Planned(s)
    BY <1>1, <1>3 DEF PlanCovers
  <2> QED
    BY <1>1, <2>1, <2>2, <2>3, CoveredKept
<1> QED
  BY <1>1, <1>2, <1>3, PhaseSteps
     DEF NextTable, EndCycle, StampRemote, StampLocal, DetectLocal, Executing, Stamping

\* A direction that failed had operations to process.
LEMMA FailHasPlanStep == WorkInv /\ [Next]_vars => FailHasPlan'
<1> SUFFICES ASSUME WorkInv, [Next]_vars, pc' = "fail" PROVE FailHasPlan'
  BY DEF FailHasPlan
<1> DEFINE Keeps == /\ UNCHANGED <<plan, source>>
                    /\ pc = "fail" \/ (pc = "apply" /\ todo \cup batch # {})
<1>1. UserStep => Keeps
  BY DEF UserStep, UserWrite, cycle
<1>2. ASSUME CycleStep PROVE Keeps
  <2>1. CASE \E i \in todo : DuplicateKey(i)
    BY <2>1 DEF DuplicateKey, BatchRaises, DirectionRaises, EndCycle
  <2>2. CASE DetectRemote
    <3>1. ASSUME NEW theirs, Resolve(theirs) PROVE pc' = "apply"
      BY <3>1 DEF Resolve
    <3> QED
      BY <2>2, <3>1 DEF DetectRemote, NextTable, EndCycle
  <2> QED
    BY <1>2, <2>1, <2>2
       DEF CycleStep, StartCycle, NextReplay, ApplyOperation, CommitBatch, MarkCompleted,
           DetectLocal, NextDirection, MarkFailure, QueueOperation, RaiseProcessingError,
           RetryOrRaise, Attempt, EndCycle, StampLocal, StampRemote, NextTable
<1>3. ASSUME FaultStep PROVE Keeps
  <2>1. CASE BatchFails \/ CommitUnacknowledged
    BY <2>1 DEF BatchFails, CommitUnacknowledged, Commit, BatchFull, BatchRaises,
                DirectionRaises, EndCycle
  <2> QED
    BY <1>3, <2>1 DEF FaultStep, PreconditionFails, StatementFails, HandlerFails, Crash,
                      RetryOrRaise, Attempt, EndCycle
<1>4. UNCHANGED vars => Keeps
  BY DEF vars, cycle
<1>5. Keeps
  BY <1>1, <1>2, <1>3, <1>4 DEF Next
<1>6. CASE pc = "fail"
  BY <1>5, <1>6 DEF WorkInv, FailHasPlan
<1>7. CASE pc = "apply" /\ todo \cup batch # {}
  <2>1. todo \cup batch \subseteq DOMAIN plan[source]
    BY <1>7 DEF WorkInv, CursorInv, Shape, Executing
  <2> QED
    BY <1>5, <1>7, <2>1 DEF FailHasPlan
<1> QED
  BY <1>5, <1>6, <1>7

\* When the loop leaves a table, with nothing found or with both cursors stamped, only
\* what users wrote since is ahead of the cursors.
LEMMA TableIsDone ==
  ASSUME WorkInv, [Next]_vars, NEW s \in Side, NEW r \in Record,
         TableOf[r] = table, Visible(s, r)',
         \/ StampRemote
         \/ DetectRemote /\ UNCHANGED waived
            /\ \E now \in {0, 1} : found \cup Detected(Remote, table, now) = {}
  PROVE  WrittenSince(s, r)'
<1>1. CursorInv /\ Shape /\ Bounds /\ FoundInv /\ TablesDone /\ table \in Tables
  <2>1. CursorInv /\ Shape /\ Bounds /\ FoundInv /\ TablesDone
    BY DEF WorkInv, CursorInv
  <2>2. pc \in {"stampRemote", "detectRemote"}
    BY DEF StampRemote, DetectRemote
  <2> QED
    BY <2>1, <2>2 DEF Shape, Phase, Replaying
<1>2. CASE StampRemote
  <2>1. UNCHANGED <<changed, edited, seen>> /\ pc = "stampRemote" /\ Stamp(Remote)
    BY <1>2 DEF StampRemote, database, history
  <2>2. CASE s = Remote
    <3>1. control'[s][table].version = version[s]
      BY <1>1, <2>1, <2>2 DEF Stamp, Shape, TypeOK, StoreTypeOK
    <3>2. changed[s][r] <= version[s] /\ changed[s][r] \in Nat /\ version[s] \in Nat
      BY <1>1 DEF Bounds, Shape, TypeOK, StoreTypeOK
    <3> QED
      BY <2>1, <3>1, <3>2 DEF Visible, Cursor
  <2>3. CASE s = Local
    <3>1. control'[s] = control[s]
      BY <1>1, <2>1, <2>3 DEF Stamp, Shape, TypeOK, StoreTypeOK, Local, Remote
    <3>2. Visible(Local, r)
      BY <2>1, <2>3, <3>1 DEF Visible, Cursor
    <3> QED
      BY <1>1, <2>1, <2>3, <3>2 DEF TablesDone, WrittenSince
  <2> QED
    BY <2>2, <2>3
<1>3. CASE /\ DetectRemote
           /\ \E now \in {0, 1} : found \cup Detected(Remote, table, now) = {}
  <2>1. PICK now \in {0, 1} : found \cup Detected(Remote, table, now) = {}
    BY <1>3
  <2>2. UNCHANGED <<changed, edited, control>> /\ pc = "detectRemote"
    BY <1>3 DEF DetectRemote, database
  <2>3. Visible(s, r)
    BY <2>2 DEF Visible, Cursor
  <2>4. s # Remote
    BY <1>1, <2>1, <2>3, DetectedIsAhead DEF Shape, TypeOK
  <2>5. s = Local /\ WrittenSince(Local, r)
    BY <1>1, <2>1, <2>2, <2>3, <2>4 DEF FoundInv
  <2>6. seen'[s][TableOf[r]] = seen[s][TableOf[r]]
    BY <1>1, <1>3, <2>5 DEF DetectRemote, Shape, TypeOK, StoreTypeOK, Local, Remote
  <2> QED
    BY <2>2, <2>5, <2>6 DEF WrittenSince
<1> QED
  BY <1>2, <1>3

\* In the tables before the one at work, too, and while the cycle ends.
LEMMA EarlierTablesAreDone ==
  ASSUME WorkInv, [Next]_vars, pc \in Detecting \cup Executing \cup Stamping,
         NEW s \in Side, NEW r \in Record, TableOf[r] < table, Visible(s, r)'
  PROVE  WrittenSince(s, r)'
<1>1. CursorInv /\ Shape /\ Bounds /\ Locks /\ TablesDone
  BY DEF WorkInv, CursorInv
<1>2. TableOf[r] # table
  BY <1>1, ConfigAssumption DEF ConfigAssumption, Tables
<1>3. seen'[s][TableOf[r]] = seen[s][TableOf[r]]
  BY <1>1, <1>2, SeenKept
<1>4. ~(pc \in {"replay", "apply"} /\ r \in touched)
  BY <1>1, <1>2 DEF Locks, Detecting, Executing, Stamping
<1> QED
  BY <1>1, <1>3, <1>4, DoneKept DEF TablesDone

\* Tables stay done until the next cycle.
LEMMA TablesDoneStep == WorkInv /\ [Next]_vars => TablesDone'
<1> SUFFICES ASSUME WorkInv, [Next]_vars PROVE TablesDone'
  OBVIOUS
<1>1. CursorInv /\ Shape /\ Bounds /\ TablesDone /\ PlanAhead
  BY DEF WorkInv, CursorInv
<1>2. ASSUME NEW s \in Side, NEW r \in Record, Visible(s, r)',
             pc' \in Detecting \cup Executing \cup Stamping, TableOf[r] < table'
      PROVE  WrittenSince(s, r)'
  <2>1. TableOf[r] \in Nat /\ TableOf[r] >= 1 /\ table \in Nat
    BY <1>1, ConfigAssumption DEF ConfigAssumption, Tables, Shape, TypeOK, CycleTypeOK
  <2>2. CASE UNCHANGED table /\ pc \in Detecting \cup Executing \cup Stamping
    BY <1>2, <2>2, EarlierTablesAreDone
  <2>3. CASE /\ table' = table + 1 /\ pc \in Detecting \cup Executing \cup Stamping
             /\ \/ StampRemote
                \/ DetectRemote /\ UNCHANGED waived
                   /\ \E now \in {0, 1} : found \cup Detected(Remote, table, now) = {}
    <3>1. CASE TableOf[r] = table
      BY <1>2, <2>3, <3>1, TableIsDone
    <3>2. CASE TableOf[r] < table
      BY <1>2, <2>3, <3>2, EarlierTablesAreDone
    <3> QED
      BY <1>2, <2>1, <2>3, <3>1, <3>2
  <2>4. CASE StampRemote
    <3>1. table' = table + 1 /\ pc = "stampRemote"
      BY <1>2, <2>4 DEF StampRemote, NextTable, EndCycle, Detecting, Executing, Stamping
    <3> QED
      BY <2>3, <2>4, <3>1 DEF Stamping
  <2>5. CASE DetectRemote /\ NextTable
             /\ \E now \in {0, 1} : found \cup Detected(Remote, table, now) = {}
    <3>1. table' = table + 1 /\ pc = "detectRemote" /\ pc' = "detectLocal"
      BY <1>2, <2>5 DEF DetectRemote, NextTable, EndCycle, Detecting, Executing, Stamping
    <3>2. UNCHANGED waived
      BY <2>5, <3>1 DEF DetectRemote, Resolve
    <3> QED
      BY <2>3, <2>5, <3>1, <3>2 DEF Detecting
  <2> QED
    BY <1>1, <1>2, <2>1, <2>2, <2>4, <2>5, PhaseSteps
       DEF DetectLocal, DetectRemote, Resolve, StampLocal, Detecting, Executing, Stamping
<1>3. ASSUME NEW r \in Record, pc' = "stampRemote", TableOf[r] = table', Visible(Local, r)'
      PROVE  WrittenSince(Local, r)'
  <2>1. CASE StampLocal
    <3>1. control'[Local][table].version = version[Local]
      BY <1>1, <2>1 DEF StampLocal, Stamp, Shape, TypeOK, StoreTypeOK, Phase, Replaying
    <3>2. /\ changed[Local][r] <= version[Local] /\ changed[Local][r] \in Nat
          /\ version[Local] \in Nat
      BY <1>1 DEF Bounds, Shape, TypeOK, StoreTypeOK
    <3>3. UNCHANGED <<changed, table>>
      BY <2>1 DEF StampLocal, database
    <3> QED
      BY <1>3, <3>1, <3>2, <3>3 DEF Visible, Cursor
  <2>2. CASE pc = "stampRemote" /\ UNCHANGED table
    <3>1. seen'[Local][TableOf[r]] = seen[Local][TableOf[r]]
      BY <1>1, <2>2, SeenKept DEF DetectLocal, DetectRemote
    <3>2. Visible(Local, r) => WrittenSince(Local, r)
      BY <1>1, <1>3, <2>2 DEF TablesDone
    <3> QED
      BY <1>1, <1>3, <2>2, <3>1, <3>2, DoneKept
  <2> QED
    BY <1>1, <1>3, <2>1, <2>2, PhaseSteps
       DEF DetectLocal, DetectRemote, Resolve, NextTable, EndCycle, StampRemote, Stamping, Executing
<1> QED
  BY <1>2, <1>3 DEF TablesDone

\* The table of pending operations only grows, by operations of the plan at work.
LEMMA PendingSteps ==
  ASSUME Shape, [Next]_vars, NEW s \in Side, NEW k \in DOMAIN pending'[s]
  PROVE  \/ k \in DOMAIN pending[s] /\ pending'[s][k].op = pending[s][k].op
         \/ /\ pc = "queue" /\ pc' = "queue" /\ s = source
            /\ \E i \in DOMAIN plan[s] :
                 /\ pending'[s][k].op.record = plan[s][i].record
                 /\ pending'[s][k].op.version = plan[s][i].version
                 /\ pending'[s][k].op.type = plan[s][i].type
                 /\ pending'[s][k].op.data = plan[s][i].data
<1> DEFINE q == pending[source]
<1>1. /\ source \in Side /\ pending \in [Side -> Seq(PendingRow)] /\ q \in Seq(PendingRow)
      /\ plan[source] \in Seq(SyncOperation)
  BY DEF Shape, TypeOK, StoreTypeOK, CycleTypeOK
<1>2. ASSUME NEW i \in batch, MarkCompleted(i)
      PROVE  k \in DOMAIN pending[s] /\ pending'[s][k].op = pending[s][k].op
  <2> DEFINE op == Operation(i)
             g == [n \in DOMAIN q |->
                    IF q[n].op.record = op.record /\ q[n].op.version = op.version
                    THEN [q[n] EXCEPT !.status = "COMPLETED"] ELSE q[n]]
  <2>1. pending' = [pending EXCEPT ![source] = g]
    BY <1>2 DEF MarkCompleted
  <2>2. \A n \in DOMAIN q : q[n] \in PendingRow
    BY <1>1, LenProperties, ElementOfSeq
  <2>3. \A n \in DOMAIN q : g[n].op = q[n].op
    BY <2>2 DEF PendingRow
  <2>4. DOMAIN g = DOMAIN q
    OBVIOUS
  <2> HIDE DEF g
  <2> QED
    BY <1>1, <2>1, <2>3, <2>4
<1>3. ASSUME NEW i \in todo, QueueOperation(i)
      PROVE  \/ k \in DOMAIN pending[s] /\ pending'[s][k].op = pending[s][k].op
             \/ /\ pc = "queue" /\ pc' = "queue" /\ s = source
                /\ \E j \in DOMAIN plan[s] :
                     /\ pending'[s][k].op.record = plan[s][j].record
                     /\ pending'[s][k].op.version = plan[s][j].version
                     /\ pending'[s][k].op.type = plan[s][j].type
                     /\ pending'[s][k].op.data = plan[s][j].data
  <2> DEFINE row == [op |-> [Operation(i) EXCEPT !.timestamp = 0], status |-> "PENDING"]
  <2>1. /\ pending' = [pending EXCEPT ![source] = Append(q, row)]
        /\ pc = "queue" /\ pc' = "queue"
    BY <1>3 DEF QueueOperation
  <2>2. i \in DOMAIN plan[source] /\ Operation(i) = plan[source][i]
    BY <1>3, <2>1 DEF Shape, Executing, Operation
  <2>3. plan[source][i] \in SyncOperation
    BY <1>1, <2>2, LenProperties, ElementOfSeq
  <2>4. /\ row.op.record = plan[source][i].record /\ row.op.version = plan[source][i].version
        /\ row.op.type = plan[source][i].type /\ row.op.data = plan[source][i].data
    BY <2>2, <2>3 DEF SyncOperation
  <2> HIDE DEF row
  <2>5. \A n \in DOMAIN Append(q, row) :
          \/ Append(q, row)[n] = row
          \/ n \in DOMAIN q /\ Append(q, row)[n] = q[n]
    BY <1>1, LenProperties
  <2>6. CASE s = source
    <3>1. pending'[s] = Append(q, row)
      BY <1>1, <2>1, <2>6
    <3> QED
      BY <2>1, <2>2, <2>4, <2>5, <2>6, <3>1
  <2>7. CASE s # source
    BY <1>1, <2>1, <2>7
  <2> QED
    BY <2>6, <2>7
<1>4. CASE UNCHANGED pending
  BY <1>4
<1>5. CASE CommitBatch \/ CommitUnacknowledged
  BY <1>4, <1>5, CommitDelivers DEF CommitBatch, CommitUnacknowledged
<1> QED
  BY <1>2, <1>3, <1>4, <1>5, OtherSteps

\* The replay of a side takes its pending operations once, and drops from its lists only
\* what it marks.
LEMMA ReplaySteps ==
  ASSUME Shape, [Next]_vars, pc' \in Replaying
  PROVE  \/ StartCycle
         \/ NextReplay /\ source = Local /\ todo = {} /\ batch = {}
         \/ /\ pc \in Replaying /\ UNCHANGED source
            /\ \/ todo' \cup batch' = todo \cup batch
               \/ /\ pc = "mark" /\ UNCHANGED todo
                  /\ \E i \in batch : batch' = batch \ {i}
<1> USE DEF Replaying
<1>1. CASE UserStep
  BY <1>1 DEF UserStep, UserWrite, cycle
<1>2. CASE CycleStep
  <2>1. CASE NextReplay
    BY <2>1 DEF NextReplay
  <2>2. CASE \E i \in todo : ApplyOperation(i)
    BY <2>2 DEF ApplyOperation
  <2>3. CASE CommitBatch
    BY <2>3 DEF CommitBatch
  <2>4. CASE \E i \in batch : MarkCompleted(i)
    BY <2>4 DEF MarkCompleted
  <2>5. CASE \E i \in todo : DuplicateKey(i)
    BY <2>5 DEF DuplicateKey, BatchRaises, DirectionRaises, EndCycle
  <2>6. CASE DetectRemote
    <3>1. ASSUME NEW theirs, Resolve(theirs) PROVE pc' = "apply"
      BY <3>1 DEF Resolve
    <3> QED
      BY <2>6, <3>1 DEF DetectRemote, NextTable, EndCycle
  <2> QED
    BY <1>2, <2>1, <2>2, <2>3, <2>4, <2>5, <2>6
       DEF CycleStep, DetectLocal, NextDirection, MarkFailure, QueueOperation,
           RaiseProcessingError, RetryOrRaise, Attempt, EndCycle, StampLocal, StampRemote,
           NextTable
<1>3. CASE FaultStep
  <2>1. CASE PreconditionFails
    BY <2>1 DEF PreconditionFails
  <2> QED
    BY <1>3, <2>1 DEF FaultStep, StatementFails, BatchFails, HandlerFails, Crash,
         CommitUnacknowledged, BatchRaises, DirectionRaises, RetryOrRaise, Attempt, EndCycle
<1>4. CASE UNCHANGED vars
  BY <1>4 DEF vars, cycle
<1> QED
  BY <1>1, <1>2, <1>3, <1>4 DEF Next

\* A step other than queueing leaves what is delivered of a queue delivered.
LEMMA PendingDelivered ==
  ASSUME Shape, [Next]_vars, pc # "queue" \/ pc' # "queue",
         NEW s \in Side, NEW k \in DOMAIN pending'[s]
  PROVE  /\ k \in DOMAIN pending[s]
         /\ ChangeOf(pending'[s][k].op) = ChangeOf(pending[s][k].op)
         /\ ChangeOf(pending[s][k].op) \in delivered[s] =>
              ChangeOf(pending'[s][k].op) \in delivered'[s]
<1>1. k \in DOMAIN pending[s] /\ pending'[s][k].op = pending[s][k].op
  BY PendingSteps
<1>2. delivered[s] \subseteq delivered'[s]
  BY DeliveredGrows
<1> QED
  BY <1>1, <1>2 DEF ChangeOf

\* Replayed operations were delivered, and what fails later in the cycle was planned.
LEMMA PendingKeptStep == WorkInv /\ [Next]_vars => PendingKept'
<1> SUFFICES ASSUME WorkInv, [Next]_vars PROVE PendingKept'
  OBVIOUS
<1>1. CursorInv /\ Shape /\ Progress /\ CompletedInv /\ PendingKept /\ PlanAhead /\ source \in Side
  BY DEF WorkInv, CursorInv, Shape, TypeOK, CycleTypeOK
<1>2. ASSUME NEW s \in Side, NEW k \in DOMAIN pending'[s], pc # "queue",
             ChangeOf(pending[s][k].op) \in delivered[s]
      PROVE  ChangeOf(pending'[s][k].op) \in delivered'[s]
  BY <1>1, <1>2, PendingDelivered
<1>3. ASSUME NEW s \in Side, pc # "queue", QueueDelivered(s)
      PROVE  QueueDelivered(s)'
  <2>1. ASSUME NEW k \in DOMAIN pending'[s]
        PROVE  ChangeOf(pending'[s][k].op) \in delivered'[s]
    BY <1>1, <1>3, <2>1, PendingDelivered DEF QueueDelivered
  <2> QED
    BY <2>1 DEF QueueDelivered, ChangeOf
<1>4. ASSUME pc' \in Replaying
      PROVE  /\ \A k \in DOMAIN pending'[source'] \ (todo' \cup batch') :
                  ChangeOf(pending'[source'][k].op) \in delivered'[source']
             /\ source' = Remote => QueueDelivered(Local)'
  <2>1. ASSUME NEW s \in Side, todo' = PendingIds(s), source' = s, pc \in {"idle", "replay"},
               NEW k \in DOMAIN pending'[s] \ todo'
        PROVE  ChangeOf(pending'[s][k].op) \in delivered'[s]
    <3>1. k \in DOMAIN pending[s]
      BY <1>1, <2>1, PendingDelivered
    <3>2. pending[s][k] \in PendingRow
      BY <1>1, <3>1, LenProperties, ElementOfSeq DEF Shape, TypeOK, StoreTypeOK
    <3>3. pending[s][k].status = "COMPLETED"
      BY <2>1, <3>1, <3>2 DEF PendingIds, PendingRow
    <3> QED
      BY <1>1, <1>2, <2>1, <3>1, <3>3 DEF CompletedInv, CompletedIsDelivered
  <2>2. CASE StartCycle
    <3>1. pc = "idle" /\ source' = Local /\ todo' = PendingIds(Local)
      BY <2>2 DEF StartCycle
    <3> QED
      BY <2>1, <3>1 DEF Local, Remote
  <2>3. CASE NextReplay /\ source = Local /\ todo = {} /\ batch = {}
    <3>1. pc = "replay" /\ source' = Remote /\ todo' = PendingIds(Remote)
      BY <2>3 DEF NextReplay
    <3>2. QueueDelivered(Local)
      BY <1>1, <2>3, <3>1 DEF PendingKept, QueueDelivered, Replaying
    <3> QED
      BY <1>3, <2>1, <3>1, <3>2
  <2>4. CASE pc \in Replaying /\ UNCHANGED source /\ todo' \cup batch' = todo \cup batch
    BY <1>1, <1>2, <1>3, <2>4, PendingDelivered DEF PendingKept, Replaying
  <2>5. CASE pc = "mark" /\ UNCHANGED <<source, todo>> /\ \E i \in batch : batch' = batch \ {i}
    <3>1. PICK i \in batch : batch' = batch \ {i}
      BY <2>5
    <3>2. ChangeOf(pending[source][i].op) \in delivered[source]
      BY <1>1, <2>5 DEF CompletedInv, MarkedIsDelivered
    <3>3. ASSUME NEW k \in DOMAIN pending'[source] \ (todo' \cup batch')
          PROVE  ChangeOf(pending[source][k].op) \in delivered[source]
      <4>1. k = i \/ k \in DOMAIN pending[source] \ (todo \cup batch)
        BY <1>1, <2>5, <3>1, <3>3, PendingDelivered
      <4> QED
        BY <1>1, <2>5, <3>2, <4>1 DEF PendingKept, Replaying
    <3> QED
      BY <1>1, <1>2, <1>3, <2>5, <3>3 DEF PendingKept, Replaying
  <2> QED
    BY <1>1, <1>4, <2>2, <2>3, <2>4, <2>5, ReplaySteps
<1>5. ASSUME pc' \in Detecting
      PROVE  QueueDelivered(Local)' /\ QueueDelivered(Remote)'
  <2>1. pc # "queue" /\ QueueDelivered(Local) /\ QueueDelivered(Remote)
    <3>1. CASE pc = "replay" /\ source = Remote /\ todo = {} /\ batch = {}
      BY <1>1, <3>1 DEF PendingKept, QueueDelivered, Replaying
    <3>2. CASE StampRemote
      BY <1>1, <3>2 DEF StampRemote, PendingKept, QueueDelivered, Progress, PlanDelivered, Planned, Stamping
    <3>3. CASE pc \in Detecting
      BY <1>1, <3>3 DEF PendingKept, Detecting
    <3> QED
      BY <1>1, <1>5, <3>1, <3>2, <3>3, PhaseSteps
         DEF Detecting, Executing, DetectLocal, DetectRemote, StampLocal
  <2> QED
    BY <1>3, <2>1
<1>6. ASSUME pc' \in Executing \cup Stamping, NEW s \in Side, NEW k \in DOMAIN pending'[s]
      PROVE  ChangeOf(pending'[s][k].op) \in delivered'[s] \cup Planned(s)'
  <2>1. CASE /\ pc \in Executing \cup Stamping /\ UNCHANGED plan
    <3>1. Planned(s)' = Planned(s)
      BY <2>1 DEF Planned, ChangeOf
    <3>2. CASE k \in DOMAIN pending[s] /\ pending'[s][k].op = pending[s][k].op
      <4>1. ChangeOf(pending'[s][k].op) = ChangeOf(pending[s][k].op)
        BY <3>2 DEF ChangeOf
      <4>2. delivered[s] \subseteq delivered'[s]
        BY <1>1, DeliveredGrows
      <4> QED
        BY <1>1, <2>1, <3>1, <3>2, <4>1, <4>2 DEF PendingKept
    <3>3. CASE \E i \in DOMAIN plan[s] :
                 /\ pending'[s][k].op.record = plan[s][i].record
                 /\ pending'[s][k].op.version = plan[s][i].version
      <4>1. ChangeOf(pending'[s][k].op) \in Planned(s)
        BY <3>3 DEF Planned, ChangeOf
      <4> QED
        BY <3>1, <4>1
    <3> QED
      BY <1>1, <1>6, <3>2, <3>3, PendingSteps
  <2>2. CASE pc = "detectRemote"
    BY <1>1, <1>2, <1>6, <2>2, PendingDelivered DEF PendingKept, QueueDelivered, Detecting
  <2> QED
    BY <1>1, <1>6, <2>1, <2>2, PhaseSteps
       DEF DetectLocal, DetectRemote, StampLocal, StampRemote, NextTable, EndCycle, Executing, Stamping
<1> QED
  BY <1>4, <1>5, <1>6 DEF PendingKept, QueueDelivered, ChangeOf

\* The invariant is inductive.
LEMMA WorkStep == WorkInv /\ [Next]_vars => WorkInv'
<1> SUFFICES ASSUME WorkInv, [Next]_vars PROVE WorkInv'
  OBVIOUS
<1>1. CursorInv' /\ CompletedInv'
  BY CursorStep, CompletedStep DEF WorkInv
<1>2. Bounds' /\ Locks'
  BY BoundsStep, LocksStep DEF WorkInv, CursorInv
<1>3. FoundInv' /\ PlanAhead' /\ PlanCovers' /\ FailHasPlan' /\ TablesDone' /\ PendingKept'
  BY FoundStep, PlanAheadStep, PlanCoversStep, FailHasPlanStep, TablesDoneStep, PendingKeptStep
<1> QED
  BY <1>1, <1>2, <1>3 DEF WorkInv

\* It holds before the first cycle, with every clock at its start.
LEMMA InitWork == Init => WorkInv
<1> SUFFICES ASSUME Init PROVE WorkInv
  OBVIOUS
<1>1. CursorInv /\ CompletedInv
  BY InitCursor, InitCompleted
<1>2. Bounds /\ Locks
  BY ConfigAssumption DEF Init, Bounds, Locks, ConfigAssumption
<1>3. FoundInv /\ PlanAhead /\ PlanCovers /\ FailHasPlan /\ TablesDone /\ PendingKept
  BY DEF Init, FoundInv, PlanAhead, PlanCovers, FailHasPlan, TablesDone, PendingKept,
         Detecting, Executing, Stamping, Replaying
<1> QED
  BY <1>1, <1>2, <1>3 DEF WorkInv

-----------------------------------------------------------------------------
(***************************************************************************)
(* The properties.                                                         *)
(***************************************************************************)

\* In every instance, whatever fails and is retried, a cursor only jumps over changes
\* that were delivered, that lost a conflict, that are the service's own writes, or that
\* users made after the table was read.
THEOREM CursorSkipsNothing == Spec => CursorSkipsNothingDetected
<1> DEFINE Step ==
      \A s \in Side, r \in Record :
        Visible(s, r) /\ changed[s][r] <= Cursor(s, r)' =>
          Accounted(s, r) \/ edited[s][r] > seen[s][TableOf[r]]
<1>1. WorkInv /\ [Next]_vars => [Step]_vars
  <2> SUFFICES ASSUME WorkInv, [Next]_vars, NEW s \in Side, NEW r \in Record,
                      Visible(s, r), changed[s][r] <= Cursor(s, r)'
               PROVE  Accounted(s, r) \/ edited[s][r] > seen[s][TableOf[r]]
    OBVIOUS
  <2>1. Shape /\ Progress /\ PlanCovers
    BY DEF WorkInv, CursorInv
  <2>2. TableOf[r] \in Tables
    BY ConfigAssumption DEF ConfigAssumption
  <2>3. control[s][TableOf[r]].version \in Nat /\ changed[s][r] \in Nat
    BY <2>1, <2>2 DEF Shape, TypeOK, StoreTypeOK, ControlRow
  <2>4. control'[s][TableOf[r]].version # control[s][TableOf[r]].version
    BY <2>3 DEF Visible, Cursor
  <2>5. TableOf[r] = table /\ pc \in Stamping
    BY <2>1, <2>2, <2>4, CursorMoves
  <2>6. Planned(s) \subseteq delivered[s]
    BY <2>1, <2>5 DEF Progress, PlanDelivered, Planned
  <2>7. WrittenSince(s, r) \/ <<r, changed[s][r]>> \in waived[s] \cup Planned(s)
    BY <2>1, <2>5 DEF PlanCovers
  <2> QED
    BY <2>6, <2>7 DEF Accounted, WrittenSince
<1>2. Spec => [][Step]_vars
  BY <1>1, InitWork, WorkStep, PTL DEF Spec
<1> QED
  BY <1>2 DEF CursorSkipsNothingDetected

\* A queued operation behind its cursor was delivered: what is queued when an attempt
\* fails is ahead of the cursor, and a stamp passes only what the attempts delivered.
LEMMA PendingStep ==
  WorkInv /\ PendingBehindCursorIsRepetition /\ [Next]_vars => PendingBehindCursorIsRepetition'
<1> SUFFICES ASSUME WorkInv, PendingBehindCursorIsRepetition, [Next]_vars,
                    NEW s \in Side, NEW k \in DOMAIN pending'[s],
                    pending'[s][k].op.version <= control'[s][TableOf[pending'[s][k].op.record]].version
             PROVE  ChangeOf(pending'[s][k].op) \in delivered'[s]
  BY DEF PendingBehindCursorIsRepetition, Cursor, ChangeOf
<1>1. Shape /\ Bounds /\ Progress /\ PendingKept /\ PlanAhead /\ Shape'
  BY ShapeStep DEF WorkInv, CursorInv
<1>2. delivered[s] \subseteq delivered'[s]
  BY <1>1, DeliveredGrows
<1>3. CASE k \in DOMAIN pending[s] /\ pending'[s][k].op = pending[s][k].op
  <2> DEFINE op == pending[s][k].op
  <2>1. op.record \in Record /\ op.version \in Nat /\ TableOf[op.record] \in Tables
    <3>1. pending[s] \in Seq(PendingRow)
      BY <1>1 DEF Shape, TypeOK, StoreTypeOK
    <3>2. pending[s][k] \in PendingRow
      BY <1>3, <3>1, LenProperties, ElementOfSeq
    <3> QED
      BY <3>2, ConfigAssumption DEF PendingRow, SyncOperation, ConfigAssumption
  <2>2. ChangeOf(pending'[s][k].op) = ChangeOf(op)
    BY <1>3 DEF ChangeOf
  <2>3. CASE control'[s][TableOf[op.record]].version = control[s][TableOf[op.record]].version
    BY <1>2, <1>3, <2>2, <2>3 DEF PendingBehindCursorIsRepetition, Cursor
  <2>4. CASE pc \in Stamping
    <3>1. ChangeOf(op) \in delivered[s] \cup Planned(s)
      BY <1>1, <1>3, <2>4 DEF PendingKept
    <3>2. Planned(s) \subseteq delivered[s]
      BY <1>1, <2>4 DEF Progress, PlanDelivered, Planned
    <3> QED
      BY <1>2, <2>2, <3>1, <3>2
  <2> QED
    BY <1>1, <2>1, <2>3, <2>4, CursorMoves
<1>4. CASE /\ pc = "queue"
           /\ \E i \in DOMAIN plan[s] : /\ pending'[s][k].op.record = plan[s][i].record
                                        /\ pending'[s][k].op.version = plan[s][i].version
  <2>1. PICK i \in DOMAIN plan[s] : /\ pending'[s][k].op.record = plan[s][i].record
                                    /\ pending'[s][k].op.version = plan[s][i].version
    BY <1>4
  <2> DEFINE op == plan[s][i]
  <2>2. Ahead(s, table, op) /\ pc \notin Stamping
    BY <1>1, <1>4 DEF PlanAhead, Executing, Stamping
  <2>3. op.record \in Record /\ op.version \in Nat
        /\ op.version > control'[s][TableOf[op.record]].version
    <3> HIDE DEF op
    <3> QED
      BY <1>1, <2>2, AheadKept
  <2>4. control'[s][TableOf[op.record]].version \in Nat
    BY <1>1, <2>3, ConfigAssumption DEF ConfigAssumption, Shape, TypeOK, StoreTypeOK, ControlRow
  <2> QED
    BY <2>1, <2>3, <2>4
<1> QED
  BY <1>1, <1>3, <1>4, PendingSteps

\* In every instance a pending operation behind its cursor was already delivered.
THEOREM PendingBehindIsRepetition == Spec => []PendingBehindCursorIsRepetition
<1>1. Init => PendingBehindCursorIsRepetition
  <2> SUFFICES ASSUME Init PROVE PendingBehindCursorIsRepetition
    OBVIOUS
  <2>1. \A s \in Side : DOMAIN pending[s] = {}
    BY DEF Init
  <2> QED
    BY <2>1 DEF PendingBehindCursorIsRepetition
<1> QED
  BY <1>1, InitWork, WorkStep, PendingStep, PTL DEF Spec

\* A direction becomes FAILED with the operation that failed ahead of its cursor; it stays
\* ahead until a stamp, which also clears the failure.
LEMMA FailureStep == WorkInv /\ FailureKeepsWork /\ [Next]_vars => FailureKeepsWork'
<1> SUFFICES ASSUME WorkInv, FailureKeepsWork, [Next]_vars, NEW s \in Side, NEW t \in Tables,
                    control'[s][t].status = "FAILED"
             PROVE  \E r \in Record : TableOf[r] = t /\ Visible(s, r)'
  BY DEF FailureKeepsWork
<1>1. Shape /\ Bounds /\ FailHasPlan /\ PlanAhead /\ Shape'
  BY ShapeStep DEF WorkInv, CursorInv
<1>2. control \in [Side -> [Tables -> ControlRow]] /\ source \in Side
  BY <1>1 DEF Shape, TypeOK, StoreTypeOK, CycleTypeOK
<1>3. control'[s][t].version = control[s][t].version
  <2>1. CASE StampLocal \/ StampRemote
    BY <1>1, <1>2, <2>1, CursorMoves DEF StampLocal, StampRemote, Stamp
  <2> QED
    BY <1>1, <2>1, CursorMoves
<1>4. ASSUME NEW r \in Record, TableOf[r] = t, Visible(s, r)
      PROVE  Visible(s, r)'
  <2>1. /\ changed[s][r] \in Nat /\ changed[s][r] <= changed'[s][r] /\ changed'[s][r] \in Nat
        /\ control[s][t].version \in Nat
    BY <1>1, <1>2, Tracks DEF Shape, TypeOK, StoreTypeOK, ControlRow
  <2> QED
    BY <1>3, <1>4, <2>1 DEF Visible, Cursor
<1>5. CASE control[s][t].status = "FAILED"
  BY <1>4, <1>5 DEF FailureKeepsWork
<1>6. CASE control[s][t].status # "FAILED"
  <2>1. pc = "fail" /\ s = source /\ t = table
    <3>1. CASE MarkFailure
      BY <1>2, <1>6, <3>1 DEF MarkFailure, Failed
    <3>2. CASE StampLocal \/ StampRemote
      BY <1>2, <1>6, <3>2 DEF StampLocal, StampRemote, Stamp
    <3>3. CASE DetectLocal
      <4>1. control'[s] = [control[s] EXCEPT ![table].status =
                             IF @ = "ABSENT" THEN "INITIALIZED" ELSE @]
        BY <3>3 DEF DetectLocal, EnsureInitialized
      <4> QED
        BY <1>2, <1>6, <4>1 DEF ControlRow
    <3>4. CASE UNCHANGED control
      BY <1>6, <3>4
    <3>5. CASE CycleStep
      BY <3>1, <3>2, <3>3, <3>4, <3>5
         DEF CycleStep, StartCycle, NextReplay, ApplyOperation, DuplicateKey, CommitBatch, Commit,
             MarkCompleted, DetectRemote, NextDirection, QueueOperation, RaiseProcessingError
    <3>6. CASE FaultStep
      BY <3>4, <3>6 DEF FaultStep, PreconditionFails, StatementFails, BatchFails, HandlerFails,
                        Crash, CommitUnacknowledged, Commit
    <3>7. CASE UserStep
      BY <3>4, <3>7 DEF UserStep, UserWrite
    <3>8. CASE UNCHANGED vars
      BY <3>4, <3>8 DEF vars
    <3> QED
      BY <3>5, <3>6, <3>7, <3>8 DEF Next
  <2>2. PICK i \in DOMAIN plan[source] : Ahead(source, table, plan[source][i])
    BY <1>1, <1>2, <2>1 DEF FailHasPlan, PlanAhead, Executing
  <2> DEFINE r == plan[source][i].record
  <2>3. r \in Record /\ TableOf[r] = t /\ Visible(s, r)
    <3>1. r \in Record /\ TableOf[r] = t
      BY <2>1, <2>2 DEF Ahead
    <3>2. changed[s][r] \in Nat /\ Cursor(s, r) \in Nat
      BY <1>1, <1>2, <3>1 DEF Cursor, Shape, TypeOK, StoreTypeOK, ControlRow
    <3> QED
      BY <2>1, <2>2, <3>1, <3>2 DEF Ahead, Visible
  <2> HIDE DEF r
  <2> QED
    BY <1>4, <2>3
<1> QED
  BY <1>5, <1>6

\* In every instance a direction marked FAILED has a change ahead of its cursor, so the
\* next cycle detects it again.
THEOREM FailedIsDetectedAgain == Spec => []FailureKeepsWork
<1>1. Init => FailureKeepsWork
  BY DEF Init, FailureKeepsWork
<1> QED
  BY <1>1, InitWork, WorkStep, FailureStep, PTL DEF Spec

\* A cycle ends in success only behind its last table; until the next one, what appears
\* ahead of a cursor is a user's write.
LEMMA EchoStep == WorkInv /\ NoEcho /\ [Next]_vars => NoEcho'
<1> SUFFICES ASSUME WorkInv, NoEcho, [Next]_vars, pc' = "idle", lastStatus' = "COMPLETED",
                    NEW s \in Side, NEW r \in Record, Visible(s, r)'
             PROVE  WrittenSince(s, r)'
  BY DEF NoEcho, WrittenSince
<1>1. Shape /\ CursorInv /\ Bounds
  BY DEF WorkInv, CursorInv
<1>2. CASE pc = "idle" /\ lastStatus = "COMPLETED"
  <2>1. seen'[s][TableOf[r]] = seen[s][TableOf[r]]
    BY <1>1, <1>2, SeenKept DEF DetectLocal, DetectRemote
  <2> QED
    BY <1>1, <1>2, <2>1, DoneKept DEF NoEcho, WrittenSince
<1>3. CASE /\ pc \in Detecting \cup Stamping /\ ~(table < NumTables)
           /\ \/ StampRemote
              \/ DetectRemote /\ UNCHANGED waived
                 /\ \E now \in {0, 1} : found \cup Detected(Remote, table, now) = {}
  <2>1. TableOf[r] = table \/ TableOf[r] < table
    BY <1>1, <1>3, ConfigAssumption
       DEF ConfigAssumption, Tables, Shape, TypeOK, CycleTypeOK
  <2> QED
    BY <1>3, <2>1, TableIsDone, EarlierTablesAreDone
<1>4. CASE UserStep \/ UNCHANGED vars
  BY <1>2, <1>4 DEF UserStep, UserWrite, vars, cycle
<1>5. CASE CycleStep
  <2>1. CASE DetectRemote
    <3>1. pc = "detectRemote"
      BY <2>1 DEF DetectRemote
    <3>2. PICK now \in {0, 1} :
            \/ found \cup Detected(Remote, table, now) = {} /\ NextTable /\ UNCHANGED waived
            \/ Resolve(Detected(Remote, table, now))
      BY <2>1 DEF DetectRemote
    <3>3. found \cup Detected(Remote, table, now) = {} /\ NextTable /\ UNCHANGED waived
      BY <3>2 DEF Resolve
    <3>4. ~(table < NumTables)
      BY <3>3 DEF NextTable
    <3> QED
      BY <1>3, <2>1, <3>1, <3>3, <3>4 DEF Detecting
  <2>2. CASE StampRemote
    <3>1. pc = "stampRemote" /\ ~(table < NumTables)
      BY <2>2 DEF StampRemote, NextTable
    <3> QED
      BY <1>3, <2>2, <3>1 DEF Stamping
  <2>3. CASE \E i \in todo : DuplicateKey(i)
    BY <2>3 DEF DuplicateKey, BatchRaises, DirectionRaises, EndCycle
  <2> QED
    BY <1>5, <2>1, <2>2, <2>3
       DEF CycleStep, StartCycle, NextReplay, ApplyOperation, CommitBatch, Commit, MarkCompleted,
           DetectLocal, NextDirection, MarkFailure, QueueOperation, RaiseProcessingError,
           RetryOrRaise, Attempt, EndCycle, StampLocal
<1>6. CASE FaultStep
  BY <1>6 DEF FaultStep, PreconditionFails, StatementFails, BatchFails, HandlerFails, Crash,
       CommitUnacknowledged, BatchRaises, DirectionRaises, RetryOrRaise, Attempt, EndCycle
<1> QED
  BY <1>4, <1>5, <1>6 DEF Next

\* In every instance the service leaves none of its own writes to detect: after a
\* successful cycle only what users wrote since is ahead of the cursors.
THEOREM OwnWritesAreBehind == Spec => []NoEcho
<1>1. Init => NoEcho
  BY DEF Init, NoEcho
<1> QED
  BY <1>1, InitWork, WorkStep, EchoStep, PTL DEF Spec

-----------------------------------------------------------------------------
(***************************************************************************)
(* Users who write between cycles.                                         *)
(***************************************************************************)

\* No user writes a table between its detection and its stamps.
ReadIsFresh ==
  /\ pc = "detectRemote" => \A r \in Record : TableOf[r] = table => ~WrittenSince(Local, r)
  /\ pc \in Executing \cup Stamping =>
       \A s \in Side, r \in Record : TableOf[r] = table => ~WrittenSince(s, r)

\* A user's write is ahead of the cursor and dates the record; nothing else dates one.
LEMMA EditSteps ==
  ASSUME CursorInv, Bounds, [Next]_vars, NEW s \in Side, NEW r \in Record
  PROVE  \/ edited'[s][r] = edited[s][r]
         \/ UserStep /\ Visible(s, r)'
<1>1. /\ changed \in [Side -> [Record -> Nat]] /\ edited \in [Side -> [Record -> Nat]]
      /\ version \in [Side -> Nat] /\ control \in [Side -> [Tables -> ControlRow]]
  BY DEF CursorInv, Shape, TypeOK, StoreTypeOK
<1>2. CASE UserStep
  <2>1. PICK u \in Side, q \in Record, kind \in OperationType : UserWrite(u, q, kind)
    BY <1>2 DEF UserStep
  <2>2. /\ version' = [version EXCEPT ![u] = @ + 1] /\ UNCHANGED control
        /\ changed' = [changed EXCEPT ![u][q] = version'[u]]
        /\ edited' = [edited EXCEPT ![u][q] = clock']
    BY <2>1 DEF UserWrite
  <2>3. CASE u = s /\ q = r
    <3>1. changed'[s][r] = version[s] + 1
      BY <1>1, <2>2, <2>3
    <3>2. TableOf[r] \in Tables
      BY ConfigAssumption DEF ConfigAssumption
    <3>3. /\ control[s][TableOf[r]].version <= version[s] /\ version[s] \in Nat
          /\ control[s][TableOf[r]].version \in Nat
      BY <1>1, <3>2 DEF CursorInv, CursorsBounded, ControlRow
    <3> QED
      BY <1>2, <2>2, <3>1, <3>3 DEF Visible, Cursor
  <2>4. CASE ~(u = s /\ q = r)
    BY <1>1, <2>2, <2>4
  <2> QED
    BY <2>3, <2>4
<1>3. CASE Commit \/ DetectLocal \/ DetectRemote \/ UNCHANGED <<database, history>>
  BY <1>3 DEF Commit, DetectLocal, DetectRemote, history
<1> QED
  BY <1>2, <1>3, DataSteps

\* A record of a table that was just read is not dated after the reading.
LEMMA JustRead ==
  ASSUME Shape, Bounds, NEW s \in Side, NEW r \in Record,
         seen'[s][TableOf[r]] = clock, UNCHANGED edited
  PROVE  ~WrittenSince(s, r)'
<1>1. edited[s][r] <= clock /\ edited[s][r] \in Nat /\ clock \in Nat
  BY DEF Bounds, Shape, TypeOK, StoreTypeOK
<1> QED
  BY <1>1 DEF WrittenSince

LEMMA FreshStep ==
  ASSUME EditInCycle = FALSE
  PROVE  WorkInv /\ ReadIsFresh /\ [Next]_vars => ReadIsFresh'
<1> SUFFICES ASSUME WorkInv, ReadIsFresh, [Next]_vars PROVE ReadIsFresh'
  OBVIOUS
<1>1. CursorInv /\ Shape /\ Bounds /\ PlanAhead
  BY DEF WorkInv, CursorInv
<1>2. ASSUME pc' # "idle" PROVE UNCHANGED edited
  <2>1. ~UserStep
    BY <1>2 DEF UserStep, UserWrite, cycle
  <2>2. CASE Commit \/ DetectLocal \/ DetectRemote \/ UNCHANGED <<database, history>>
    BY <2>2 DEF Commit, DetectLocal, DetectRemote, history
  <2> QED
    BY <2>1, <2>2, DataSteps
<1>3. ASSUME NEW s \in Side, NEW r \in Record, pc' # "idle", ~WrittenSince(s, r),
             TableOf[r] # table \/ (~DetectLocal /\ ~DetectRemote)
      PROVE  ~WrittenSince(s, r)'
  BY <1>1, <1>2, <1>3, SeenKept DEF WrittenSince
<1>4. ASSUME pc' = "detectRemote", NEW r \in Record, TableOf[r] = table'
      PROVE  ~WrittenSince(Local, r)'
  <2>1. CASE DetectLocal
    <3>1. /\ table \in Tables /\ UNCHANGED <<table, edited>>
          /\ seen' = [seen EXCEPT ![Local][table] = clock]
      BY <1>1, <2>1 DEF DetectLocal, Shape, Phase, Replaying
    <3>2. seen'[Local][TableOf[r]] = clock /\ Local \in Side
      BY <1>1, <1>4, <3>1 DEF Shape, TypeOK, StoreTypeOK
    <3> QED
      BY <1>1, <3>1, <3>2, JustRead
  <2>2. CASE pc' = pc /\ UNCHANGED table
    <3>1. ~DetectLocal /\ ~DetectRemote
      BY <1>4, <2>2 DEF DetectLocal, DetectRemote, Resolve, NextTable, EndCycle
    <3> QED
      BY <1>3, <1>4, <2>2, <3>1 DEF ReadIsFresh
  <2>3. ~StampRemote /\ ~StampLocal /\ ~(DetectRemote /\ NextTable)
    BY <1>4 DEF StampRemote, StampLocal, NextTable, EndCycle
  <2>4. \A theirs : ~Resolve(theirs)
    BY <1>4 DEF Resolve
  <2> QED
    BY <1>1, <1>4, <2>1, <2>2, <2>3, <2>4, PhaseSteps DEF Detecting, Executing
<1>5. ASSUME pc' \in Executing \cup Stamping, NEW s \in Side, NEW r \in Record,
             TableOf[r] = table'
      PROVE  ~WrittenSince(s, r)'
  <2>1. pc' # "idle" /\ pc' \notin Detecting
    BY <1>5 DEF Executing, Stamping, Detecting
  <2>2. CASE DetectRemote /\ \E now \in {0, 1} : Resolve(Detected(Remote, table, now))
    <3>1. /\ table \in Tables /\ UNCHANGED <<table, edited>> /\ pc = "detectRemote"
          /\ seen' = [seen EXCEPT ![Remote][table] = clock]
      BY <1>1, <2>2 DEF DetectRemote, Resolve, Shape, Phase, Replaying
    <3>2. seen'[Remote][TableOf[r]] = clock /\ seen'[Local][TableOf[r]] = seen[Local][TableOf[r]]
      BY <1>1, <1>5, <3>1 DEF Shape, TypeOK, StoreTypeOK, Local, Remote
    <3>3. CASE s = Remote
      BY <1>1, <3>1, <3>2, <3>3, JustRead
    <3>4. CASE s = Local
      BY <1>5, <3>1, <3>2, <3>4 DEF ReadIsFresh, WrittenSince
    <3> QED
      BY <3>3, <3>4
  <2>3. CASE pc \in Executing \cup Stamping /\ UNCHANGED table
    <3>1. ~DetectLocal /\ ~DetectRemote
      BY <2>3 DEF DetectLocal, DetectRemote, Executing, Stamping
    <3> QED
      BY <1>3, <1>5, <2>1, <2>3, <3>1 DEF ReadIsFresh
  <2> QED
    BY <1>1, <1>5, <2>1, <2>2, <2>3, PhaseSteps
       DEF NextTable, EndCycle, StampRemote, StampLocal, DetectLocal, Detecting, Executing, Stamping
<1> QED
  BY <1>4, <1>5 DEF ReadIsFresh

\* A change the cursor does not pass stays accounted for.
LEMMA SkippedStep ==
  ASSUME EditInCycle = FALSE
  PROVE  WorkInv /\ ReadIsFresh /\ NoChangeSkipped /\ [Next]_vars => NoChangeSkipped'
<1> SUFFICES ASSUME WorkInv, ReadIsFresh, NoChangeSkipped, [Next]_vars,
                    NEW s \in Side, NEW r \in Record, changed'[s][r] # 0, ~Visible(s, r)'
             PROVE  Accounted(s, r)'
  BY DEF NoChangeSkipped
<1>1. CursorInv /\ Shape /\ Bounds /\ PlanCovers /\ Progress
  BY DEF WorkInv, CursorInv
<1>2. edited'[s][r] = edited[s][r]
  BY <1>1, EditSteps
<1>3. clock \in Nat /\ edited[s][r] \in Nat /\ edited[s][r] <= clock
  BY <1>1 DEF Bounds, Shape, TypeOK, StoreTypeOK
<1>4. \/ changed'[s][r] = changed[s][r]
      \/ <<r, changed'[s][r]>> \in waived'[s]
  BY <1>1, <1>2, <1>3, Tracks DEF Tracked
<1>5. ASSUME changed'[s][r] = changed[s][r], Accounted(s, r) PROVE Accounted(s, r)'
  <2>1. delivered[s] \subseteq delivered'[s] /\ waived[s] \subseteq waived'[s]
    BY <1>1, DeliveredGrows, Tracks
  <2> QED
    BY <1>5, <2>1 DEF Accounted
<1>6. CASE changed'[s][r] = changed[s][r] /\ Visible(s, r)
  <2>1. TableOf[r] \in Tables
    BY ConfigAssumption DEF ConfigAssumption
  <2>2. control'[s][TableOf[r]].version # control[s][TableOf[r]].version
    BY <1>6 DEF Visible, Cursor
  <2>3. TableOf[r] = table /\ pc \in Stamping
    BY <1>1, <2>1, <2>2, CursorMoves
  <2>4. Planned(s) \subseteq delivered[s]
    BY <1>1, <2>3 DEF Progress, PlanDelivered, Planned
  <2>5. <<r, changed[s][r]>> \in waived[s] \cup Planned(s)
    BY <1>1, <1>6, <2>3 DEF PlanCovers, ReadIsFresh
  <2> QED
    BY <1>5, <1>6, <2>4, <2>5 DEF Accounted
<1>7. CASE changed'[s][r] = changed[s][r] /\ ~Visible(s, r)
  BY <1>5, <1>7 DEF NoChangeSkipped
<1> QED
  BY <1>4, <1>6, <1>7 DEF Accounted

\* In every instance whose users write between cycles, whatever they do to the rows and
\* whatever fails, no change is skipped: one behind its cursor was delivered or needed
\* no delivery.
THEOREM NothingIsSkipped ==
  ASSUME EditInCycle = FALSE
  PROVE  Spec => []NoChangeSkipped
<1>1. Init => ReadIsFresh /\ NoChangeSkipped
  BY DEF Init, ReadIsFresh, NoChangeSkipped, Executing, Stamping
<1>2. WorkInv /\ ReadIsFresh /\ [Next]_vars => ReadIsFresh'
  BY FreshStep
<1>3. WorkInv /\ ReadIsFresh /\ NoChangeSkipped /\ [Next]_vars => NoChangeSkipped'
  BY SkippedStep
<1> QED
  BY <1>1, <1>2, <1>3, InitWork, WorkStep, PTL DEF Spec

-----------------------------------------------------------------------------
(***************************************************************************)
(* Conflicts.                                                              *)
(***************************************************************************)

\* A conflict keeps the operation LocalWins decides for, or none of two deletions.
LEMMA ConflictIsDecided ==
  ASSUME NEW L, NEW R, OnePerRecord(L), OnePerRecord(R),
         NEW l \in L, NEW r \in R, l.record = r.record
  PROVE  /\ l \in LocalToRemote(L, R) <=> ~BothDelete(l, r) /\ LocalWins(l, r)
         /\ r \in RemoteToLocal(L, R) <=> ~BothDelete(l, r) /\ ~LocalWins(l, r)
<1>1. Opponents(l, R) = {r} /\ Opponents(r, L) = {l}
  BY DEF Opponents, OnePerRecord
<1> QED
  BY <1>1 DEF LocalToRemote, RemoteToLocal

\* What resolve() makes of the changes of both sides.
LEMMA ResolvedConflicts ==
  ASSUME Shape, FoundInv, DetectRemote, NEW now \in {0, 1},
         Resolve(Detected(Remote, table, now))
  PROVE  /\ NoRecordTwice'
         /\ \A o \in found, p \in Detected(Remote, table, now) :
              o.record = p.record /\ ~BothDelete(o, p) =>
                IF LocalWins(o, p) THEN \E i \in DOMAIN plan'[Local] : plan'[Local][i] = o
                ELSE \E i \in DOMAIN plan'[Remote] : plan'[Remote][i] = p
<1> DEFINE theirs == Detected(Remote, table, now)
           out == LocalToRemote(found, theirs)
           in  == RemoteToLocal(found, theirs)
<1>1. table \in Tables /\ StoreTypeOK /\ pc = "detectRemote" /\ IsFiniteSet(found)
  BY DEF DetectRemote, Shape, TypeOK, Phase, Replaying
<1>2. IsFiniteSet(theirs) /\ OnePerRecord(theirs) /\ OnePerRecord(found)
  BY <1>1, DetectedType, DetectedIsAhead DEF FoundInv
<1>3. PICK l \in Listings(out, theirs), r \in Listings(in, found) :
        plan' = [s \in Side |-> IF s = Local THEN l ELSE r]
  BY DEF Resolve
<1> HIDE DEF theirs
<1>4. out \subseteq found /\ in \subseteq theirs
  BY DEF LocalToRemote, RemoteToLocal
<1>5. IsFiniteSet(out) /\ IsFiniteSet(in)
  BY <1>1, <1>2, <1>4, FS_Subset
<1>6. \A o \in out, p \in in : o.record # p.record
  BY OneWinner
<1>7. \A o \in found, p \in theirs : o.record = p.record /\ ~BothDelete(o, p) =>
        IF LocalWins(o, p) THEN o \in out ELSE p \in in
  BY <1>2, ConflictIsDecided
<1> HIDE DEF out, in
<1>8. /\ \A i \in DOMAIN l : l[i] \in out
      /\ \A o \in out : \E i \in DOMAIN l : l[i] = o
      /\ \A i \in DOMAIN r : r[i] \in in
      /\ \A o \in in : \E i \in DOMAIN r : r[i] = o
  BY <1>5, ListingIsComplete
<1>9. plan'[Local] = l /\ plan'[Remote] = r
  BY <1>3 DEF Local, Remote
<1>10. ASSUME NEW ops, NEW all, NEW others, ops \subseteq all, OnePerRecord(all), IsFiniteSet(ops),
              NEW k \in Listings(ops, others), NEW i \in DOMAIN k, NEW j \in DOMAIN k,
              k[i].record = k[j].record
       PROVE  i = j
  <2>1. k[i] \in ops /\ k[j] \in ops
    BY <1>10, ListingIsComplete
  <2>2. k[i] = k[j]
    BY <1>10, <2>1 DEF OnePerRecord
  <2> QED
    BY <1>10, <2>2, ListingIsInjective
<1>11. NoRecordTwice'
  <2>1. \A i, j \in DOMAIN l : l[i].record = l[j].record => i = j
    BY <1>2, <1>4, <1>5, <1>10
  <2>2. \A i, j \in DOMAIN r : r[i].record = r[j].record => i = j
    BY <1>2, <1>4, <1>5, <1>10
  <2>3. \A i \in DOMAIN l, j \in DOMAIN r : l[i].record # r[j].record
    BY <1>6, <1>8
  <2> QED
    BY <1>9, <2>1, <2>2, <2>3 DEF NoRecordTwice
<1> QED
  BY <1>7, <1>8, <1>9, <1>11 DEF theirs

\* Plans are made by resolve() and dropped with the table.
LEMMA PlanMoves ==
  ASSUME [Next]_vars
  PROVE  \/ UNCHANGED plan
         \/ plan' = NoPlan
         \/ DetectRemote /\ \E now \in {0, 1} : Resolve(Detected(Remote, table, now))
<1>1. NextTable \/ (\E st : EndCycle(st)) \/ RetryOrRaise \/ BatchRaises => UNCHANGED plan \/ plan' = NoPlan
  BY DEF NextTable, EndCycle, RetryOrRaise, Attempt, BatchRaises, DirectionRaises
<1>2. CASE UserStep \/ UNCHANGED vars
  BY <1>2 DEF UserStep, UserWrite, vars, cycle
<1>3. CASE DetectRemote
  BY <1>1, <1>3 DEF DetectRemote
<1>4. CASE CycleStep /\ ~DetectRemote
  BY <1>1, <1>4 DEF CycleStep, StartCycle, NextReplay, ApplyOperation, DuplicateKey, CommitBatch,
         MarkCompleted, DetectLocal, NextDirection, MarkFailure, QueueOperation,
         RaiseProcessingError, StampLocal, StampRemote
<1>5. CASE FaultStep
  BY <1>1, <1>5 DEF FaultStep, PreconditionFails, StatementFails, BatchFails, HandlerFails,
              Crash, CommitUnacknowledged
<1> QED
  BY <1>2, <1>3, <1>4, <1>5 DEF Next

LEMMA TwiceStep == WorkInv /\ NoRecordTwice /\ [Next]_vars => NoRecordTwice'
<1> SUFFICES ASSUME WorkInv, NoRecordTwice, [Next]_vars PROVE NoRecordTwice'
  OBVIOUS
<1>1. Shape /\ FoundInv
  BY DEF WorkInv, CursorInv
<1>2. CASE UNCHANGED plan
  BY <1>2 DEF NoRecordTwice
<1>3. CASE plan' = NoPlan
  BY <1>3 DEF NoRecordTwice, NoPlan
<1> QED
  BY <1>1, <1>2, <1>3, PlanMoves, ResolvedConflicts

\* In every instance no plan sends a record twice or both ways: a conflict leaves one
\* operation, whatever the strategy.
THEOREM ConflictsHaveOneWinner == Spec => []NoRecordTwice
<1>1. Init => NoRecordTwice
  BY DEF Init, NoRecordTwice, NoPlan
<1> QED
  BY <1>1, InitWork, WorkStep, TwiceStep, PTL DEF Spec

\* The local changes are stamped first.
StampedFirst == pc = "detectRemote" => \A o \in found : o.timestamp = 0

\* Which operation of a conflict is sent depends on the service's clock and on counters
\* of two databases, which users do not share.
DecidedByDetection ==
  pc = "detectRemote" /\ pc' = "apply" =>
    \E now \in {0, 1} : \A o \in found, p \in Detected(Remote, table, now) :
      o.record = p.record /\ ~BothDelete(o, p) =>
        IF (Strategy = "timestamp_priority" /\ now = 1) \/ o.version < p.version
        THEN \E i \in DOMAIN plan'[Remote] : plan'[Remote][i] = p
        ELSE \E i \in DOMAIN plan'[Local] : plan'[Local][i] = o

\* In every instance the remote operation wins a conflict whenever the clock has moved
\* between the two detections of timestamp_priority, and else the higher version of two
\* unrelated counters: when users wrote decides nothing.
THEOREM ConflictsIgnoreUsers == Spec => [][DecidedByDetection]_vars
<1>1. Init => StampedFirst
  BY DEF Init, StampedFirst
<1>2. WorkInv /\ StampedFirst /\ [Next]_vars => StampedFirst'
  <2> SUFFICES ASSUME WorkInv, StampedFirst, [Next]_vars, pc' = "detectRemote",
                      NEW o \in found'
               PROVE  o.timestamp = 0
    BY DEF StampedFirst
  <2>1. Shape /\ PlanAhead
    BY DEF WorkInv, CursorInv
  <2>2. CASE DetectLocal
    BY <2>2 DEF DetectLocal, Detected
  <2>3. CASE pc' = pc /\ UNCHANGED found
    BY <2>3 DEF StampedFirst
  <2>4. ~StampRemote /\ ~StampLocal /\ ~(DetectRemote /\ NextTable)
    BY DEF StampRemote, StampLocal, NextTable, EndCycle
  <2>5. \A theirs : ~Resolve(theirs)
    BY DEF Resolve
  <2> QED
    BY <2>1, <2>2, <2>3, <2>4, <2>5, PhaseSteps DEF Detecting, Executing
<1>3. WorkInv /\ StampedFirst /\ [Next]_vars => [DecidedByDetection]_vars
  <2> SUFFICES ASSUME WorkInv, StampedFirst, [Next]_vars, pc = "detectRemote", pc' = "apply"
               PROVE  DecidedByDetection
    BY DEF DecidedByDetection
  <2>1. Shape /\ FoundInv /\ PlanAhead /\ table \in Tables
    BY DEF WorkInv, CursorInv, Shape, Phase, Replaying
  <2>2. PICK now \in {0, 1} : DetectRemote /\ Resolve(Detected(Remote, table, now))
    BY <2>1, PhaseSteps
       DEF Detecting, Executing, Stamping, StampRemote, StampLocal, DetectLocal, NextTable, EndCycle
  <2>3. ASSUME NEW o \in found, NEW p \in Detected(Remote, table, now)
        PROVE  LocalWins(o, p) <=> ~((Strategy = "timestamp_priority" /\ now = 1)
                                        \/ o.version < p.version)
    <3>1. o.timestamp = 0 /\ p.timestamp = now
      BY DEF StampedFirst, Detected
    <3>2. o.version \in Nat /\ p.version \in Nat
      BY <2>1, DetectedIsAhead DEF FoundInv, Ahead, Shape, TypeOK
    <3> QED
      BY <3>1, <3>2 DEF LocalWins
  <2> QED
    BY <2>1, <2>2, <2>3, ResolvedConflicts DEF DecidedByDetection
<1> QED
  BY <1>1, <1>2, <1>3, InitWork, WorkStep, PTL DEF Spec

-----------------------------------------------------------------------------
(***************************************************************************)
(* What a cursor did skip.                                                 *)
(***************************************************************************)
Skipped(s, r) == changed[s][r] # 0 /\ ~Visible(s, r) /\ ~Accounted(s, r)

\* A step accounts for changes ahead of the cursor, for changes it makes itself, and for
\* changes it delivers again.
LEMMA AccountSteps ==
  ASSUME WorkInv, PendingBehindCursorIsRepetition, [Next]_vars, NEW s \in Side, NEW r \in Record,
         NEW v \in Nat, <<r, v>> \in delivered'[s] \cup waived'[s]
  PROVE  <<r, v>> \in delivered[s] \cup waived[s] \/ v > Cursor(s, r)
<1>1. /\ CursorInv /\ Shape /\ CursorsBounded /\ FoundInv /\ PlanAhead /\ StoreTypeOK
      /\ source \in Side /\ Target \in Side
  BY DEF WorkInv, CursorInv, Shape, TypeOK, CycleTypeOK, Target
<1>2. CASE Commit
  <2>1. /\ delivered \in [Side -> SUBSET Change] /\ waived \in [Side -> SUBSET Change]
        /\ delivered' = [delivered EXCEPT ![source] = @ \cup {ChangeOf(Operation(i)) : i \in batch}]
        /\ waived' = [waived EXCEPT ![Target] = @ \cup (touched \X {version[Target] + 1})]
        /\ pc \in {"replay", "apply"}
    BY <1>1, <1>2 DEF Commit, StoreTypeOK
  <2>2. CASE s = Target /\ v = version[s] + 1
    <3>1. TableOf[r] \in Tables
      BY ConfigAssumption DEF ConfigAssumption
    <3>2. /\ control[s][TableOf[r]].version <= version[s] /\ version[s] \in Nat
          /\ control[s][TableOf[r]].version \in Nat
      BY <1>1, <3>1 DEF CursorsBounded, StoreTypeOK, ControlRow
    <3> QED
      BY <2>2, <3>2 DEF Cursor
  <2>3. ASSUME s = source, NEW i \in batch, <<r, v>> = ChangeOf(Operation(i))
        PROVE  <<r, v>> \in delivered[s] \/ v > Cursor(s, r)
    <3>1. r = Operation(i).record /\ v = Operation(i).version
      BY <2>3 DEF ChangeOf
    <3>2. CASE pc = "apply"
      <4>1. i \in DOMAIN plan[s] /\ Operation(i) = plan[s][i]
        BY <1>1, <2>3, <3>2 DEF Shape, Executing, Operation
      <4>2. Ahead(s, table, plan[s][i])
        BY <1>1, <3>2, <4>1 DEF PlanAhead, Executing
      <4> QED
        BY <3>1, <4>1, <4>2 DEF Ahead
    <3>3. CASE pc = "replay"
      <4>1. i \in DOMAIN pending[s] /\ Operation(i) = pending[s][i].op
        BY <1>1, <2>3, <3>3 DEF Shape, Replaying, Operation
      <4>2. CASE v <= Cursor(s, r)
        BY <2>3, <3>1, <4>1, <4>2 DEF PendingBehindCursorIsRepetition
      <4>3. Cursor(s, r) \in Nat
        BY <1>1, ConfigAssumption DEF ConfigAssumption, Cursor, StoreTypeOK, ControlRow
      <4> QED
        BY <4>2, <4>3
    <3> QED
      BY <2>1, <3>2, <3>3
  <2> QED
    BY <1>1, <2>1, <2>2, <2>3
<1>3. CASE DetectRemote
  <2>1. UNCHANGED delivered /\ table \in Tables /\ pc = "detectRemote"
    BY <1>1, <1>3 DEF DetectRemote, Shape, Phase, Replaying
  <2>2. PICK now \in {0, 1} : UNCHANGED waived \/ Resolve(Detected(Remote, table, now))
    BY <1>3 DEF DetectRemote
  <2>3. CASE Resolve(Detected(Remote, table, now))
    <3> DEFINE theirs == Detected(Remote, table, now)
               LostLocal  == Lost(found, theirs, RemoteToLocal(found, theirs))
               LostRemote == Lost(theirs, found, LocalToRemote(found, theirs))
    <3>1. waived' = [waived EXCEPT ![Local] = @ \cup LostLocal, ![Remote] = @ \cup LostRemote]
      BY <2>3 DEF Resolve
    <3>2. /\ \A o \in found : Ahead(Local, table, o)
          /\ \A o \in theirs : Ahead(Remote, table, o)
      BY <1>1, <2>1, DetectedIsAhead DEF FoundInv
    <3>3. /\ \A c \in LostLocal : \E o \in found : c = ChangeOf(o)
          /\ \A c \in LostRemote : \E o \in theirs : c = ChangeOf(o)
      BY DEF Lost
    <3> HIDE DEF theirs, LostLocal, LostRemote
    <3>4. /\ waived'[Local] = waived[Local] \cup LostLocal
          /\ waived'[Remote] = waived[Remote] \cup LostRemote
      BY <1>1, <3>1 DEF StoreTypeOK, Local, Remote
    <3>5. ASSUME NEW o, Ahead(s, table, o), <<r, v>> = ChangeOf(o) PROVE v > Cursor(s, r)
      BY <3>5 DEF Ahead, ChangeOf
    <3>6. CASE s = Local
      BY <2>1, <3>2, <3>3, <3>4, <3>5, <3>6
    <3>7. CASE s = Remote
      BY <2>1, <3>2, <3>3, <3>4, <3>5, <3>7
    <3> QED
      BY <3>6, <3>7
  <2> QED
    BY <2>1, <2>2, <2>3
<1>4. CASE UserStep \/ DetectLocal \/ UNCHANGED <<database, history>>
  BY <1>4 DEF UserStep, UserWrite, DetectLocal, history
<1> QED
  BY <1>2, <1>3, <1>4, DataSteps

\* In every instance a change that a cursor skipped stays lost for as long as nobody
\* writes the row again: no later detection, retry or replay delivers it.
THEOREM SkippedIsLost ==
  Spec => [][\A s \in Side, r \in Record :
               Skipped(s, r) /\ changed'[s][r] = changed[s][r] => Skipped(s, r)']_vars
<1> DEFINE Step == \A s \in Side, r \in Record :
                     Skipped(s, r) /\ changed'[s][r] = changed[s][r] => Skipped(s, r)'
<1>1. WorkInv /\ PendingBehindCursorIsRepetition /\ [Next]_vars => Step
  <2> SUFFICES ASSUME WorkInv, PendingBehindCursorIsRepetition, [Next]_vars,
                      NEW s \in Side, NEW r \in Record,
                      Skipped(s, r), changed'[s][r] = changed[s][r]
               PROVE  Skipped(s, r)'
    OBVIOUS
  <2>1. CursorInv /\ Bounds /\ Shape
    BY DEF WorkInv, CursorInv
  <2>2. changed[s][r] \in Nat /\ Cursor(s, r) \in Nat
    BY <2>1, ConfigAssumption
       DEF ConfigAssumption, Cursor, Shape, TypeOK, StoreTypeOK, ControlRow
  <2>3. ~(changed[s][r] > Cursor(s, r))
    BY DEF Skipped, Visible
  <2>4. <<r, changed[s][r]>> \notin delivered'[s] \cup waived'[s]
    BY <2>2, <2>3, AccountSteps DEF Skipped, Accounted
  <2>5. ~Visible(s, r)'
    <3>1. TableOf[r] \in Tables
      BY ConfigAssumption DEF ConfigAssumption
    <3>2. control[s][TableOf[r]].version <= version[s] /\ version[s] \in Nat
      BY <2>1, <3>1 DEF CursorInv, CursorsBounded, Shape, TypeOK, StoreTypeOK
    <3>3. Cursor(s, r)' \in Nat /\ Cursor(s, r) <= Cursor(s, r)'
      BY <2>1, <2>2, <3>1, <3>2, CursorMoves DEF Cursor
    <3> QED
      BY <2>2, <2>3, <3>3 DEF Visible
  <2> QED
    BY <2>4, <2>5 DEF Skipped, Accounted
<1>2. WorkInv /\ PendingBehindCursorIsRepetition /\ [Next]_vars => [Step]_vars
  BY <1>1
<1> QED
  BY <1>2, InitWork, WorkStep, PendingBehindIsRepetition, PTL DEF Spec
=============================================================================
