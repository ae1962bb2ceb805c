--------------------------- MODULE ConnectorProofs ---------------------------
(***************************************************************************)
(* Theorems about Connector, for any number of threads, calls, connections *)
(* and failures.                                                           *)
(***************************************************************************)
EXTENDS Connector, FiniteSetTheorems, TLAPS

\* The threads inside transaction().
InsideOnes == {th \in Cycler : pc[th] \in Inside}

\* What the depth needs to be known of the threads: the health server never opens a
\* transaction, and a transaction is a batch of a cycle.
Points ==
  /\ pc \in [Thread -> Point] /\ kind \in [Thread -> Call]
  /\ \A th \in Prober : kind[th] = "query" /\ pc[th] \notin Inside

IInv == Points /\ DepthCounts

-----------------------------------------------------------------------------
\* A thread that moves without crossing the bounds of transaction() leaves the depth
\* counted.
LEMMA Stays ==
  ASSUME IInv, NEW th \in Thread, NEW p \in Point, p \in Inside <=> pc[th] \in Inside,
         Goes(th, p), UNCHANGED <<depth, kind>>
  PROVE  IInv'
<1>1. pc' \in [Thread -> Point] /\ \A t \in Thread : pc'[t] \in Inside <=> pc[t] \in Inside
  BY DEF IInv, Points, Goes
<1>2. Cycler \subseteq Thread /\ Prober \subseteq Thread
  BY DEF Thread
<1>3. InsideOnes' = InsideOnes
  BY <1>1, <1>2 DEF InsideOnes
<1> QED
  BY <1>1, <1>2, <1>3 DEF IInv, Points, DepthCounts, InsideOnes

\* A thread of a cycle that enters transaction() and counts itself.
LEMMA Enters ==
  ASSUME IInv, NEW th \in Cycler, NEW p \in Point \cap Inside, pc[th] \notin Inside,
         Goes(th, p), depth' = depth + 1, UNCHANGED kind
  PROVE  IInv'
<1>1. Cycler \subseteq Thread /\ Prober \subseteq Thread /\ th \notin Prober
  BY ConnectorAssumption DEF Thread
<1>2. Points'
  BY <1>1 DEF IInv, Points, Goes
<1>3. InsideOnes' = InsideOnes \cup {th} /\ th \notin InsideOnes
  BY <1>1 DEF IInv, Points, Goes, InsideOnes
<1>4. IsFiniteSet(InsideOnes)
  BY FS_Subset, ConnectorAssumption DEF InsideOnes
<1>5. Cardinality(InsideOnes') = Cardinality(InsideOnes) + 1
  BY <1>3, <1>4, FS_AddElement
<1> QED
  BY <1>2, <1>5 DEF IInv, DepthCounts, InsideOnes

\* A thread that leaves transaction() and takes itself out of the count.
LEMMA Leaves ==
  ASSUME IInv, NEW th \in Thread, NEW p \in Point \ Inside, pc[th] \in Inside,
         Goes(th, p), depth' = depth - 1, UNCHANGED kind
  PROVE  IInv'
<1>1. Cycler \subseteq Thread /\ Prober \subseteq Thread /\ th \in Cycler
  BY DEF Thread, IInv, Points
<1>2. Points'
  BY <1>1 DEF IInv, Points, Goes
<1>3. InsideOnes' = InsideOnes \ {th} /\ th \in InsideOnes
  BY <1>1 DEF IInv, Points, Goes, InsideOnes
<1>4. IsFiniteSet(InsideOnes)
  BY FS_Subset, ConnectorAssumption DEF InsideOnes
<1>5. Cardinality(InsideOnes') = Cardinality(InsideOnes) - 1
  BY <1>3, <1>4, FS_RemoveElement
<1> QED
  BY <1>2, <1>5 DEF IInv, DepthCounts, InsideOnes

\* A call that has its connection: a batch enters transaction().
LEMMA UsesCounts ==
  ASSUME IInv, NEW th \in Thread, NEW c, pc[th] \in {"require", "connecting"}, Uses(th, c),
         UNCHANGED kind
  PROVE  IInv'
<1>1. CASE kind[th] = "batch"
  <2>1. th \in Cycler
    BY <1>1 DEF IInv, Points, Thread
  <2> QED
    BY <1>1, <2>1, Enters DEF Uses, Point, Inside
<1>2. CASE kind[th] # "batch"
  BY <1>2, Stays DEF Uses, Point, Inside
<1> QED
  BY <1>1, <1>2

-----------------------------------------------------------------------------
LEMMA InitiallyCounted == Init => IInv
<1> SUFFICES ASSUME Init PROVE IInv
  OBVIOUS
<1>1. Points
  BY ConnectorAssumption DEF Init, Points, Point, Call, Inside, Thread
<1>2. InsideOnes = {}
  BY DEF Init, InsideOnes, Inside, Thread
<1>3. Cardinality({}) = 0
  BY FS_EmptySet
<1> QED
  BY <1>1, <1>2, <1>3 DEF Init, IInv, DepthCounts, InsideOnes

LEMMA StepCounts ==
  ASSUME IInv, NEW th \in Thread, Step(th)
  PROVE  IInv'
<1>1. CASE \E call \in Call : Begin(th, call)
  <2> PICK call \in Call : Begin(th, call)
    BY <1>1
  <2>1. Points'
    BY DEF Begin, Goes, IInv, Points, Point, Inside, Thread
  <2>2. InsideOnes' = InsideOnes
    BY DEF Begin, Goes, IInv, Points, InsideOnes, Inside, Thread
  <2> QED
    BY <2>1, <2>2 DEF Begin, IInv, DepthCounts, InsideOnes, attributes
<1>2. CASE Require(th)
  <2>1. CASE connection = NoSession
    BY <1>2, <2>1, Stays DEF Require, Point, Inside
  <2>2. CASE connection # NoSession
    BY <1>2, <2>2, UsesCounts DEF Require
  <2> QED
    BY <2>1, <2>2
<1>3. CASE Connect(th)
  BY <1>3, UsesCounts DEF Connect
<1>4. CASE Run(th)
  <2>1. CASE status[held[th]] = "open"
    BY <1>4, <2>1 DEF Run, IInv, Points, DepthCounts, attributes
  <2>2. CASE status[held[th]] # "open"
    BY <1>4, <2>2, Stays DEF Run, Raises, Point, Inside, attributes
  <2> QED
    BY <2>1, <2>2
<1>5. CASE Query(th)
  BY <1>5, Stays DEF Query, Returns, Point, Inside, attributes
<1>6. CASE LeaveStatement(th)
  BY <1>6, Stays DEF LeaveStatement, Returns, Point, Inside, attributes
<1>7. CASE LeaveBody(th)
  BY <1>7, Stays DEF LeaveBody, Point, Inside, attributes
<1>8. CASE Commit(th)
  BY <1>8, Stays DEF Commit, Returns, Raises, Point, Inside, attributes
<1>9. CASE Except(th)
  BY <1>9, Stays DEF Except, Point, Inside, attributes
<1>10. CASE Rollback(th)
  BY <1>10, Stays DEF Rollback, Point, Inside, attributes
<1>11. CASE Leave(th)
  BY <1>11, Leaves DEF Leave, Returns, Point, Inside
<1>12. CASE Unwind(th)
  BY <1>12, Leaves DEF Unwind, Point, Inside
<1>13. CASE StatementFails(th)
  BY <1>13, Stays DEF StatementFails, Raises, Point, Inside, attributes
<1>14. CASE CommitUnacknowledged(th)
  BY <1>14, Stays DEF CommitUnacknowledged, Raises, Point, Inside, attributes
<1> QED
  BY <1>1, <1>2, <1>3, <1>4, <1>5, <1>6, <1>7, <1>8, <1>9, <1>10, <1>11, <1>12, <1>13, <1>14
  DEF Step

\* Also SystemExit: a main thread inside transaction() still has its finally clause
\* before it.
LEMMA StopCounts ==
  ASSUME IInv, Stop
  PROVE  IInv'
<1>1. pc' \in [Thread -> Point] /\ \A t \in Thread : pc'[t] \in Inside <=> pc[t] \in Inside
  BY DEF Stop, IInv, Points, Point, Inside
<1>2. Cycler \subseteq Thread /\ Prober \subseteq Thread
  BY DEF Thread
<1>3. InsideOnes' = InsideOnes
  BY <1>1, <1>2 DEF InsideOnes
<1> QED
  BY <1>1, <1>2, <1>3 DEF Stop, IInv, Points, DepthCounts, InsideOnes

\* Every step leaves the depth counted.
LEMMA CountStep == IInv /\ [Next]_vars => IInv'
<1> SUFFICES ASSUME IInv, [Next]_vars PROVE IInv'
  OBVIOUS
<1>1. CASE \E th \in Thread : Step(th)
  BY <1>1, StepCounts
<1>2. CASE Stop
  BY <1>2, StopCounts
<1>3. CASE \E c \in Session : SessionDies(c)
  BY <1>3 DEF SessionDies, IInv, Points, DepthCounts, attributes, thread
<1>4. CASE UNCHANGED vars
  BY <1>4 DEF vars, IInv, Points, DepthCounts, attributes, thread
<1> QED
  BY <1>1, <1>2, <1>3, <1>4 DEF Next

\* However a transaction is left, by its end, an exception or SystemExit,
\* _transaction_depth is the number of threads inside one.
THEOREM DepthIsCounted == Spec => []DepthCounts
<1>1. IInv => DepthCounts
  BY DEF IInv
<1> QED
  BY InitiallyCounted, CountStep, <1>1, PTL DEF Spec

-----------------------------------------------------------------------------
(***************************************************************************)
(* Type correctness.  A statement is named after the call it belongs to,   *)
(* so the types need the kind of call a point is part of.                  *)
(***************************************************************************)
Using == Inside \cup {"execute", "commitSingle"}
AtWork(th) == pc[th] \notin {"out", "gone"}

\* TypeOK without the depth, which DepthCounts bounds.
Typed ==
  /\ connection \in Session \cup {NoSession}
  /\ status \in [Session -> {"unused", "open", "dead", "closed"}]
  /\ work \in [Session -> SUBSET Statement]
  /\ pc \in [Thread -> Point] /\ kind \in [Thread -> Call]
  /\ calls \in [Thread -> 0..MaxCalls]
  /\ held \in [Thread -> Session \cup {NoSession}]
  /\ done \in [Thread -> 0..BatchSize]
  /\ stopped \in BOOLEAN /\ faults \in 0..MaxFaults
  /\ committed \subseteq Statement /\ reported \subseteq Statement
  /\ overlapped \subseteq Cycler \X (1..MaxCalls)

\* What a thread at a point has: a call under way, a session, the kind of call.
Begun ==
  /\ \A th \in Thread : AtWork(th) => calls[th] > 0
  /\ \A th \in Thread : pc[th] \in Using => held[th] \in Session
  /\ \A th \in Thread : pc[th] \in Inside => kind[th] = "batch"
  /\ \A th \in Thread : pc[th] \in {"execute", "commitSingle"} => kind[th] # "batch"
  /\ \A th \in Thread : pc[th] = "commitSingle" => kind[th] = "single"

TypeInv == IInv /\ Typed /\ Begun

\* The statements a cycle's call reports are statements.
LEMMA StatementsTyped ==
  ASSUME TypeInv, NEW th \in Cycler, AtWork(th)
  PROVE  StatementsOf(th) \subseteq Statement
<1>1. calls[th] \in 1..MaxCalls /\ 0 \in 0..BatchSize /\ 1..BatchSize \subseteq 0..BatchSize
  BY ConnectorAssumption DEF TypeInv, Typed, Begun, Thread
<1> QED
  BY <1>1 DEF StatementsOf, Statement

\* A call that returns keeps the types.
LEMMA ReturnsTyped ==
  ASSUME TypeInv, NEW th \in Thread, AtWork(th), Returns(th)
  PROVE  pc' \in [Thread -> Point] /\ reported' \subseteq Statement
<1>1. pc' \in [Thread -> Point]
  BY DEF Returns, Goes, TypeInv, Typed, Point
<1>2. CASE kind[th] = "query"
  BY <1>1, <1>2 DEF Returns, TypeInv, Typed
<1>3. CASE kind[th] # "query"
  <2>1. th \in Cycler
    BY <1>3 DEF TypeInv, IInv, Points, Thread
  <2> QED
    BY <1>1, <1>3, <2>1, StatementsTyped DEF Returns, TypeInv, Typed
<1> QED
  BY <1>2, <1>3

\* The depth is a number, as a count.
LEMMA DepthTyped == IInv => depth \in Nat /\ depth <= Cardinality(Cycler)
<1> SUFFICES ASSUME IInv PROVE depth \in Nat /\ depth <= Cardinality(Cycler)
  OBVIOUS
<1>1. InsideOnes \subseteq Cycler /\ IsFiniteSet(Cycler)
  BY ConnectorAssumption DEF InsideOnes
<1>2. IsFiniteSet(InsideOnes) /\ Cardinality(InsideOnes) <= Cardinality(Cycler)
  BY <1>1, FS_Subset
<1> QED
  BY <1>2, FS_CardinalityType DEF IInv, DepthCounts, InsideOnes

\* A call that has its connection keeps the types, and is where its kind says.
LEMMA UsesTyped ==
  ASSUME TypeInv, NEW th \in Thread, NEW c \in Session, pc[th] \in {"require", "connecting"},
         Uses(th, c), UNCHANGED <<kind, calls>>
  PROVE  /\ pc' \in [Thread -> Point] /\ held' \in [Thread -> Session \cup {NoSession}]
         /\ Begun'
<1>1. pc \in [Thread -> Point] /\ held \in [Thread -> Session \cup {NoSession}] /\ AtWork(th)
  BY DEF TypeInv, Typed, AtWork
<1>2. /\ held' = [held EXCEPT ![th] = c]
      /\ kind[th] = "batch" => pc' = [pc EXCEPT ![th] = "transaction"]
      /\ kind[th] # "batch" => pc' = [pc EXCEPT ![th] = "execute"]
  BY DEF Uses, Goes
<1>3. pc' \in [Thread -> Point] /\ held' \in [Thread -> Session \cup {NoSession}]
  BY <1>1, <1>2 DEF Point, Inside
<1>4. Begun'
  BY <1>1, <1>2 DEF TypeInv, Begun, AtWork, Using, Inside
<1> QED
  BY <1>3, <1>4

\* A thread that moves on within its call keeps what a point has.
LEMMA MovesBegun ==
  ASSUME TypeInv, NEW th \in Thread, NEW p \in Inside \cup {"out", "gone"},
         pc[th] \in Using, p \in Inside => pc[th] \in Inside,
         Goes(th, p), UNCHANGED <<kind, calls, held>>
  PROVE  pc' \in [Thread -> Point] /\ Begun'
<1>1. pc \in [Thread -> Point] /\ AtWork(th)
  BY DEF TypeInv, Typed, AtWork, Using, Inside
<1>2. pc' = [pc EXCEPT ![th] = p] /\ pc' \in [Thread -> Point]
  BY <1>1 DEF Goes, Point, Inside
<1>3. Begun'
  BY <1>1, <1>2 DEF TypeInv, Begun, AtWork, Using, Inside
<1> QED
  BY <1>2, <1>3

\* The step of a thread keeps the types.
LEMMA StepTyped ==
  ASSUME TypeInv, NEW th \in Thread, Step(th)
  PROVE  Typed' /\ Begun'
<1> USE DEF attributes, server
<1>1. /\ BatchSize \in Nat \ {0} /\ 0 \in 0..MaxCalls /\ MaxFaults \in Nat /\ MaxCalls \in Nat
      /\ Cycler \subseteq Thread /\ Prober \subseteq Thread
  BY ConnectorAssumption DEF Thread
<1>2. Fault => faults' \in 0..MaxFaults
  BY <1>1 DEF Fault, TypeInv, Typed
<1>3. CASE \E call \in Call : Begin(th, call)
  <2> PICK call \in Call : Begin(th, call)
    BY <1>3
  <2>1. /\ pc[th] = "out" /\ calls[th] < MaxCalls /\ pc' = [pc EXCEPT ![th] = "require"]
        /\ kind' = [kind EXCEPT ![th] = call] /\ calls' = [calls EXCEPT ![th] = @ + 1]
        /\ done' = [done EXCEPT ![th] = 0]
        /\ UNCHANGED <<connection, status, work, committed, held, stopped, reported, faults>>
    BY DEF Begin, Goes
  <2>2. calls[th] + 1 \in 1..MaxCalls
    BY <1>1, <2>1 DEF TypeInv, Typed
  <2>3. calls' \in [Thread -> 0..MaxCalls] /\ calls'[th] = calls[th] + 1
    BY <2>1, <2>2 DEF TypeInv, Typed
  <2>4. pc' \in [Thread -> Point] /\ kind' \in [Thread -> Call] /\ done' \in [Thread -> 0..BatchSize]
    BY <1>1, <2>1 DEF TypeInv, Typed, Point
  <2>5. \A b \in Busy : <<b, calls[b]>> \in Cycler \X (1..MaxCalls)
    BY <1>1 DEF Busy, TypeInv, Typed, Begun, AtWork
  <2>6. overlapped' \subseteq Cycler \X (1..MaxCalls)
    BY <1>1, <2>2, <2>3, <2>5 DEF Begin, TypeInv, Typed
  <2>7. Typed'
    BY <2>1, <2>3, <2>4, <2>6 DEF TypeInv, Typed
  <2>8. Begun'
    BY <2>1, <2>2, <2>3 DEF TypeInv, Typed, Begun, AtWork, Using, Inside
  <2> QED
    BY <2>7, <2>8
<1>4. CASE Require(th)
  <2>1. CASE connection = NoSession
    <3>1. /\ pc[th] = "require" /\ pc' = [pc EXCEPT ![th] = "connecting"]
          /\ UNCHANGED <<connection, status, work, committed, kind, calls, held, done, stopped,
                         reported, overlapped, faults>>
      BY <1>4, <2>1 DEF Require, Goes
    <3>2. Typed'
      BY <3>1 DEF TypeInv, Typed, Point
    <3>3. Begun'
      BY <3>1 DEF TypeInv, Typed, Begun, AtWork, Using, Inside
    <3> QED
      BY <3>2, <3>3
  <2>2. CASE connection # NoSession
    <3>1. /\ pc[th] = "require" /\ Uses(th, connection) /\ connection \in Session
          /\ UNCHANGED <<connection, status, work, committed, kind, calls, done, stopped,
                         reported, overlapped, faults>>
      BY <1>4, <2>2 DEF Require, TypeInv, Typed
    <3> QED
      BY <3>1, UsesTyped DEF TypeInv, Typed
  <2> QED
    BY <2>1, <2>2
<1>5. CASE Connect(th)
  <2>1. PICK c \in Session : /\ status' = [status EXCEPT ![c] = "open"]
                             /\ connection' = c /\ Uses(th, c)
    BY <1>5 DEF Connect
  <2>2. /\ pc[th] = "connecting"
        /\ UNCHANGED <<work, committed, kind, calls, done, stopped, reported, overlapped, faults>>
    BY <1>5 DEF Connect
  <2>3. status' \in [Session -> {"unused", "open", "dead", "closed"}]
    BY <2>1 DEF TypeInv, Typed
  <2> QED
    BY <2>1, <2>2, <2>3, UsesTyped DEF TypeInv, Typed
<1>6. CASE Run(th)
  <2>1. pc[th] \in {"transaction", "execute"} /\ kind[th] # "query" /\ done[th] < BatchSize
    BY <1>1, <1>6 DEF Run, TypeInv, Begun, Inside
  <2>2. th \in Cycler /\ held[th] \in Session /\ calls[th] \in 1..MaxCalls
    BY <2>1 DEF TypeInv, IInv, Points, Typed, Begun, AtWork, Using, Inside, Thread
  <2>3. CASE status[held[th]] = "open"
    <3> DEFINE n == IF kind[th] = "batch" THEN done[th] + 1 ELSE 0
    <3>1. /\ work' = [work EXCEPT ![held[th]] = @ \cup {<<th, calls[th], n>>}]
          /\ done' = [done EXCEPT ![th] = @ + 1]
          /\ UNCHANGED <<connection, status, committed, pc, kind, calls, held, stopped, reported,
                         overlapped, faults>>
      BY <1>6, <2>3 DEF Run
    <3>2. done[th] + 1 \in 0..BatchSize /\ n \in 0..BatchSize
      BY <1>1, <2>1 DEF TypeInv, Typed
    <3>3. <<th, calls[th], n>> \in Statement
      BY <2>2, <3>2 DEF Statement
    <3> HIDE DEF n
    <3>4. work' \in [Session -> SUBSET Statement] /\ done' \in [Thread -> 0..BatchSize]
      BY <3>1, <3>2, <3>3 DEF TypeInv, Typed
    <3>5. Typed'
      BY <3>1, <3>4 DEF TypeInv, Typed
    <3> QED
      BY <3>1, <3>5 DEF TypeInv, Begun, AtWork
  <2>4. CASE status[held[th]] # "open"
    <3>1. /\ Raises(th)
          /\ UNCHANGED <<connection, status, work, committed, kind, calls, held, done, stopped,
                         reported, overlapped, faults>>
      BY <1>6, <2>4 DEF Run
    <3>2. pc' \in [Thread -> Point] /\ Begun'
      BY <2>1, <3>1, MovesBegun DEF Raises, Point, Using, Inside
    <3> QED
      BY <3>1, <3>2 DEF TypeInv, Typed
  <2> QED
    BY <2>3, <2>4
<1>7. CASE Query(th)
  <2>1. /\ pc[th] = "execute" /\ Returns(th)
        /\ UNCHANGED <<connection, status, work, committed, kind, calls, held, done, stopped,
                       overlapped, faults>>
    BY <1>7 DEF Query
  <2>2. Begun'
    BY <2>1, MovesBegun DEF Returns, Point, Using, Inside
  <2> QED
    BY <2>1, <2>2, ReturnsTyped DEF TypeInv, Typed, AtWork
<1>8. CASE LeaveStatement(th)
  <2>1. /\ pc[th] = "execute" /\ kind[th] = "single"
        /\ UNCHANGED <<connection, status, work, committed, kind, calls, held, done, stopped,
                       overlapped, faults>>
    BY <1>8 DEF LeaveStatement
  <2>2. CASE Goes(th, "commitSingle") /\ UNCHANGED reported
    <3>1. pc' = [pc EXCEPT ![th] = "commitSingle"]
      BY <2>2 DEF Goes
    <3>2. Typed'
      BY <2>1, <2>2, <3>1 DEF TypeInv, Typed, Point
    <3>3. Begun'
      BY <2>1, <3>1 DEF TypeInv, Typed, Begun, AtWork, Using, Inside
    <3> QED
      BY <3>2, <3>3
  <2>3. CASE Returns(th)
    <3>1. Begun'
      BY <2>1, <2>3, MovesBegun DEF Returns, Point, Using, Inside
    <3> QED
      BY <2>1, <2>3, <3>1, ReturnsTyped DEF TypeInv, Typed, AtWork
  <2> QED
    BY <1>8, <2>2, <2>3 DEF LeaveStatement
<1>9. CASE LeaveBody(th) \/ Except(th)
  <2>1. /\ UNCHANGED <<connection, status, work, committed, kind, calls, held, done, stopped,
                       reported, overlapped, faults>>
        /\ pc[th] \in {"transaction", "except"}
        /\ \E p \in {"commit", "leave", "rollback", "raise"} : Goes(th, p)
    BY <1>9 DEF LeaveBody, Except
  <2>2. pc' \in [Thread -> Point] /\ Begun'
    BY <2>1, MovesBegun DEF Point, Using, Inside
  <2> QED
    BY <2>1, <2>2 DEF TypeInv, Typed
<1>10. CASE Commit(th) \/ CommitUnacknowledged(th)
  <2>1. /\ pc[th] \in {"commit", "commitSingle"}
        /\ UNCHANGED <<connection, kind, calls, held, done, stopped, overlapped>>
    BY <1>10 DEF Commit, CommitUnacknowledged
  <2>2. held[th] \in Session /\ faults' \in 0..MaxFaults
    BY <1>2, <1>10, <2>1 DEF TypeInv, Begun, Typed, Using, Inside, Commit, CommitUnacknowledged
  <2>3. committed' \subseteq Statement /\ work' \in [Session -> SUBSET Statement]
        /\ status' \in [Session -> {"unused", "open", "dead", "closed"}]
    BY <1>10, <2>2 DEF Commit, CommitUnacknowledged, ServerCommits, TypeInv, Typed
  <2>4. pc' \in [Thread -> Point] /\ Begun' /\ reported' \subseteq Statement
    <3>1. CASE Returns(th)
      BY <2>1, <3>1, ReturnsTyped, MovesBegun DEF Returns, AtWork, Point, Using, Inside
    <3>2. CASE Raises(th) /\ UNCHANGED reported
      BY <2>1, <3>2, MovesBegun DEF Raises, Point, Using, Inside, TypeInv, Typed
    <3>3. CASE pc[th] = "commit" /\ Goes(th, "leave") /\ UNCHANGED reported
      BY <2>1, <3>3, MovesBegun DEF Point, Using, Inside, TypeInv, Typed
    <3> QED
      BY <1>10, <2>1, <3>1, <3>2, <3>3 DEF Commit, CommitUnacknowledged
  <2> QED
    BY <2>1, <2>2, <2>3, <2>4 DEF TypeInv, Typed
<1>11. CASE Rollback(th)
  <2>1. /\ pc[th] = "rollback" /\ work' = [work EXCEPT ![held[th]] = {}] /\ Goes(th, "raise")
        /\ UNCHANGED <<connection, status, committed, kind, calls, held, done, stopped,
                       reported, overlapped, faults>>
    BY <1>11 DEF Rollback
  <2>2. pc' \in [Thread -> Point] /\ Begun'
    BY <2>1, MovesBegun DEF Point, Using, Inside
  <2>3. work' \in [Session -> SUBSET Statement]
    BY <2>1 DEF TypeInv, Typed
  <2> QED
    BY <2>1, <2>2, <2>3 DEF TypeInv, Typed
<1>12. CASE Leave(th) \/ Unwind(th)
  <2>1. /\ UNCHANGED <<connection, status, work, committed, kind, calls, held, done, stopped,
                       overlapped, faults>>
        /\ pc[th] \in {"leave", "raise", "unwind"}
        /\ Returns(th) \/ (\E p \in {"out", "gone"} : Goes(th, p) /\ UNCHANGED reported)
    BY <1>12 DEF Leave, Unwind
  <2>2. pc' \in [Thread -> Point] /\ Begun'
    BY <2>1, MovesBegun DEF Returns, Point, Using, Inside
  <2>3. reported' \subseteq Statement
    BY <2>1, ReturnsTyped DEF AtWork, TypeInv, Typed
  <2> QED
    BY <2>1, <2>2, <2>3 DEF TypeInv, Typed
<1>13. CASE StatementFails(th)
  <2>1. /\ UNCHANGED <<connection, status, work, committed, kind, calls, held, done, stopped,
                       reported, overlapped>>
        /\ pc[th] \in {"transaction", "execute", "connecting"} /\ Raises(th)
        /\ faults' \in 0..MaxFaults
    BY <1>2, <1>13 DEF StatementFails
  <2>2. CASE pc[th] = "connecting"
    <3>1. pc' = [pc EXCEPT ![th] = "out"]
      BY <2>1, <2>2 DEF Raises, Goes, Inside
    <3>2. pc' \in [Thread -> Point]
      BY <3>1 DEF TypeInv, Typed, Point
    <3>3. Begun'
      BY <2>1, <3>1 DEF TypeInv, Typed, Begun, AtWork, Using, Inside
    <3> QED
      BY <2>1, <3>2, <3>3 DEF TypeInv, Typed
  <2>3. CASE pc[th] # "connecting"
    <3>1. pc' \in [Thread -> Point] /\ Begun'
      BY <2>1, <2>3, MovesBegun DEF Raises, Point, Using, Inside
    <3> QED
      BY <2>1, <3>1 DEF TypeInv, Typed
  <2> QED
    BY <2>2, <2>3
<1> QED
  BY <1>3, <1>4, <1>5, <1>6, <1>7, <1>8, <1>9, <1>10, <1>11, <1>12, <1>13 DEF Step

\* Also stop(), which moves the main thread only.
LEMMA StopTyped ==
  ASSUME TypeInv, Stop
  PROVE  Typed' /\ Begun'
<1>1. /\ connection' = NoSession /\ stopped' = TRUE
      /\ status' = [c \in Session |-> IF c = connection THEN "closed" ELSE status[c]]
      /\ work' = [c \in Session |-> IF c = connection THEN {} ELSE work[c]]
      /\ pc' = [th \in Thread |-> IF th # Main THEN pc[th]
                                 ELSE IF pc[th] \in Inside THEN "unwind" ELSE "gone"]
      /\ UNCHANGED <<depth, committed, kind, calls, held, done, reported, overlapped, faults>>
  BY DEF Stop
<1>2. pc' \in [Thread -> Point]
  BY <1>1 DEF TypeInv, Typed, Point, Inside
<1>3. /\ status' \in [Session -> {"unused", "open", "dead", "closed"}]
      /\ work' \in [Session -> SUBSET Statement]
  BY <1>1 DEF TypeInv, Typed
<1>4. Typed'
  BY <1>1, <1>2, <1>3 DEF TypeInv, Typed
<1>5. Begun'
  BY <1>1 DEF TypeInv, Typed, Begun, AtWork, Using, Inside
<1> QED
  BY <1>4, <1>5

\* Every step keeps the types.
LEMMA TypeStep == TypeInv /\ [Next]_vars => TypeInv'
<1> SUFFICES ASSUME TypeInv, [Next]_vars PROVE Typed' /\ Begun'
  BY CountStep DEF TypeInv
<1>1. CASE \E th \in Thread : Step(th)
  BY <1>1, StepTyped
<1>2. CASE Stop
  BY <1>2, StopTyped
<1>3. CASE \E c \in Session : SessionDies(c)
  <2>1. PICK c \in Session : SessionDies(c)
    BY <1>3
  <2>2. /\ status' = [status EXCEPT ![c] = "dead"] /\ work' = [work EXCEPT ![c] = {}]
        /\ faults < MaxFaults /\ faults' = faults + 1
        /\ UNCHANGED <<connection, committed, pc, kind, calls, held, done, stopped, reported,
                       overlapped>>
    BY <2>1 DEF SessionDies, Fault, attributes, thread
  <2>3. /\ status' \in [Session -> {"unused", "open", "dead", "closed"}]
        /\ work' \in [Session -> SUBSET Statement] /\ faults' \in 0..MaxFaults
    BY <2>2, ConnectorAssumption DEF TypeInv, Typed, ConnectorAssumption
  <2>4. Typed'
    BY <2>2, <2>3 DEF TypeInv, Typed
  <2> QED
    BY <2>2, <2>4 DEF TypeInv, Begun, AtWork
<1>4. CASE UNCHANGED vars
  BY <1>4 DEF vars, attributes, server, thread, TypeInv, Typed, Begun, AtWork
<1> QED
  BY <1>1, <1>2, <1>3, <1>4 DEF Next

\* engine.startup() leaves a connected, idle connector.
LEMMA InitTyped == Init => TypeInv
<1> SUFFICES ASSUME Init PROVE Typed /\ Begun
  BY InitiallyCounted DEF TypeInv
<1>1. 1 \in Session /\ 0 \in 0..MaxCalls /\ 0 \in 0..BatchSize /\ 0 \in 0..MaxFaults
  BY ConnectorAssumption DEF Session
<1> QED
  BY <1>1 DEF Init, Typed, Begun, AtWork, Using, Inside, Point, Call

\* In every state of every instance the variables keep their types, and no more threads
\* are inside transaction() than run cycles.
THEOREM TypeCorrect == Spec => []TypeOK
<1>1. TypeInv => TypeOK
  <2> SUFFICES ASSUME TypeInv PROVE TypeOK
    OBVIOUS
  <2>1. depth \in Nat /\ depth <= Cardinality(Cycler)
    BY DepthTyped DEF TypeInv
  <2>2. Cardinality(Cycler) \in Nat
    BY ConnectorAssumption, FS_CardinalityType
  <2>3. depth \in 0..Cardinality(Cycler)
    BY <2>1, <2>2
  <2> QED
    BY <2>3 DEF TypeInv, Typed, TypeOK
<1> QED
  BY <1>1, InitTyped, TypeStep, PTL DEF Spec

-----------------------------------------------------------------------------
(***************************************************************************)
(* Calls that meet no other cycle.  Such a call is the only one at work,   *)
(* so the connection is its own: the depth is 1 in its transaction, and    *)
(* every commit and rollback from its first statement on is its own.       *)
(***************************************************************************)

\* A session that is not open has nothing to commit; until stop() there is one session.
Sessions ==
  /\ \A c \in Session : status[c] # "open" => work[c] = {}
  /\ \A th \in Thread : pc[th] \in Using => status[held[th]] # "unused"
  /\ connection # NoSession => status[connection] # "unused"
  /\ ~stopped => /\ connection = 1 /\ \A c \in Session \ {1} : status[c] = "unused"
                 /\ \A th \in Thread : pc[th] # "connecting"

\* Of two cycles at work, the one that began later saw the other.
Overlaps == \A a, b \in Busy : a # b => <<a, calls[a]>> \in overlapped

\* Nothing is known of a call before it begins.
Fresh ==
  /\ \A st \in committed \cup reported : st[2] <= calls[st[1]]
  /\ \A c \in Session : \A st \in work[c] : st[2] <= calls[st[1]]
  /\ \A id \in overlapped : id[2] <= calls[id[1]]

Solitary(th) == AtWork(th) /\ <<th, calls[th]>> \notin overlapped
Mine(th, n) == <<th, calls[th], n>>
Opened(th) == status[held[th]] = "open"

\* The statements of a solitary call, on its session and among the committed ones,
\* are those its point and its local variables say.
Progress(th) ==
  /\ pc[th] \in {"require", "connecting"} =>
       \A n \in 0..BatchSize :
         Mine(th, n) \notin committed /\ \A c \in Session : Mine(th, n) \notin work[c]
  /\ pc[th] \in {"require", "connecting"} => done[th] = 0
  /\ pc[th] \in {"transaction", "commit", "execute", "commitSingle"} =>
       \A n \in 0..BatchSize : Mine(th, n) \notin committed
  /\ pc[th] \in {"transaction", "commit"} =>
       \A n \in 0..BatchSize : Mine(th, n) \in work[held[th]] <=> Opened(th) /\ n \in 1..done[th]
  /\ pc[th] = "commit" => done[th] = BatchSize
  /\ pc[th] \in {"execute", "commitSingle"} =>
       \A n \in 0..BatchSize :
         Mine(th, n) \in work[held[th]] <=> Opened(th) /\ n = 0 /\ done[th] = 1
  /\ pc[th] = "commitSingle" => done[th] = 1
  /\ pc[th] = "execute" /\ kind[th] = "query" => done[th] = 0
  /\ pc[th] = "leave" => \A n \in 1..BatchSize : Mine(th, n) \in committed
  /\ pc[th] \in {"leave", "raise", "unwind"} =>
       \A n \in 0..BatchSize : Mine(th, n) \notin work[held[th]]

CallInv ==
  /\ TypeInv /\ Sessions /\ Overlaps /\ Fresh
  /\ \A th \in Cycler : Solitary(th) => Progress(th)
  /\ NoStrayWork /\ AloneIsAtomic /\ AloneIsDurable

-----------------------------------------------------------------------------
\* What a step of a thread may add: to a session a statement of its call, to the committed
\* ones those of its session, to the reported ones those of its call.
LEMMA Additions ==
  ASSUME TypeInv, NEW th \in Thread, Step(th)
  PROVE  /\ \A t \in Thread \ {th} : /\ pc'[t] = pc[t] /\ calls'[t] = calls[t]
                                     /\ kind'[t] = kind[t] /\ held'[t] = held[t]
                                     /\ done'[t] = done[t]
         /\ \A c \in Session : \A st \in work'[c] :
              \/ st \in work[c]
              \/ /\ th \in Cycler /\ AtWork(th) /\ held[th] = c
                 /\ \E n \in 0..BatchSize : st = Mine(th, n)
         /\ committed \subseteq committed'
         /\ \A st \in committed' : st \in committed \/ \E c \in Session : st \in work[c]
         /\ \A st \in reported' : \/ st \in reported
                                  \/ th \in Cycler /\ AtWork(th) /\ st \in StatementsOf(th)
         /\ UNCHANGED stopped
         /\ (\E call \in Call : Begin(th, call)) \/ (AtWork(th) /\ UNCHANGED <<calls, overlapped, kind>>)
<1> USE DEF attributes, server
<1>1. kind[th] # "query" => th \in Cycler
  BY DEF TypeInv, IInv, Points, Thread
<1>2. Returns(th) => /\ \A t \in Thread \ {th} : pc'[t] = pc[t]
                     /\ \A st \in reported' : st \in reported \/ (th \in Cycler /\ st \in StatementsOf(th))
  BY <1>1 DEF Returns, Goes, TypeInv, Typed
<1>3. \A p : Goes(th, p) => \A t \in Thread \ {th} : pc'[t] = pc[t]
  BY DEF Goes, TypeInv, Typed
<1>4. Raises(th) => \A t \in Thread \ {th} : pc'[t] = pc[t]
  BY <1>3 DEF Raises
<1>5. \A c : Uses(th, c) => \A t \in Thread \ {th} : pc'[t] = pc[t] /\ held'[t] = held[t]
  BY DEF Uses, Goes, TypeInv, Typed
<1>6. CASE \E call \in Call : Begin(th, call)
  BY <1>3, <1>6 DEF Begin, TypeInv, Typed
<1>7. CASE Require(th)
  BY <1>3, <1>5, <1>7 DEF Require, AtWork
<1>8. CASE Connect(th)
  BY <1>5, <1>8 DEF Connect, AtWork
<1>9. CASE Run(th)
  <2>1. pc[th] \in {"transaction", "execute"} /\ kind[th] # "query" /\ done[th] < BatchSize
    BY <1>9, ConnectorAssumption DEF Run, TypeInv, Begun, Inside, ConnectorAssumption
  <2>2. th \in Cycler /\ AtWork(th)
    BY <1>1, <2>1 DEF AtWork
  <2>3. CASE status[held[th]] = "open"
    <3> DEFINE n == IF kind[th] = "batch" THEN done[th] + 1 ELSE 0
    <3>1. /\ work' = [work EXCEPT ![held[th]] = @ \cup {Mine(th, n)}]
          /\ done' = [done EXCEPT ![th] = @ + 1]
          /\ UNCHANGED <<committed, pc, kind, calls, held, stopped, reported, overlapped>>
      BY <1>9, <2>3 DEF Run, Mine
    <3>2. n \in 0..BatchSize
      BY <2>1, ConnectorAssumption DEF TypeInv, Typed, ConnectorAssumption
    <3> HIDE DEF n
    <3>3. \A c \in Session : \A st \in work'[c] : st \in work[c] \/ (held[th] = c /\ st = Mine(th, n))
      BY <3>1 DEF TypeInv, Typed
    <3>4. \A t \in Thread \ {th} : done'[t] = done[t]
      BY <3>1 DEF TypeInv, Typed
    <3> QED
      BY <2>2, <3>1, <3>2, <3>3, <3>4
  <2>4. CASE status[held[th]] # "open"
    BY <1>4, <1>9, <2>2, <2>4 DEF Run
  <2> QED
    BY <2>3, <2>4
<1>10. CASE Query(th)
  BY <1>2, <1>10 DEF Query, AtWork
<1>11. CASE LeaveStatement(th)
  BY <1>2, <1>3, <1>11 DEF LeaveStatement, AtWork
<1>12. CASE LeaveBody(th) \/ Except(th)
  BY <1>3, <1>12 DEF LeaveBody, Except, AtWork
<1>13. CASE Commit(th) \/ CommitUnacknowledged(th)
  <2>1. AtWork(th) /\ held[th] \in Session
    BY <1>13 DEF Commit, CommitUnacknowledged, AtWork, TypeInv, Begun, Using, Inside
  <2>2. \/ UNCHANGED <<work, committed>>
        \/ /\ committed' = committed \cup work[held[th]] /\ work' = [work EXCEPT ![held[th]] = {}]
    BY <1>13 DEF Commit, CommitUnacknowledged, ServerCommits
  <2>3. \A c \in Session : work'[c] \subseteq work[c]
    BY <2>2 DEF TypeInv, Typed
  <2>4. /\ committed \subseteq committed'
        /\ \A st \in committed' : st \in committed \/ \E c \in Session : st \in work[c]
    BY <2>1, <2>2
  <2>5. /\ \A t \in Thread \ {th} : pc'[t] = pc[t]
        /\ \A st \in reported' : st \in reported \/ (th \in Cycler /\ st \in StatementsOf(th))
    BY <1>2, <1>3, <1>4, <1>13 DEF Commit, CommitUnacknowledged
  <2> QED
    BY <1>13, <2>1, <2>3, <2>4, <2>5 DEF Commit, CommitUnacknowledged
<1>14. CASE Rollback(th)
  <2>1. \A c \in Session : work'[c] \subseteq work[c]
    BY <1>14 DEF Rollback, TypeInv, Typed
  <2> QED
    BY <1>3, <1>14, <2>1 DEF Rollback, AtWork
<1>15. CASE Leave(th) \/ Unwind(th)
  BY <1>2, <1>3, <1>15 DEF Leave, Unwind, AtWork
<1>16. CASE StatementFails(th)
  BY <1>4, <1>16 DEF StatementFails, AtWork
<1> QED
  BY <1>6, <1>7, <1>8, <1>9, <1>10, <1>11, <1>12, <1>13, <1>14, <1>15, <1>16 DEF Step

\* Statements and calls keep their parts.
LEMMA StatementParts ==
  ASSUME NEW st \in Statement
  PROVE  /\ st[1] \in Cycler /\ st[2] \in 1..MaxCalls /\ st[3] \in 0..BatchSize
         /\ st = <<st[1], st[2], st[3]>>
BY DEF Statement

\* Calls are only counted up.
LEMMA CallsGrow ==
  ASSUME TypeInv, [Next]_vars, NEW t \in Thread
  PROVE  calls[t] \in Nat /\ calls'[t] \in Nat /\ calls[t] <= calls'[t]
<1>1. calls[t] \in Nat
  BY ConnectorAssumption DEF TypeInv, Typed, ConnectorAssumption
<1>2. CASE \E th \in Thread : Step(th)
  <2>1. PICK th \in Thread : Step(th)
    BY <1>2
  <2>2. CASE \E call \in Call : Begin(th, call)
    BY <1>1, <2>2 DEF Begin, TypeInv, Typed
  <2> QED
    BY <1>1, <2>1, <2>2, Additions
<1>3. CASE UNCHANGED calls
  BY <1>1, <1>3
<1> QED
  BY <1>2, <1>3 DEF Next, Stop, SessionDies, thread, vars

\* What is known is known of calls that began.
LEMMA FreshStep == TypeInv /\ Fresh /\ [Next]_vars => Fresh'
<1> SUFFICES ASSUME TypeInv, Fresh, [Next]_vars PROVE Fresh'
  OBVIOUS
<1>1. Cycler \subseteq Thread
  BY DEF Thread
<1>2. ASSUME NEW st \in Statement, st[2] <= calls[st[1]]
      PROVE  st[2] <= calls'[st[1]]
  <2>1. st[1] \in Thread /\ st[2] \in Nat
    BY <1>1, StatementParts
  <2> QED
    BY <1>2, <2>1, CallsGrow
<1>3. ASSUME NEW id \in overlapped
      PROVE  id[2] <= calls'[id[1]]
  <2>1. id[1] \in Thread /\ id[2] \in Nat /\ id[2] <= calls[id[1]]
    BY <1>1, <1>3 DEF TypeInv, Typed, Fresh
  <2> QED
    BY <2>1, CallsGrow
<1>4. CASE \E th \in Thread : Step(th)
  <2>1. PICK th \in Thread : Step(th)
    BY <1>4
  <2>2. ASSUME NEW st, th \in Cycler, AtWork(th),
               st \in StatementsOf(th) \/ \E n \in 0..BatchSize : st = Mine(th, n)
        PROVE  st[2] <= calls'[st[1]]
    <3>1. st[1] = th /\ st[2] = calls[th]
      BY <2>2 DEF StatementsOf, Mine
    <3> QED
      BY <1>1, <2>2, <3>1, CallsGrow
  <2>3. ASSUME NEW st \in committed' \cup reported'
        PROVE  st[2] <= calls'[st[1]]
    <3>1. st \in committed \cup reported \/ (\E c \in Session : st \in work[c])
          \/ (th \in Cycler /\ AtWork(th) /\ st \in StatementsOf(th))
      BY <2>1, <2>3, Additions
    <3>2. ASSUME st \in Statement, st[2] <= calls[st[1]] PROVE st[2] <= calls'[st[1]]
      BY <1>2, <3>2
    <3> QED
      BY <2>2, <3>1, <3>2 DEF TypeInv, Typed, Fresh
  <2>4. ASSUME NEW c \in Session, NEW st \in work'[c]
        PROVE  st[2] <= calls'[st[1]]
    <3>1. st \in work[c] \/ (th \in Cycler /\ AtWork(th) /\ \E n \in 0..BatchSize : st = Mine(th, n))
      BY <2>1, <2>4, Additions
    <3>2. CASE st \in work[c]
      BY <1>2, <3>2 DEF TypeInv, Typed, Fresh
    <3> QED
      BY <2>2, <3>1, <3>2
  <2>5. ASSUME NEW id \in overlapped'
        PROVE  id[2] <= calls'[id[1]]
    <3>1. CASE \E call \in Call : Begin(th, call)
      <4>1. \/ id \in overlapped
            \/ \E b \in Busy : id = <<b, calls[b]>>
            \/ id = <<th, calls'[th]>>
        BY <2>5, <3>1 DEF Begin
      <4>2. CASE \E b \in Busy : id = <<b, calls[b]>>
        BY <1>1, <4>2, CallsGrow DEF Busy
      <4>3. CASE id = <<th, calls'[th]>>
        BY <4>3, CallsGrow
      <4> QED
        BY <1>3, <4>1, <4>2, <4>3
    <3> QED
      BY <1>3, <2>1, <2>5, <3>1, Additions
  <2> QED
    BY <2>3, <2>4, <2>5 DEF Fresh
<1>5. CASE /\ UNCHANGED <<committed, reported, overlapped>>
           /\ \A c \in Session : work'[c] \subseteq work[c]
  <2>1. ASSUME NEW st \in Statement, st[2] <= calls[st[1]]
        PROVE  st[2] <= calls'[st[1]]
    BY <1>2, <2>1
  <2> QED
    BY <1>3, <1>5, <2>1 DEF TypeInv, Typed, Fresh
<1>6. CASE Stop
  BY <1>5, <1>6 DEF Stop, TypeInv, Typed
<1>7. CASE \E c \in Session : SessionDies(c)
  BY <1>5, <1>7 DEF SessionDies, TypeInv, Typed
<1>8. CASE UNCHANGED vars
  BY <1>5, <1>8 DEF vars, server
<1> QED
  BY <1>4, <1>6, <1>7, <1>8 DEF Next

\* A cycle that begins while others are at work overlaps with all of them.
LEMMA OverlapsStep == TypeInv /\ Overlaps /\ [Next]_vars => Overlaps'
<1> SUFFICES ASSUME TypeInv, Overlaps, [Next]_vars,
                    NEW a \in Busy', NEW b \in Busy', a # b
             PROVE  <<a, calls'[a]>> \in overlapped'
  BY DEF Overlaps
<1>1. Cycler \subseteq Thread /\ a \in Cycler /\ b \in Cycler
  BY DEF Thread, Busy
<1>2. CASE a \in Busy /\ b \in Busy /\ calls'[a] = calls[a] /\ overlapped \subseteq overlapped'
  BY <1>2 DEF Overlaps
<1>3. CASE \E th \in Thread : Step(th)
  <2>1. PICK th \in Thread : Step(th)
    BY <1>3
  <2>2. CASE \E call \in Call : Begin(th, call)
    <3>1. PICK call \in Call : Begin(th, call)
      BY <2>2
    <3>2. /\ pc[th] = "out" /\ th \notin Busy
          /\ overlapped' = IF th \in Cycler /\ Busy # {}
                   THEN overlapped \cup {<<x, calls[x]>> : x \in Busy} \cup {<<th, calls'[th]>>}
                   ELSE overlapped
      BY <3>1 DEF Begin, Busy
    <3>3. \A t \in Cycler \ {th} : (t \in Busy <=> t \in Busy') /\ calls'[t] = calls[t]
      BY <1>1, <2>1, Additions DEF Busy
    <3> QED
      BY <1>1, <1>2, <3>2, <3>3
  <2>3. CASE AtWork(th) /\ UNCHANGED <<calls, overlapped>>
    <3>1. \A t \in Cycler : t \in Busy' => t \in Busy
      BY <1>1, <2>1, <2>3, Additions DEF Busy, AtWork
    <3> QED
      BY <1>1, <1>2, <2>3, <3>1
  <2> QED
    BY <2>1, <2>2, <2>3, Additions
<1>4. CASE Stop
  <2>1. \A t \in Cycler : t \in Busy' => t \in Busy
    BY <1>1, <1>4 DEF Stop, Busy, Inside
  <2> QED
    BY <1>1, <1>2, <1>4, <2>1 DEF Stop
<1>5. CASE UNCHANGED <<pc, calls, overlapped>>
  BY <1>2, <1>5 DEF Busy
<1> QED
  BY <1>3, <1>4, <1>5 DEF Next, SessionDies, thread, vars

\* Sessions are opened by connect(), and lose their work with their life.
LEMMA SessionsStep == TypeInv /\ Sessions /\ [Next]_vars => Sessions'
<1> SUFFICES ASSUME TypeInv, Sessions, [Next]_vars PROVE Sessions'
  OBVIOUS
<1> USE DEF attributes, server
<1>1. ASSUME NEW th \in Thread, Step(th)
      PROVE  Sessions'
  <2>1. CASE Require(th)
    <3>1. UNCHANGED <<connection, status, work, stopped>> /\ pc[th] = "require"
      BY <2>1 DEF Require
    <3>2. /\ connection = NoSession => pc' = [pc EXCEPT ![th] = "connecting"] /\ UNCHANGED held
          /\ connection # NoSession =>
               /\ held' = [held EXCEPT ![th] = connection]
               /\ \E p \in {"transaction", "execute"} : pc' = [pc EXCEPT ![th] = p]
      BY <2>1 DEF Require, Uses, Goes
    <3>3. ~stopped => connection = 1 /\ connection # NoSession
      BY DEF Sessions, NoSession
    <3> QED
      BY <3>1, <3>2, <3>3 DEF Sessions, TypeInv, Typed, Using, Inside
  <2>2. CASE Connect(th)
    <3>1. PICK c \in Session : /\ status[c] = "unused" /\ status' = [status EXCEPT ![c] = "open"]
                               /\ connection' = c /\ Uses(th, c)
      BY <2>2 DEF Connect
    <3>2. UNCHANGED <<work, stopped>> /\ pc[th] = "connecting" /\ stopped
      BY <2>2 DEF Connect, Sessions
    <3>3. /\ held' = [held EXCEPT ![th] = c]
          /\ \E p \in {"transaction", "execute"} : pc' = [pc EXCEPT ![th] = p]
      BY <3>1 DEF Uses, Goes
    <3>4. \A s \in Session : status'[s] # "unused" <=> status[s] # "unused" \/ s = c
      BY <3>1 DEF TypeInv, Typed
    <3>5. \A t \in Thread : pc'[t] \in Using => status'[held'[t]] # "unused"
      BY <3>3, <3>4, <3>1 DEF Sessions, TypeInv, Typed, Begun
    <3>6. \A s \in Session : status'[s] # "open" => work'[s] = {}
      BY <3>1, <3>2 DEF Sessions, TypeInv, Typed
    <3> QED
      BY <3>1, <3>2, <3>4, <3>5, <3>6 DEF Sessions
  <2>3. CASE Run(th)
    <3>1. /\ UNCHANGED <<connection, status, held, stopped>>
          /\ \E p : pc' = pc \/ (pc' = [pc EXCEPT ![th] = p] /\ p \in {"except", "out"} /\ pc[th] \in Using)
      BY <2>3 DEF Run, Raises, Goes, Using, Inside
    <3>2. \A c \in Session : status[c] # "open" => work'[c] = {}
      <4>1. CASE status[held[th]] = "open"
        BY <2>3, <4>1 DEF Run, Sessions, TypeInv, Typed
      <4>2. CASE status[held[th]] # "open"
        BY <2>3, <4>2 DEF Run, Sessions
      <4> QED
        BY <4>1, <4>2
    <3> QED
      BY <3>1, <3>2 DEF Sessions, TypeInv, Typed, Using, Inside
  <2>4. CASE CommitUnacknowledged(th)
    <3>1. /\ UNCHANGED <<connection, held, stopped>> /\ held[th] \in Session
          /\ status' = [status EXCEPT ![held[th]] = "dead"] /\ work' = [work EXCEPT ![held[th]] = {}]
          /\ \E p \in {"except", "out"} : pc' = [pc EXCEPT ![th] = p]
          /\ pc[th] \in Using /\ status[held[th]] = "open"
      BY <2>4 DEF CommitUnacknowledged, ServerCommits, Raises, Goes, TypeInv, Begun, Using, Inside
    <3>2. \A t \in Thread : pc'[t] \in Using => pc[t] \in Using
      BY <3>1 DEF TypeInv, Typed
    <3>3. \A c \in Session : /\ status'[c] # "open" => work'[c] = {}
                             /\ status'[c] = "unused" <=> status[c] = "unused"
      BY <3>1 DEF Sessions, TypeInv, Typed
    <3>4. \A t \in Thread : pc'[t] \in Using => status'[held'[t]] # "unused"
      BY <3>1, <3>2, <3>3 DEF Sessions, TypeInv, Begun
    <3>5. \A t \in Thread : pc'[t] = "connecting" => pc[t] = "connecting"
      BY <3>1 DEF TypeInv, Typed
    <3> QED
      BY <3>1, <3>3, <3>4, <3>5 DEF Sessions, TypeInv, Typed
  <2>5. CASE /\ UNCHANGED <<connection, status, held, stopped>>
             /\ \A c \in Session : work'[c] \subseteq work[c]
             /\ \E p \in Point \ {"connecting"} : /\ pc' = [pc EXCEPT ![th] = p]
                                                  /\ p \in Using => pc[th] \in Using
    BY <2>5 DEF Sessions, TypeInv, Typed
  <2>6. CASE \E call \in Call : Begin(th, call)
    BY <2>5, <2>6 DEF Begin, Goes, Point, Using, Inside
  <2>7. CASE Query(th) \/ LeaveStatement(th)
    BY <2>5, <2>7 DEF Query, LeaveStatement, Returns, Goes, Point, Using, Inside
  <2>8. CASE LeaveBody(th) \/ Except(th)
    BY <2>5, <2>8 DEF LeaveBody, Except, Goes, Point, Using, Inside
  <2>9. CASE Commit(th)
    <3>1. \A c \in Session : work'[c] \subseteq work[c]
      BY <2>9 DEF Commit, ServerCommits, TypeInv, Typed
    <3> QED
      BY <2>5, <2>9, <3>1 DEF Commit, Returns, Raises, Goes, Point, Using, Inside
  <2>10. CASE Rollback(th)
    <3>1. \A c \in Session : work'[c] \subseteq work[c]
      BY <2>10 DEF Rollback, TypeInv, Typed
    <3> QED
      BY <2>5, <2>10, <3>1 DEF Rollback, Goes, Point, Using, Inside
  <2>11. CASE Leave(th) \/ Unwind(th)
    BY <2>5, <2>11 DEF Leave, Unwind, Returns, Goes, Point, Using, Inside
  <2>12. CASE StatementFails(th)
    <3>1. UNCHANGED <<connection, status, work, held, stopped>> /\ Raises(th)
      BY <2>12 DEF StatementFails
    <3>2. \E p \in {"except", "out"} : /\ pc' = [pc EXCEPT ![th] = p]
                                       /\ p = "except" => pc[th] \in Using
      BY <3>1 DEF Raises, Goes, Using
    <3> QED
      BY <2>5, <3>1, <3>2 DEF Point, Using, Inside
  <2> QED
    BY <1>1, <2>1, <2>2, <2>3, <2>4, <2>6, <2>7, <2>8, <2>9, <2>10, <2>11, <2>12 DEF Step
<1>2. CASE Stop
  <2>1. /\ connection' = NoSession /\ stopped' = TRUE /\ UNCHANGED held
        /\ status' = [c \in Session |-> IF c = connection THEN "closed" ELSE status[c]]
        /\ work' = [c \in Session |-> IF c = connection THEN {} ELSE work[c]]
        /\ \A t \in Thread : pc'[t] \in Using => pc[t] \in Using
    BY <1>2 DEF Stop, Using, Inside
  <2>2. \A c \in Session : status'[c] = "unused" => status[c] = "unused"
    BY <2>1
  <2> QED
    BY <2>1, <2>2 DEF Sessions, TypeInv, Typed, Begun
<1>3. CASE \E c \in Session : SessionDies(c)
  <2>1. PICK c \in Session : SessionDies(c)
    BY <1>3
  <2>2. /\ status[c] = "open" /\ status' = [status EXCEPT ![c] = "dead"]
        /\ work' = [work EXCEPT ![c] = {}] /\ UNCHANGED <<connection, pc, held, stopped>>
    BY <2>1 DEF SessionDies, thread
  <2>3. \A s \in Session : /\ status'[s] = "unused" <=> status[s] = "unused"
                           /\ status'[s] # "open" => work'[s] = {}
    BY <2>2 DEF Sessions, TypeInv, Typed
  <2> QED
    BY <2>2, <2>3 DEF Sessions, TypeInv, Typed, Begun
<1>4. CASE UNCHANGED vars
  BY <1>4 DEF vars, thread, Sessions
<1> QED
  BY <1>1, <1>2, <1>3, <1>4 DEF Next

\* The depth around a solitary call is its own.
LEMMA SolitaryDepth ==
  ASSUME TypeInv, Overlaps, NEW th \in Cycler, Solitary(th)
  PROVE  depth = IF pc[th] \in Inside THEN 1 ELSE 0
<1>1. \A t \in InsideOnes : t \in Busy
  BY DEF InsideOnes, Busy, Inside
<1>2. th \in Busy /\ \A t \in Busy : t = th
  BY DEF Overlaps, Solitary, AtWork, Busy
<1>3. InsideOnes = IF pc[th] \in Inside THEN {th} ELSE {}
  BY <1>1, <1>2 DEF InsideOnes
<1>4. Cardinality({}) = 0 /\ Cardinality({th}) = 1
  BY FS_EmptySet, FS_Singleton
<1> QED
  BY <1>3, <1>4 DEF TypeInv, IInv, DepthCounts, InsideOnes

\* While a cycle is at work, the uncommitted statements of calls without overlap are its
\* own, on its session.
LEMMA AloneIsMine ==
  ASSUME TypeInv, Overlaps, NoStrayWork, NEW th \in Cycler, AtWork(th),
         NEW c \in Session, NEW st \in work[c], Alone(st)
  PROVE  /\ st = Mine(th, st[3]) /\ st[3] \in 0..BatchSize
         /\ held[th] = c /\ Solitary(th)
<1>1. /\ st[1] \in Cycler /\ st[3] \in 0..BatchSize
      /\ st = <<st[1], st[2], st[3]>>
  BY StatementParts DEF TypeInv, Typed
<1>2. pc[st[1]] \notin {"out", "gone"} /\ calls[st[1]] = st[2] /\ held[st[1]] = c
  BY DEF NoStrayWork
<1>3. st[1] = th
  BY <1>1, <1>2 DEF Overlaps, Busy, AtWork, Alone
<1> QED
  BY <1>1, <1>2, <1>3 DEF Mine, Solitary, Alone

\* After a step of a cycle no other one is solitary.
LEMMA OnlyOne ==
  ASSUME TypeInv, Overlaps, NEW th \in Cycler, Step(th), NEW t \in Cycler, t # th
  PROVE  ~Solitary(t)'
<1> SUFFICES ASSUME Solitary(t)' PROVE FALSE
  OBVIOUS
<1>1. Cycler \subseteq Thread
  BY DEF Thread
<1>2. AtWork(t) /\ calls'[t] = calls[t]
  BY <1>1, Additions DEF Solitary, AtWork
<1>3. CASE \E call \in Call : Begin(th, call)
  <2>1. <<t, calls[t]>> \in overlapped'
    BY <1>2, <1>3 DEF Begin, Busy, AtWork
  <2> QED
    BY <1>2, <2>1 DEF Solitary
<1>4. CASE AtWork(th) /\ UNCHANGED overlapped
  BY <1>2, <1>4 DEF Overlaps, Busy, Solitary, AtWork
<1> QED
  BY <1>1, <1>3, <1>4, Additions

-----------------------------------------------------------------------------
(***************************************************************************)
(* The steps of a solitary call.                                           *)
(***************************************************************************)

\* What each step establishes: Progress while the call is at work, nothing uncommitted
\* once it is not, all of a batch or none of it, and what it reports is committed.
CallDone(th) ==
  /\ AtWork(th)' => Progress(th)'
  /\ \A c \in Session : \A n \in 0..BatchSize :
       Mine(th, n) \in work'[c] => AtWork(th)' /\ held'[th] = c
  /\ {k \in 1..BatchSize : Mine(th, k) \in committed'} \in {{}, 1..BatchSize}
  /\ \A st \in reported' : st \in reported \/ st \in committed'

\* What is known of a solitary call at a step that begins no call.
SolitaryCall(th) ==
  /\ CallInv /\ TypeInv' /\ Solitary(th) /\ Progress(th)
  /\ calls'[th] = calls[th]

\* What is known of a solitary call at work.
LEMMA CallFacts ==
  ASSUME NEW th \in Cycler, SolitaryCall(th)
  PROVE  /\ th \in Thread /\ calls[th] \in 1..MaxCalls /\ BatchSize \in Nat \ {0}
         /\ pc \in [Thread -> Point] /\ held \in [Thread -> Session \cup {NoSession}]
         /\ done \in [Thread -> 0..BatchSize] /\ work \in [Session -> SUBSET Statement]
         /\ status \in [Session -> {"unused", "open", "dead", "closed"}]
         /\ \A c \in Session : \A n \in 0..BatchSize : Mine(th, n) \in work[c] => held[th] = c
         /\ {k \in 1..BatchSize : Mine(th, k) \in committed} \in {{}, 1..BatchSize}
         /\ \A n : Mine(th, n)' = Mine(th, n)
<1>1. /\ th \in Thread /\ calls[th] \in 1..MaxCalls /\ BatchSize \in Nat \ {0}
  BY ConnectorAssumption DEF SolitaryCall, CallInv, TypeInv, Typed, Begun, Solitary, Thread
<1>2. \A c \in Session : \A n \in 0..BatchSize : Mine(th, n) \in work[c] => held[th] = c
  BY DEF SolitaryCall, CallInv, NoStrayWork, Alone, Mine, Solitary
<1>3. {k \in 1..BatchSize : Mine(th, k) \in committed} \in {{}, 1..BatchSize}
  BY <1>1 DEF SolitaryCall, CallInv, AloneIsAtomic, Places, Mine, Solitary
<1> QED
  BY <1>1, <1>2, <1>3 DEF SolitaryCall, CallInv, TypeInv, Typed, Mine

\* A step that leaves the server alone: the call only moves on.
LEMMA MovesOn ==
  ASSUME NEW th \in Cycler, SolitaryCall(th), UNCHANGED <<work, committed>>,
         AtWork(th)' => Progress(th)' /\ held'[th] = held[th],
         ~AtWork(th)' => \A c \in Session : \A n \in 0..BatchSize : Mine(th, n) \notin work[c],
         \A st \in reported' : st \in reported \/ st \in committed
  PROVE  CallDone(th)
<1>1. /\ \A c \in Session : \A n \in 0..BatchSize : Mine(th, n) \in work[c] => held[th] = c
      /\ {k \in 1..BatchSize : Mine(th, k) \in committed} \in {{}, 1..BatchSize}
  BY CallFacts
<1> QED
  BY <1>1 DEF CallDone

\* _require_connection: nothing is written before the call has its connection.
LEMMA TakesConnection ==
  ASSUME NEW th \in Cycler, SolitaryCall(th), Require(th) \/ Connect(th)
  PROVE  CallDone(th)
<1> USE DEF server
<1>1. /\ pc[th] \in {"require", "connecting"} /\ UNCHANGED <<work, committed, done, reported, kind, calls>>
      /\ \E p \in {"connecting", "transaction", "execute"} : pc' = [pc EXCEPT ![th] = p]
  BY DEF Require, Connect, Uses, Goes
<1>2. \A n \in 0..BatchSize : /\ Mine(th, n) \notin committed
                              /\ \A c \in Session : Mine(th, n) \notin work[c]
  BY <1>1 DEF SolitaryCall, Progress
<1>3. done[th] = 0
  BY <1>1 DEF SolitaryCall, Progress
<1>4. pc'[th] \in {"connecting", "transaction", "execute"} /\ th \in Thread
  BY <1>1, CallFacts
<1>5. pc'[th] # "connecting" => held'[th] \in Session
  BY <1>4 DEF SolitaryCall, TypeInv, Begun, Using, Inside
<1>6. \A n : Mine(th, n)' = Mine(th, n)
  BY CallFacts
<1>7. BatchSize \in Nat \ {0} /\ 1..0 = {}
  BY CallFacts
<1>8. Progress(th)'
  BY <1>1, <1>2, <1>3, <1>4, <1>5, <1>6, <1>7 DEF Progress
<1>9. {k \in 1..BatchSize : Mine(th, k) \in committed} \in {{}, 1..BatchSize}
  BY CallFacts
<1> QED
  BY <1>1, <1>2, <1>8, <1>9 DEF CallDone

\* What Progress says of the work of the session a solitary call uses, elsewhere it has none.
LEMMA NothingLeft ==
  ASSUME NEW th \in Cycler, SolitaryCall(th),
         \/ pc[th] \in {"leave", "raise", "unwind", "connecting"}
         \/ pc[th] \in {"execute", "commitSingle"} /\ (done[th] = 0 \/ ~Opened(th))
  PROVE  \A c \in Session : \A n \in 0..BatchSize : Mine(th, n) \notin work[c]
<1>1. \A c \in Session : \A n \in 0..BatchSize : Mine(th, n) \in work[c] => held[th] = c
  BY CallFacts
<1>2. CASE pc[th] = "connecting"
  BY <1>2 DEF SolitaryCall, Progress
<1>3. CASE pc[th] \in {"leave", "raise", "unwind"}
  BY <1>1, <1>3 DEF SolitaryCall, Progress
<1>4. CASE pc[th] \in {"execute", "commitSingle"} /\ (done[th] = 0 \/ ~Opened(th))
  BY <1>1, <1>4 DEF SolitaryCall, Progress
<1> QED
  BY <1>2, <1>3, <1>4

\* A query, and a statement that failed or found no server, leave nothing behind.
LEMMA EndsEmpty ==
  ASSUME NEW th \in Cycler, SolitaryCall(th),
         \/ Query(th) \/ Unwind(th)
         \/ StatementFails(th) /\ pc[th] # "transaction"
  PROVE  CallDone(th)
<1> USE DEF server
<1>1. /\ UNCHANGED <<work, committed>>
      /\ \E p \in {"out", "gone"} : pc' = [pc EXCEPT ![th] = p]
      /\ UNCHANGED reported
  BY DEF Query, Unwind, StatementFails, Returns, Raises, Goes, Inside
<1>2. \/ pc[th] \in {"unwind", "connecting"}
      \/ pc[th] = "execute" /\ (kind[th] = "query" \/ done[th] = 0)
  BY DEF Query, Unwind, StatementFails
<1>3. pc[th] = "execute" /\ kind[th] = "query" => done[th] = 0
  BY DEF SolitaryCall, Progress
<1>4. \A c \in Session : \A n \in 0..BatchSize : Mine(th, n) \notin work[c]
  BY <1>2, <1>3, NothingLeft
<1>5. ~AtWork(th)'
  BY <1>1, CallFacts DEF AtWork
<1> QED
  BY <1>1, <1>4, <1>5, MovesOn

\* Inside a transaction the call goes on to its next point.
LEMMA WithinTransaction ==
  ASSUME NEW th \in Cycler, SolitaryCall(th),
         \/ LeaveBody(th) \/ Except(th)
         \/ StatementFails(th) /\ pc[th] = "transaction"
  PROVE  CallDone(th)
<1> USE DEF attributes, server
<1>1. UNCHANGED <<work, committed, reported, status, calls, held, done, kind>>
  BY DEF LeaveBody, Except, StatementFails
<1>2. depth = 1
  <2>1. pc[th] \in Inside
    BY DEF LeaveBody, Except, StatementFails, Inside
  <2> QED
    BY <2>1, SolitaryDepth DEF SolitaryCall, CallInv
<1>3. \/ pc[th] = "transaction" /\ done[th] = BatchSize /\ pc' = [pc EXCEPT ![th] = "commit"]
      \/ \E p \in {"except", "rollback"} : pc' = [pc EXCEPT ![th] = p]
  BY <1>2 DEF LeaveBody, Except, StatementFails, Raises, Goes, Inside
<1>4. \A n : Mine(th, n)' = Mine(th, n)
  BY CallFacts
<1>5. CASE pc[th] = "transaction" /\ done[th] = BatchSize /\ pc' = [pc EXCEPT ![th] = "commit"]
  <2>1. pc'[th] = "commit"
    BY <1>5, CallFacts
  <2>2. Progress(th)'
    BY <1>1, <1>4, <1>5, <2>1 DEF SolitaryCall, Progress, Opened
  <2> QED
    BY <1>1, <2>1, <2>2, MovesOn DEF AtWork
<1>6. CASE \E p \in {"except", "rollback"} : pc' = [pc EXCEPT ![th] = p]
  <2>1. pc'[th] \in {"except", "rollback"}
    BY <1>6, CallFacts
  <2>2. Progress(th)'
    BY <2>1 DEF Progress
  <2> QED
    BY <1>1, <2>1, <2>2, MovesOn DEF AtWork
<1> QED
  BY <1>3, <1>5, <1>6

\* execute_non_query of a solitary call always commits: the depth is 0.
LEMMA SingleCommits ==
  ASSUME NEW th \in Cycler, SolitaryCall(th), LeaveStatement(th)
  PROVE  CallDone(th)
<1> USE DEF attributes, server
<1>1. /\ UNCHANGED <<work, committed, status, calls, held, done, kind>>
      /\ pc[th] = "execute" /\ done[th] = 1
  BY DEF LeaveStatement
<1>2. depth = 0
  BY <1>1, SolitaryDepth DEF SolitaryCall, CallInv, Inside
<1>3. pc'[th] = "commitSingle" /\ UNCHANGED reported
  BY <1>2, CallFacts DEF LeaveStatement, Goes
<1>4. \A n : Mine(th, n)' = Mine(th, n)
  BY CallFacts
<1>5. Progress(th)'
  BY <1>1, <1>3, <1>4 DEF SolitaryCall, Progress, Opened
<1> QED
  BY <1>1, <1>3, <1>5, MovesOn DEF AtWork

\* The finally clause: what is reported was committed, what was not is rolled back.
LEMMA LeavesEmpty ==
  ASSUME NEW th \in Cycler, SolitaryCall(th), Leave(th)
  PROVE  CallDone(th)
<1> USE DEF server
<1>1. /\ UNCHANGED <<work, committed>> /\ pc[th] \in {"leave", "raise"}
      /\ pc' = [pc EXCEPT ![th] = "out"]
  BY DEF Leave, Returns, Goes
<1>2. \A c \in Session : \A n \in 0..BatchSize : Mine(th, n) \notin work[c]
  BY <1>1, NothingLeft
<1>3. \A st \in reported' : st \in reported \/ st \in committed
  <2>1. CASE pc[th] = "leave"
    <3>1. kind[th] = "batch"
      BY <2>1, CallFacts DEF SolitaryCall, CallInv, TypeInv, Begun, Inside
    <3>2. \A st \in StatementsOf(th) : st \in committed
      BY <2>1, <3>1 DEF SolitaryCall, Progress, StatementsOf, Mine
    <3> QED
      BY <2>1, <3>2 DEF Leave, Returns
  <2>2. CASE pc[th] = "raise"
    BY <2>2 DEF Leave
  <2> QED
    BY <1>1, <2>1, <2>2
<1>4. ~AtWork(th)'
  BY <1>1, CallFacts DEF AtWork
<1> QED
  BY <1>1, <1>2, <1>3, <1>4, MovesOn

\* A statement: the next one of the batch is on the session, or the session is not open
\* and the call raises.
LEMMA RunsNext ==
  ASSUME NEW th \in Cycler, SolitaryCall(th), Run(th)
  PROVE  CallDone(th)
<1> USE DEF attributes
<1>1. UNCHANGED <<committed, reported, status, calls, held, kind>>
  BY DEF Run
<1>2. \A n : Mine(th, n)' = Mine(th, n)
  BY CallFacts
<1>3. \/ pc[th] = "transaction" /\ kind[th] = "batch" /\ done[th] < BatchSize
      \/ pc[th] = "execute" /\ kind[th] = "single" /\ done[th] = 0
  BY CallFacts DEF Run, SolitaryCall, CallInv, TypeInv, Begun, Inside
<1>4. /\ held[th] \in Session /\ th \in Thread /\ work \in [Session -> SUBSET Statement]
      /\ BatchSize \in Nat \ {0} /\ done[th] \in 0..BatchSize /\ done \in [Thread -> 0..BatchSize]
  BY <1>3, CallFacts DEF SolitaryCall, CallInv, TypeInv, Begun, Using, Inside
<1>5. \A c \in Session : \A n \in 0..BatchSize : Mine(th, n) \in work[c] => held[th] = c
  BY CallFacts
<1>6. CASE Opened(th)
  <2> DEFINE m == IF kind[th] = "batch" THEN done[th] + 1 ELSE 0
  <2>1. /\ work' = [work EXCEPT ![held[th]] = @ \cup {Mine(th, m)}]
        /\ done' = [done EXCEPT ![th] = @ + 1] /\ UNCHANGED pc
    BY <1>6 DEF Run, Opened, Mine
  <2>2. /\ pc[th] = "transaction" => m = done[th] + 1
        /\ pc[th] = "execute" => m = 0 /\ done[th] = 0
    BY <1>3
  <2> HIDE DEF m
  <2>3. \A n \in 0..BatchSize :
          Mine(th, n) \in work'[held[th]] <=> Mine(th, n) \in work[held[th]] \/ n = m
    BY <1>4, <2>1 DEF Mine
  <2>4. done'[th] = done[th] + 1 /\ Opened(th)'
    BY <1>1, <1>4, <1>6, <2>1 DEF Opened
  <2>5. \A n \in 0..BatchSize : Mine(th, n) \notin committed
    BY <1>3 DEF SolitaryCall, Progress
  <2>6. ASSUME pc[th] = "transaction"
        PROVE  Progress(th)'
    <3>1. \A n \in 0..BatchSize : Mine(th, n) \in work[held[th]] <=> n \in 1..done[th]
      BY <1>6, <2>6 DEF SolitaryCall, Progress
    <3>2. \A n \in 0..BatchSize : n \in 1..done[th] \/ n = m <=> n \in 1..done'[th]
      BY <1>4, <2>2, <2>4, <2>6
    <3>3. \A n \in 0..BatchSize : Mine(th, n) \in work'[held'[th]] <=> n \in 1..done'[th]
      BY <1>1, <2>3, <3>1, <3>2
    <3> QED
      BY <1>1, <1>2, <2>1, <2>4, <2>5, <2>6, <3>3 DEF Progress
  <2>7. ASSUME pc[th] = "execute"
        PROVE  Progress(th)'
    <3>1. \A n \in 0..BatchSize : Mine(th, n) \notin work[held[th]]
      BY <2>2, <2>7 DEF SolitaryCall, Progress
    <3>2. \A n \in 0..BatchSize : Mine(th, n) \in work'[held'[th]] <=> n = 0
      BY <1>1, <2>2, <2>3, <2>7, <3>1
    <3>3. kind[th] = "single" /\ done'[th] = 1
      BY <1>3, <2>2, <2>4, <2>7
    <3> QED
      BY <1>1, <1>2, <2>1, <2>4, <2>5, <2>7, <3>2, <3>3 DEF Progress
  <2>8. Progress(th)'
    BY <1>3, <2>6, <2>7
  <2>9. \A c \in Session : \A n \in 0..BatchSize : Mine(th, n) \in work'[c] => held[th] = c
    BY <1>4, <1>5, <2>1
  <2>10. {k \in 1..BatchSize : Mine(th, k) \in committed} \in {{}, 1..BatchSize}
    BY CallFacts
  <2>11. AtWork(th)'
    BY <1>3, <2>1 DEF AtWork
  <2> QED
    BY <1>1, <2>8, <2>9, <2>10, <2>11 DEF CallDone
<1>7. CASE ~Opened(th)
  <2>1. UNCHANGED <<work, done>> /\ Raises(th)
    BY <1>7 DEF Run, Opened
  <2>2. CASE pc[th] = "transaction"
    <3>1. pc'[th] = "except"
      BY <2>1, <2>2, CallFacts DEF Raises, Goes, Inside
    <3> QED
      BY <1>1, <2>1, <3>1, MovesOn DEF Progress, AtWork
  <2>3. CASE pc[th] = "execute"
    <3>1. pc'[th] = "out"
      BY <2>1, <2>3, CallFacts DEF Raises, Goes, Inside
    <3>2. \A c \in Session : \A n \in 0..BatchSize : Mine(th, n) \notin work[c]
      BY <1>7, <2>3, NothingLeft
    <3> QED
      BY <1>1, <2>1, <3>1, <3>2, MovesOn DEF AtWork
  <2> QED
    BY <1>3, <2>2, <2>3
<1> QED
  BY <1>6, <1>7

\* What the server commits of a solitary call is all of its batch, or its statement.
LEMMA CommitsAll ==
  ASSUME NEW th \in Cycler, SolitaryCall(th), pc[th] \in {"commit", "commitSingle"},
         ServerCommits(held[th])
  PROVE  /\ \A c \in Session : \A n \in 0..BatchSize : Mine(th, n) \notin work'[c]
         /\ pc[th] = "commit" => \A n \in 1..BatchSize : Mine(th, n) \in committed'
         /\ {k \in 1..BatchSize : Mine(th, k) \in committed'} \in {{}, 1..BatchSize}
         /\ pc[th] = "commitSingle" => StatementsOf(th) \subseteq committed'
         /\ committed \subseteq committed'
<1>1. /\ Opened(th) /\ committed' = committed \cup work[held[th]]
      /\ work' = [work EXCEPT ![held[th]] = {}]
  BY DEF ServerCommits, Opened
<1>2. /\ held[th] \in Session /\ work \in [Session -> SUBSET Statement]
      /\ BatchSize \in Nat \ {0}
  BY CallFacts DEF SolitaryCall, CallInv, TypeInv, Begun, Using, Inside
<1>3. \A c \in Session : \A n \in 0..BatchSize : Mine(th, n) \notin work'[c]
  <2>1. \A c \in Session : \A n \in 0..BatchSize : Mine(th, n) \in work[c] => held[th] = c
    BY CallFacts
  <2> QED
    BY <1>1, <1>2, <2>1
<1>4. \A n \in 0..BatchSize : Mine(th, n) \notin committed
  BY DEF SolitaryCall, Progress
<1>5. CASE pc[th] = "commit"
  <2>1. \A n \in 0..BatchSize : Mine(th, n) \in work[held[th]] <=> n \in 1..BatchSize
    BY <1>1, <1>5 DEF SolitaryCall, Progress
  <2>2. \A n \in 1..BatchSize : Mine(th, n) \in committed'
    BY <1>1, <1>2, <2>1
  <2>3. {k \in 1..BatchSize : Mine(th, k) \in committed'} = 1..BatchSize
    BY <2>2
  <2> QED
    BY <1>1, <1>3, <1>5, <2>2, <2>3
<1>6. CASE pc[th] = "commitSingle"
  <2>1. \A n \in 0..BatchSize : Mine(th, n) \in work[held[th]] <=> n = 0
    BY <1>1, <1>6 DEF SolitaryCall, Progress
  <2>2. \A n \in 1..BatchSize : Mine(th, n) \notin committed'
    BY <1>1, <1>2, <1>4, <2>1
  <2>3. {k \in 1..BatchSize : Mine(th, k) \in committed'} = {}
    BY <2>2
  <2>4. kind[th] = "single" /\ 0 \in 0..BatchSize
    BY <1>2, <1>6, CallFacts DEF SolitaryCall, CallInv, TypeInv, Begun
  <2>5. StatementsOf(th) = {Mine(th, 0)} /\ Mine(th, 0) \in committed'
    BY <1>1, <2>1, <2>4 DEF StatementsOf, Mine
  <2> QED
    BY <1>1, <1>3, <1>6, <2>3, <2>5
<1> QED
  BY <1>5, <1>6

\* The commit: acknowledged, refused by a session that is not open, or unacknowledged.
LEMMA Commits ==
  ASSUME NEW th \in Cycler, SolitaryCall(th), Commit(th) \/ CommitUnacknowledged(th)
  PROVE  CallDone(th)
<1>1. /\ pc[th] \in {"commit", "commitSingle"} /\ UNCHANGED <<calls, held, done, kind>>
      /\ th \in Thread /\ pc \in [Thread -> Point] /\ \A n : Mine(th, n)' = Mine(th, n)
      /\ BatchSize \in Nat \ {0} /\ held[th] \in Session
  BY CallFacts DEF Commit, CommitUnacknowledged, SolitaryCall, CallInv, TypeInv, Begun, Using, Inside
<1>2. CASE ServerCommits(held[th])
  <2>1. /\ \A c \in Session : \A n \in 0..BatchSize : Mine(th, n) \notin work'[c]
        /\ pc[th] = "commit" => \A n \in 1..BatchSize : Mine(th, n) \in committed'
        /\ {k \in 1..BatchSize : Mine(th, k) \in committed'} \in {{}, 1..BatchSize}
        /\ pc[th] = "commitSingle" => StatementsOf(th) \subseteq committed'
        /\ committed \subseteq committed'
    BY <1>1, <1>2, CommitsAll
  <2>2. /\ pc[th] = "commit" => pc'[th] \in {"leave", "except"} /\ reported' = reported
        /\ pc[th] = "commitSingle" =>
             pc'[th] = "out" /\ \A st \in reported' : st \in reported \/ st \in StatementsOf(th)
    BY <1>1, <1>2 DEF Commit, CommitUnacknowledged, ServerCommits, Returns, Raises, Goes, Inside
  <2>3. CASE pc[th] = "commit"
    <3>1. Progress(th)'
      BY <1>1, <2>1, <2>2, <2>3 DEF Progress
    <3> QED
      BY <2>1, <2>2, <2>3, <3>1 DEF CallDone
  <2>4. CASE pc[th] = "commitSingle"
    <3>1. ~AtWork(th)'
      BY <2>2, <2>4 DEF AtWork
    <3> QED
      BY <2>1, <2>2, <2>4, <3>1 DEF CallDone
  <2> QED
    BY <1>1, <2>3, <2>4
<1>3. CASE ~Opened(th) /\ Raises(th) /\ UNCHANGED <<work, committed, reported>>
  <2>1. CASE pc[th] = "commit"
    <3>1. pc'[th] = "except"
      BY <1>1, <1>3, <2>1 DEF Raises, Goes, Inside
    <3> QED
      BY <1>1, <1>3, <3>1, MovesOn DEF Progress, AtWork
  <2>2. CASE pc[th] = "commitSingle"
    <3>1. pc'[th] = "out"
      BY <1>1, <1>3, <2>2 DEF Raises, Goes, Inside
    <3>2. \A c \in Session : \A n \in 0..BatchSize : Mine(th, n) \notin work[c]
      BY <1>3, <2>2, NothingLeft
    <3> QED
      BY <1>1, <1>3, <3>1, <3>2, MovesOn DEF AtWork
  <2> QED
    BY <1>1, <2>1, <2>2
<1> QED
  BY <1>2, <1>3 DEF Commit, CommitUnacknowledged, Opened

\* The rollback of a solitary call takes the whole of its batch.
LEMMA RollsBack ==
  ASSUME NEW th \in Cycler, SolitaryCall(th), Rollback(th)
  PROVE  CallDone(th)
<1>1. /\ pc[th] = "rollback" /\ UNCHANGED <<committed, reported, calls, held>>
      /\ work' = [work EXCEPT ![held[th]] = {}] /\ pc' = [pc EXCEPT ![th] = "raise"]
  BY DEF Rollback, Goes
<1>2. /\ held[th] \in Session /\ work \in [Session -> SUBSET Statement] /\ pc'[th] = "raise"
      /\ \A n : Mine(th, n)' = Mine(th, n)
      /\ \A c \in Session : \A n \in 0..BatchSize : Mine(th, n) \in work[c] => held[th] = c
      /\ {k \in 1..BatchSize : Mine(th, k) \in committed} \in {{}, 1..BatchSize}
  BY <1>1, CallFacts DEF SolitaryCall, CallInv, TypeInv, Begun, Using, Inside
<1>3. \A c \in Session : \A n \in 0..BatchSize : Mine(th, n) \notin work'[c]
  BY <1>1, <1>2
<1>4. Progress(th)'
  BY <1>1, <1>2, <1>3 DEF Progress
<1> QED
  BY <1>1, <1>2, <1>3, <1>4 DEF CallDone

\* Every step of a solitary call after its first.
LEMMA CallStep ==
  ASSUME NEW th \in Cycler, SolitaryCall(th), Step(th), ~(\E call \in Call : Begin(th, call))
  PROVE  CallDone(th)
<1>1. \/ Require(th) \/ Connect(th)
      \/ Run(th) \/ Query(th) \/ LeaveStatement(th) \/ LeaveBody(th) \/ Commit(th)
      \/ Except(th) \/ Rollback(th) \/ Leave(th) \/ Unwind(th)
      \/ StatementFails(th) \/ CommitUnacknowledged(th)
  BY DEF Step
<1> QED
  BY <1>1, TakesConnection, RunsNext, EndsEmpty, SingleCommits, WithinTransaction, Commits,
     RollsBack, LeavesEmpty

-----------------------------------------------------------------------------
(***************************************************************************)
(* The steps of the whole service.                                         *)
(***************************************************************************)
AllProgress == \A th \in Cycler : Solitary(th) => Progress(th)
Promises == AllProgress /\ NoStrayWork /\ AloneIsAtomic /\ AloneIsDurable

\* Calls whose committed statements stay the same stay atomic.
LEMMA SameStaysAtomic ==
  ASSUME AloneIsAtomic, overlapped \subseteq overlapped', NEW t \in Cycler, NEW n \in 1..MaxCalls,
         <<t, n>> \notin overlapped',
         \A k \in 1..BatchSize : <<t, n, k>> \in committed' <=> <<t, n, k>> \in committed
  PROVE  Places(t, n)' \in {{}, 1..BatchSize}
<1>1. Places(t, n)' = Places(t, n)
  BY DEF Places
<1>2. Places(t, n) \in {{}, 1..BatchSize}
  BY DEF AloneIsAtomic
<1> QED
  BY <1>1, <1>2

\* A cycle in a call, whether another one overlaps with it or not.
LEMMA CycleMoves ==
  ASSUME CallInv, TypeInv', NEW th \in Cycler, Step(th), ~(\E call \in Call : Begin(th, call))
  PROVE  Promises'
<1>1. /\ th \in Thread /\ AtWork(th) /\ UNCHANGED <<calls, overlapped>>
      /\ TypeInv /\ Overlaps /\ AllProgress /\ NoStrayWork /\ AloneIsAtomic /\ AloneIsDurable
  BY Additions DEF Thread, CallInv, AllProgress
<1>2. ASSUME NEW c \in Session, NEW st \in work[c], Alone(st)
      PROVE  st = Mine(th, st[3]) /\ st[3] \in 0..BatchSize /\ Solitary(th)
  BY <1>1, <1>2, AloneIsMine
<1>3. /\ \A c \in Session : \A st \in work'[c] :
           st \in work[c] \/ \E n \in 0..BatchSize : st = Mine(th, n)
      /\ committed \subseteq committed'
      /\ \A st \in committed' : st \in committed \/ \E c \in Session : st \in work[c]
      /\ \A st \in reported' : st \in reported \/ st \in StatementsOf(th)
  BY <1>1, Additions
<1>4. \A st : Alone(st)' <=> Alone(st)
  BY <1>1 DEF Alone
<1>5. Solitary(th) => CallDone(th)
  BY <1>1, CallStep DEF SolitaryCall, AllProgress
<1>6. AllProgress'
  <2> SUFFICES ASSUME NEW t \in Cycler, Solitary(t)' PROVE Progress(t)'
    BY DEF AllProgress
  <2>1. t = th
    BY <1>1, OnlyOne
  <2>2. Solitary(th) /\ AtWork(th)'
    BY <1>1, <2>1 DEF Solitary
  <2> QED
    BY <1>5, <2>1, <2>2 DEF CallDone
<1>7. NoStrayWork'
  <2> SUFFICES ASSUME NEW c \in Session, NEW st \in work'[c], Alone(st)'
               PROVE  pc'[st[1]] \notin {"out", "gone"} /\ calls'[st[1]] = st[2]
                      /\ held'[st[1]] = c
    BY DEF NoStrayWork
  <2>1. PICK n \in 0..BatchSize : st = Mine(th, n)
    BY <1>2, <1>3, <1>4
  <2>2. Solitary(th)
    BY <1>1, <1>4, <2>1 DEF Solitary, Alone, Mine
  <2>3. AtWork(th)' /\ held'[th] = c
    BY <1>5, <2>1, <2>2 DEF CallDone
  <2> QED
    BY <1>1, <2>1, <2>3 DEF Mine, AtWork
<1>8. AloneIsAtomic'
  <2> SUFFICES ASSUME NEW t \in Cycler, NEW n \in 1..MaxCalls, <<t, n>> \notin overlapped'
               PROVE  Places(t, n)' \in {{}, 1..BatchSize}
    BY DEF AloneIsAtomic
  <2>1. CASE t = th /\ n = calls[th]
    <3>1. Solitary(th)
      BY <1>1, <2>1 DEF Solitary
    <3>2. {k \in 1..BatchSize : Mine(th, k) \in committed'} \in {{}, 1..BatchSize}
      BY <1>5, <3>1 DEF CallDone
    <3> QED
      BY <2>1, <3>2 DEF Places, Mine
  <2>2. CASE ~(t = th /\ n = calls[th])
    <3>1. ASSUME NEW k \in 1..BatchSize, <<t, n, k>> \in committed'
          PROVE  <<t, n, k>> \in committed
      <4>1. Alone(<<t, n, k>>)
        BY <1>1 DEF Alone
      <4>2. ASSUME NEW c \in Session, <<t, n, k>> \in work[c] PROVE FALSE
        BY <1>2, <2>2, <4>1, <4>2 DEF Mine
      <4> QED
        BY <1>3, <3>1, <4>2
    <3> QED
      BY <1>1, <1>3, <3>1, SameStaysAtomic
  <2> QED
    BY <2>1, <2>2
<1>9. AloneIsDurable'
  <2> SUFFICES ASSUME NEW st \in reported', Alone(st)' PROVE st \in committed'
    BY DEF AloneIsDurable
  <2>1. CASE st \in reported
    BY <1>1, <1>3, <1>4, <2>1 DEF AloneIsDurable
  <2>2. CASE st \in StatementsOf(th) /\ st \notin reported
    <3>1. Solitary(th)
      BY <1>1, <1>4, <2>2 DEF Solitary, Alone, StatementsOf
    <3> QED
      BY <1>5, <2>2, <3>1 DEF CallDone
  <2> QED
    BY <1>3, <2>1, <2>2
<1> QED
  BY <1>6, <1>7, <1>8, <1>9 DEF Promises

\* A cycle that begins a call: what is uncommitted is of calls it now overlaps with.
LEMMA CycleBegins ==
  ASSUME CallInv, NEW th \in Cycler, NEW call \in Call, Begin(th, call)
  PROVE  Promises'
<1>1. /\ pc[th] = "out" /\ pc' = [pc EXCEPT ![th] = "require"]
      /\ calls' = [calls EXCEPT ![th] = @ + 1] /\ done' = [done EXCEPT ![th] = 0]
      /\ UNCHANGED <<work, committed, reported>>
      /\ overlapped \subseteq overlapped'
      /\ \A b \in Busy : <<b, calls[b]>> \in overlapped'
  BY DEF Begin, Goes, server
<1>2. /\ th \in Thread /\ pc \in [Thread -> Point] /\ calls \in [Thread -> 0..MaxCalls]
      /\ done \in [Thread -> 0..BatchSize] /\ MaxCalls \in Nat
  BY ConnectorAssumption DEF CallInv, TypeInv, Typed, Thread
<1>3. AllProgress'
  <2> SUFFICES ASSUME NEW t \in Cycler, Solitary(t)' PROVE Progress(t)'
    BY DEF AllProgress
  <2>1. t = th
    BY OnlyOne DEF CallInv, Step
  <2>2. /\ pc'[th] = "require" /\ calls'[th] = calls[th] + 1 /\ done'[th] = 0
        /\ calls[th] \in Nat
    BY <1>1, <1>2
  <2>3. \A n : Mine(th, n)'[1] = th /\ Mine(th, n)'[2] = calls[th] + 1
    BY <2>2 DEF Mine
  <2>4. \A n : /\ Mine(th, n)' \notin committed
               /\ \A c \in Session : Mine(th, n)' \notin work[c]
    BY <2>2, <2>3 DEF CallInv, Fresh
  <2> QED
    BY <1>1, <2>1, <2>2, <2>4 DEF Progress
<1>4. NoStrayWork'
  <2> SUFFICES ASSUME NEW c \in Session, NEW st \in work[c], Alone(st)'
               PROVE  FALSE
    BY <1>1 DEF NoStrayWork
  <2>1. st[1] \in Cycler
    BY StatementParts DEF CallInv, TypeInv, Typed
  <2>2. Alone(st)
    BY <1>1 DEF Alone
  <2>3. pc[st[1]] \notin {"out", "gone"} /\ calls[st[1]] = st[2]
    BY <2>2 DEF CallInv, NoStrayWork
  <2> QED
    BY <1>1, <2>1, <2>3 DEF Busy, Alone
<1>5. AloneIsAtomic'
  BY <1>1, SameStaysAtomic DEF AloneIsAtomic, CallInv
<1>6. AloneIsDurable'
  BY <1>1 DEF AloneIsDurable, CallInv, Alone
<1> QED
  BY <1>3, <1>4, <1>5, <1>6 DEF Promises

\* What happens around the calls of the cycles: a session may lose its work with its
\* life, stop() may take the main thread out of its call.
LEMMA Around ==
  ASSUME CallInv, UNCHANGED <<committed, reported, overlapped>>,
         \A t \in Cycler : /\ calls'[t] = calls[t] /\ kind'[t] = kind[t]
                           /\ held'[t] = held[t] /\ done'[t] = done[t],
         \A c \in Session : work'[c] \in {{}, work[c]},
         \A t \in Cycler : \/ pc'[t] = pc[t]
                           \/ /\ pc'[t] = "gone" \/ (pc'[t] = "unwind" /\ pc[t] \in Inside)
                              /\ \A c \in Session : work'[c] = {},
         \A t \in Cycler : pc[t] \in Using =>
             \/ (Opened(t)' <=> Opened(t)) /\ work'[held[t]] = work[held[t]]
             \/ ~Opened(t)' /\ work'[held[t]] = {}
  PROVE  Promises'
<1>1. /\ Cycler \subseteq Thread
      /\ \A t \in Cycler : pc[t] \in Using => held[t] \in Session
  BY DEF Thread, CallInv, TypeInv, Begun
<1>2. \A t \in Cycler : \A n : Mine(t, n)' = Mine(t, n)
  BY DEF Mine
<1>3. AllProgress'
  <2> SUFFICES ASSUME NEW t \in Cycler, Solitary(t)' PROVE Progress(t)'
    BY DEF AllProgress
  <2>1. ASSUME pc'[t] = pc[t] PROVE Progress(t)'
    <3>1. Progress(t)
      BY <2>1 DEF CallInv, Solitary, AtWork
    <3>2. /\ held'[t] = held[t] /\ done'[t] = done[t] /\ kind'[t] = kind[t]
          /\ \A n : Mine(t, n)' = Mine(t, n)
      BY <1>2
    <3>3. CASE pc[t] \in Using
      <4>1. CASE (Opened(t)' <=> Opened(t)) /\ work'[held[t]] = work[held[t]]
        BY <2>1, <3>1, <3>2, <3>3, <4>1 DEF Progress, Using, Inside
      <4>2. CASE ~Opened(t)' /\ work'[held[t]] = {}
        BY <2>1, <3>1, <3>2, <3>3, <4>2 DEF Progress, Using, Inside
      <4> QED
        BY <3>3, <4>1, <4>2
    <3>4. CASE pc[t] \notin Using
      BY <2>1, <3>1, <3>2, <3>4 DEF Progress, Using, Inside
    <3> QED
      BY <3>3, <3>4
  <2>2. ASSUME pc'[t] # pc[t] PROVE Progress(t)'
    <3>1. pc'[t] = "unwind" /\ pc[t] \in Using /\ \A c \in Session : work'[c] = {}
      BY <2>2 DEF Solitary, AtWork, Using
    <3>2. held'[t] \in Session
      BY <1>1, <3>1
    <3> QED
      BY <3>1, <3>2 DEF Progress
  <2> QED
    BY <2>1, <2>2
<1>4. NoStrayWork'
  <2> SUFFICES ASSUME NEW c \in Session, NEW st \in work'[c], Alone(st)'
               PROVE  pc'[st[1]] \notin {"out", "gone"} /\ calls'[st[1]] = st[2]
                      /\ held'[st[1]] = c
    BY DEF NoStrayWork
  <2>1. st \in work[c] /\ Alone(st) /\ work'[c] # {}
    BY DEF Alone
  <2>2. st[1] \in Cycler
    BY <2>1, StatementParts DEF CallInv, TypeInv, Typed
  <2>3. pc[st[1]] \notin {"out", "gone"} /\ calls[st[1]] = st[2] /\ held[st[1]] = c
    BY <2>1 DEF CallInv, NoStrayWork
  <2> QED
    BY <2>1, <2>2, <2>3
<1>5. AloneIsAtomic'
  BY SameStaysAtomic DEF AloneIsAtomic, CallInv
<1>6. AloneIsDurable'
  BY DEF AloneIsDurable, CallInv, Alone
<1> QED
  BY <1>3, <1>4, <1>5, <1>6 DEF Promises

\* The health server only queries: it writes nothing, and at most opens a session.
LEMMA ProbeMoves ==
  ASSUME CallInv, NEW th \in Prober, Step(th)
  PROVE  Promises'
<1> USE DEF attributes, server
<1>1. /\ th \in Thread /\ Cycler \subseteq Thread \ {th}
      /\ kind[th] = "query" /\ pc[th] \notin Inside /\ TypeInv
      /\ pc[th] # "commitSingle" /\ status \in [Session -> {"unused", "open", "dead", "closed"}]
  BY ConnectorAssumption DEF Thread, CallInv, TypeInv, IInv, Points, Begun, Typed
<1>2. UNCHANGED <<work, committed, reported, overlapped>>
  BY <1>1 DEF Step, Begin, Require, Connect, Uses, Run, Query, Returns, LeaveStatement, LeaveBody,
     Commit, Except, Rollback, Leave, Unwind, StatementFails, CommitUnacknowledged, Inside
<1>3. \A t \in Cycler : /\ pc'[t] = pc[t] /\ calls'[t] = calls[t] /\ kind'[t] = kind[t]
                        /\ held'[t] = held[t] /\ done'[t] = done[t]
  BY <1>1, Additions
<1>4. \A c \in Session : status[c] # "unused" => status'[c] = status[c]
  <2>1. CASE Connect(th)
    BY <1>1, <2>1 DEF Connect
  <2>2. CASE UNCHANGED status
    BY <2>2
  <2> QED
    BY <1>1, <2>1, <2>2 DEF Step, Begin, Require, Run, Query, LeaveStatement, LeaveBody,
       Commit, Except, Rollback, Leave, Unwind, StatementFails, CommitUnacknowledged, Inside
<1>5. \A t \in Cycler : pc[t] \in Using => (Opened(t)' <=> Opened(t))
  BY <1>1, <1>3, <1>4 DEF Opened, CallInv, Sessions, TypeInv, Begun
<1> QED
  BY <1>2, <1>3, <1>5, Around

\* stop(): there is one session, and with it goes what was not committed.
LEMMA StopMoves ==
  ASSUME CallInv, Stop
  PROVE  Promises'
<1>1. /\ UNCHANGED <<committed, calls, kind, held, done, reported, overlapped>>
      /\ ~stopped /\ Cycler \subseteq Thread
      /\ status' = [c \in Session |-> IF c = connection THEN "closed" ELSE status[c]]
      /\ work' = [c \in Session |-> IF c = connection THEN {} ELSE work[c]]
      /\ pc' = [t \in Thread |-> IF t # Main THEN pc[t]
                                 ELSE IF pc[t] \in Inside THEN "unwind" ELSE "gone"]
  BY DEF Stop, Thread
<1>2. \A c \in Session : c # connection => status[c] = "unused" /\ work[c] = {}
  BY <1>1 DEF CallInv, Sessions
<1>3. \A c \in Session : work'[c] = {}
  BY <1>1, <1>2
<1>4. ASSUME NEW t \in Cycler, pc[t] \in Using
      PROVE  ~Opened(t)' /\ work'[held[t]] = {}
  <2>1. held[t] \in Session /\ status[held[t]] # "unused"
    BY <1>1, <1>4 DEF CallInv, TypeInv, Begun, Sessions
  <2>2. held[t] = connection
    BY <1>2, <2>1
  <2> QED
    BY <1>1, <1>3, <2>1, <2>2 DEF Opened
<1> QED
  BY <1>1, <1>3, <1>4, Around

\* A session that dies takes its uncommitted statements along.
LEMMA DeathMoves ==
  ASSUME CallInv, NEW c \in Session, SessionDies(c)
  PROVE  Promises'
<1>1. /\ UNCHANGED <<committed, pc, kind, calls, held, done, reported, overlapped>>
      /\ status' = [status EXCEPT ![c] = "dead"] /\ work' = [work EXCEPT ![c] = {}]
      /\ Cycler \subseteq Thread
      /\ status \in [Session -> {"unused", "open", "dead", "closed"}]
      /\ work \in [Session -> SUBSET Statement]
  BY DEF SessionDies, thread, Thread, CallInv, TypeInv, Typed
<1>2. ASSUME NEW t \in Cycler, pc[t] \in Using
      PROVE  \/ (Opened(t)' <=> Opened(t)) /\ work'[held[t]] = work[held[t]]
             \/ ~Opened(t)' /\ work'[held[t]] = {}
  <2>1. held[t] \in Session
    BY <1>1, <1>2 DEF CallInv, TypeInv, Begun
  <2> QED
    BY <1>1, <2>1 DEF Opened
<1>3. \A s \in Session : work'[s] \in {{}, work[s]}
  BY <1>1
<1> QED
  BY <1>1, <1>2, <1>3, Around

-----------------------------------------------------------------------------
\* CallInv is inductive.
LEMMA CallInit == Init => CallInv
<1> SUFFICES ASSUME Init PROVE CallInv
  OBVIOUS
<1>1. /\ \A th \in Thread : pc[th] = "out"
      /\ work = [c \in Session |-> {}]
      /\ committed = {} /\ reported = {} /\ overlapped = {}
      /\ connection = 1 /\ Cycler \subseteq Thread
      /\ status = [c \in Session |-> IF c = 1 THEN "open" ELSE "unused"]
  BY DEF Init, Thread
<1>2. TypeInv
  BY InitTyped
<1>3. Sessions
  BY <1>1, ConnectorAssumption DEF Sessions, Session, Using, Inside, NoSession
<1>4. Overlaps /\ Fresh
  BY <1>1 DEF Overlaps, Busy, Fresh
<1>5. \A th \in Cycler : ~Solitary(th)
  BY <1>1 DEF Solitary, AtWork
<1>6. NoStrayWork /\ AloneIsDurable
  BY <1>1 DEF NoStrayWork, AloneIsDurable
<1>7. AloneIsAtomic
  BY <1>1 DEF AloneIsAtomic, Places
<1> QED
  BY <1>2, <1>3, <1>4, <1>5, <1>6, <1>7 DEF CallInv

LEMMA CallInvStep == CallInv /\ [Next]_vars => CallInv'
<1> SUFFICES ASSUME CallInv, [Next]_vars PROVE CallInv'
  OBVIOUS
<1>1. TypeInv' /\ Sessions' /\ Overlaps' /\ Fresh'
  BY TypeStep, SessionsStep, OverlapsStep, FreshStep DEF CallInv
<1>2. ASSUME NEW th \in Thread, Step(th)
      PROVE  Promises'
  <2>1. CASE th \in Prober
    BY <1>2, <2>1, ProbeMoves
  <2>2. CASE th \in Cycler
    <3>1. CASE \E call \in Call : Begin(th, call)
      BY <2>2, <3>1, CycleBegins
    <3>2. CASE ~(\E call \in Call : Begin(th, call))
      BY <1>1, <1>2, <2>2, <3>2, CycleMoves
    <3> QED
      BY <3>1, <3>2
  <2> QED
    BY <2>1, <2>2 DEF Thread
<1>3. ASSUME UNCHANGED vars
      PROVE  Promises'
  BY <1>3 DEF vars, attributes, server, thread, CallInv, Promises, AllProgress, Solitary, AtWork,
     Progress, Mine, Opened, NoStrayWork, AloneIsAtomic, AloneIsDurable, Alone, Places
<1>4. Promises'
  BY <1>2, <1>3, StopMoves, DeathMoves DEF Next
<1> QED
  BY <1>1, <1>4 DEF CallInv, Promises, AllProgress

-----------------------------------------------------------------------------
\* A batch of a cycle that meets no other cycle is committed as a whole or not at all,
\* even if its connection dies, is closed by stop(), or the commit is not acknowledged.
THEOREM SolitaryBatchIsAtomic == Spec => []AloneIsAtomic
<1>1. CallInv => AloneIsAtomic
  BY DEF CallInv
<1> QED
  BY CallInit, CallInvStep, <1>1, PTL DEF Spec

\* What a call that met no other cycle was told to have written is committed.
THEOREM SolitaryReportIsDurable == Spec => []AloneIsDurable
<1>1. CallInv => AloneIsDurable
  BY DEF CallInv
<1> QED
  BY CallInit, CallInvStep, <1>1, PTL DEF Spec

\* A call that failed leaves nothing on its connection for a later commit to find,
\* unless it met another cycle.
THEOREM FailureLeavesNothing == Spec => []NoStrayWork
<1>1. CallInv => NoStrayWork
  BY DEF CallInv
<1> QED
  BY CallInit, CallInvStep, <1>1, PTL DEF Spec
=============================================================================
