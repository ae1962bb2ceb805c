---------------------------- MODULE ServiceProofs ----------------------------
(***************************************************************************)
(* Theorems about Service, for every threshold, timeout and interval.  Two *)
(* threads are in the breaker's methods at any of their points; IInv says  *)
(* what the fields are at each point of a thread that has the methods to   *)
(* itself, and where the probe of a half-open breaker is in any case.      *)
(***************************************************************************)
EXTENDS Service, TLAPS

\* A thread's next access of the breaker.
Access(p, q) == AllowRequest(p, q) \/ RecordSuccess(p, q) \/ RecordFailure(p, q)

\* What the fields are while a thread alone is at point p of a method.
At(p) ==
  /\ p \in {"asking", "dating", "timing", "halfOpening", "askingHalf", "timingHalf",
            "reopening"} => Agree
  /\ p \in {"dating", "timing", "halfOpening"} => state = "OPEN"
  /\ p \in {"timingHalf", "reopening"} => state = "HALF_OPEN"
  /\ p = "halfStamping" =>
       state = "HALF_OPEN" /\ failure_count = FailureThreshold /\ opened_at # None
  /\ p \in {"restamping", "forgetting"} =>
       state = "OPEN" /\ failure_count = FailureThreshold /\ opened_at # None
  /\ p \in {"closing", "unstamping", "clearing"} => failure_count = 0
  /\ p \in {"unstamping", "clearing"} => state = "CLOSED"
  /\ p = "clearing" => opened_at = None
  /\ p \in {"judging", "comparing"} =>
       /\ state = "CLOSED" <=> opened_at = None
       /\ state = "HALF_OPEN" <=> half_opened_at # None
       /\ state # "CLOSED" => failure_count = FailureThreshold
  /\ p = "comparing" => state # "HALF_OPEN"
  /\ p = "opening" => (state = "CLOSED" <=> opened_at = None)
  /\ p \in {"opening", "stamping", "unhalving"} => failure_count = FailureThreshold
  /\ p \in {"stamping", "unhalving"} => state = "OPEN"
  /\ p = "unhalving" => opened_at # None

-----------------------------------------------------------------------------
(***************************************************************************)
(* The breaker.                                                            *)
(***************************************************************************)

\* Every access keeps the types of the fields.
LEMMA AccessType ==
  ASSUME BreakerTypeOK, NEW p, NEW q, Access(p, q)
  PROVE  BreakerTypeOK'
<1> USE BreakerAssumption DEF BreakerAssumption, BreakerTypeOK, Assign, None
<1>1. CASE Asks(p, q) \/ Judges(p, q)
  BY <1>1 DEF Asks, Judges, breaker
<1>2. CASE HalfOpens(p, q) \/ Reopens(p, q)
  BY <1>2 DEF HalfOpens, Reopens
<1>3. CASE RecordSuccess(p, q)
  BY <1>3 DEF RecordSuccess
<1>4. CASE Counts(p, q)
  BY <1>4 DEF Counts, Incremented
<1>5. CASE Opens(p, q)
  BY <1>5 DEF Opens
<1> QED
  BY <1>1, <1>2, <1>3, <1>4, <1>5 DEF Access, AllowRequest, RecordFailure

\* A thread that has the methods to itself goes from what holds at one point to what
\* holds at the next, and leaves a method with fields that agree.
LEMMA AccessAlone ==
  ASSUME BreakerTypeOK, NEW p, NEW q, Access(p, q),
         p \in Inside => At(p), p \notin Inside => Agree
  PROVE  /\ q \in Inside => At(q)'
         /\ q \notin Inside => Agree'
<1> USE BreakerAssumption
    DEF BreakerAssumption, BreakerTypeOK, Inside, Point, AskPoint, SuccessPoint,
        FailurePoint, Assign, None
<1>1. CASE Asks(p, q)
  BY <1>1 DEF Asks, At, Agree, breaker
<1>2. CASE HalfOpens(p, q)
  BY <1>2 DEF HalfOpens, At, Agree
<1>3. CASE Reopens(p, q)
  BY <1>3 DEF Reopens, At, Agree
<1>4. CASE RecordSuccess(p, q)
  BY <1>4 DEF RecordSuccess, At, Agree
<1>5. CASE Counts(p, q)
  BY <1>5 DEF Counts, Incremented, At, Agree
<1>6. CASE Judges(p, q)
  BY <1>6 DEF Judges, At, Agree, breaker
<1>7. CASE Opens(p, q)
  BY <1>7 DEF Opens, At, Agree
<1> QED
  BY <1>1, <1>2, <1>3, <1>4, <1>5, <1>6, <1>7 DEF Access, AllowRequest, RecordFailure

\* The clock changes neither the types nor the agreement.
LEMMA TickKeeps ==
  ASSUME BreakerTypeOK, TimePasses
  PROVE  BreakerTypeOK' /\ (Agree => Agree')
BY BreakerAssumption
   DEF BreakerAssumption, BreakerTypeOK, TimePasses, Assign, Older, Agree, None

-----------------------------------------------------------------------------
(***************************************************************************)
(* The service.                                                            *)
(***************************************************************************)

\* The fields while a breaker was never raced for.
FieldInv ==
  process = "up" /\ ~raced =>
    /\ \A th, u \in Thread : cycle[th] \in Inside /\ cycle[u] \in Inside => th = u
    /\ \A th \in Thread, p \in Inside : cycle[th] = p => At(p)
    /\ (\A th \in Thread : cycle[th] \notin Inside) => Agree

\* A process that is down has left nothing behind.  While the initial cycle has not
\* asked the breaker, the breaker is closed and the job has not started; the initial
\* cycle is never the probe; and a half-open breaker has its probe.
MainIsFirst ==
  /\ process = "down" => BreakerInit /\ cycle = NoCycles
  /\ cycle["main"] = "testing" =>
       state = "CLOSED" /\ cycle["job"] = "none" /\ untilDue = interval
  /\ cycle["main"] \notin AskPoint \ {"testing"}
  /\ ProbeIsAlive

IInv == TypeOK /\ FieldInv /\ MainIsFirst

\* The steps of a cycle.
CycleStep(th) == Step(th) \/ JobFailed \/ MainFailed

\* A thread goes to its next point; two threads inside at once are noted.
LEMMA Going ==
  ASSUME TypeOK, NEW th \in Thread, NEW next \in CycleState, Goes(th, next)
  PROVE  /\ cycle' = [cycle EXCEPT ![th] = next]
         /\ cycle' \in [Thread -> CycleState]
         /\ raced' \in BOOLEAN
         /\ ~raced' => ~raced /\ \E t \in Thread : cycle'[t] \notin Inside
<1>1. cycle' = [cycle EXCEPT ![th] = next] /\ cycle' \in [Thread -> CycleState]
  BY DEF Goes, TypeOK
<1>2. raced' = (raced \/ \A t \in Thread : cycle'[t] \in Inside)
  BY DEF Goes
<1>3. raced' \in BOOLEAN /\ (~raced' => ~raced /\ \E t \in Thread : cycle'[t] \notin Inside)
  BY <1>2, Zenon
<1> QED
  BY <1>1, <1>3

\* A cycle's step is an access of the breaker, after which the thread is at the point q
\* or past the method, or it leaves the breaker alone.
LEMMA StepIsAccess ==
  ASSUME NEW th \in Thread, Step(th)
  PROVE  \/ \E q : Access(cycle[th], q) /\ q \in Point \cup {"allowed", "refused", "done"}
                   /\ \E next \in CycleState :
                         /\ Goes(th, next) /\ (next \in Inside <=> q \in Inside)
                         /\ next \in Point => next = q
         \/ UNCHANGED breaker /\ cycle[th] \notin Point
              /\ (Goes(th, "resetting") \/ Goes(th, "counting"))
<1> USE DEF CycleState, Admitted, Inside, Point, AskPoint, SuccessPoint, FailurePoint
<1>1. CASE Allow(th)
  <2>1. PICK q \in AskPoint \cup {"allowed", "refused"} :
          AllowRequest(cycle[th], q) /\ Goes(th, IF q = "allowed" THEN Admitted ELSE q)
    BY <1>1 DEF Allow
  <2> QED
    BY <2>1 DEF Access
<1>2. CASE Succeed(th)
  <2>1. PICK q \in SuccessPoint \cup {"done"} :
          RecordSuccess(cycle[th], q) /\ Goes(th, IF q = "done" THEN "none" ELSE q)
    BY <1>2 DEF Succeed
  <2> QED
    BY <2>1 DEF Access
<1>3. CASE Fail(th)
  <2>1. PICK q \in FailurePoint : RecordFailure(cycle[th], q) /\ Goes(th, q)
    BY <1>3 DEF Fail
  <2> QED
    BY <2>1 DEF Access
<1>4. CASE CycleSucceeds(th) \/ CycleFails(th)
  BY <1>4 DEF CycleSucceeds, CycleFails
<1> QED
  BY <1>1, <1>2, <1>3, <1>4 DEF Step

\* An access that does not enter, stay in or leave a method reads state and no more.
LEMMA OutsideReads ==
  ASSUME NEW p, NEW q, Access(p, q), p \notin Inside, q \notin Inside
  PROVE  UNCHANGED breaker
BY DEF Access, AllowRequest, RecordSuccess, RecordFailure, Asks, HalfOpens, Reopens, Counts,
       Judges, Opens, Inside, Point, AskPoint, SuccessPoint, FailurePoint

\* A fresh service satisfies the invariant.
LEMMA InitIInv == Init => IInv
<1> SUFFICES ASSUME Init PROVE IInv
  OBVIOUS
<1> USE BreakerAssumption, ServiceAssumption
    DEF BreakerAssumption, ServiceAssumption, Init, BreakerInit, NoCycles, Thread, None
<1>1. BreakerTypeOK /\ Agree
  BY DEF BreakerTypeOK, Agree
<1>2. cycle \in [Thread -> CycleState] /\ \A th \in Thread : cycle[th] \notin Inside
  BY DEF CycleState, Point, AskPoint, SuccessPoint, FailurePoint, Inside
<1>3. trouble \subseteq Trouble /\ dead \in BOOLEAN /\ raced \in BOOLEAN
  BY DEF Trouble
<1>4. TypeOK
  BY <1>1, <1>2, <1>3 DEF TypeOK
<1>5. FieldInv
  BY <1>1, <1>2 DEF FieldInv
<1>6. MainIsFirst
  BY DEF MainIsFirst, ProbeIsAlive, AskPoint
<1> QED
  BY <1>4, <1>5, <1>6 DEF IInv

\* Every step of a cycle keeps the types.
LEMMA CycleType ==
  ASSUME TypeOK, NEW th \in Thread, CycleStep(th)
  PROVE  TypeOK'
<1>1. CASE Step(th)
  <2>1. /\ interval' = interval /\ process' = process /\ untilDue' = untilDue
        /\ trouble' = trouble /\ dead' = dead
    BY <1>1 DEF Step, Allow, CycleSucceeds, CycleFails, Succeed, Fail
  <2>2. BreakerTypeOK' /\ cycle' \in [Thread -> CycleState] /\ raced' \in BOOLEAN
    <3>1. CASE UNCHANGED breaker /\ (Goes(th, "resetting") \/ Goes(th, "counting"))
      <4>1. "resetting" \in CycleState /\ "counting" \in CycleState
        BY DEF CycleState, Point, SuccessPoint, FailurePoint
      <4>2. BreakerTypeOK'
        BY <3>1 DEF TypeOK, BreakerTypeOK, breaker
      <4> QED
        BY <3>1, <4>1, <4>2, Going
    <3>2. CASE \E q : Access(cycle[th], q) /\ \E next \in CycleState : Goes(th, next)
      <4>1. PICK q : Access(cycle[th], q) /\ \E next \in CycleState : Goes(th, next)
        BY <3>2
      <4>2. PICK p : p = cycle[th]
        OBVIOUS
      <4>3. BreakerTypeOK'
        BY <4>1, <4>2, AccessType DEF TypeOK
      <4> QED
        BY <4>1, <4>3, Going
    <3> QED
      BY <1>1, <3>1, <3>2, StepIsAccess
  <2> QED
    BY <2>1, <2>2 DEF TypeOK
<1>2. CASE JobFailed
  <2>1. /\ interval' = interval /\ process' = process /\ untilDue' = untilDue
        /\ trouble' = trouble /\ dead' = dead
    BY <1>2 DEF JobFailed
  <2>2. BreakerTypeOK'
    BY <1>2, AccessType DEF JobFailed, TypeOK, Access
  <2>3. cycle' \in [Thread -> CycleState] /\ raced' \in BOOLEAN
    <3>1. "job" \in Thread /\ "none" \in CycleState
      BY DEF Thread, CycleState
    <3> QED
      BY <1>2, <3>1, Going DEF JobFailed
  <2> QED
    BY <2>1, <2>2, <2>3 DEF TypeOK
<1>3. CASE MainFailed
  <2>1. BreakerTypeOK'
    BY <1>3, AccessType DEF MainFailed, TypeOK, Access
  <2>2. cycle' \in [Thread -> CycleState]
    BY <1>3 DEF MainFailed, Stop, TypeOK, Thread, CycleState
  <2> QED
    BY <1>3, <2>1, <2>2 DEF MainFailed, Stop, TypeOK
<1> QED
  BY <1>1, <1>2, <1>3 DEF CycleStep

\* Every step keeps the types.
LEMMA TypeStep == TypeOK /\ [Next]_vars => TypeOK'
<1> SUFFICES ASSUME TypeOK, [Next]_vars PROVE TypeOK'
  OBVIOUS
<1> USE DEF TypeOK
<1>1. ASSUME NEW th \in Thread, Step(th) \/ JobFailed \/ MainFailed PROVE TypeOK'
  BY <1>1, CycleType DEF CycleStep
<1>2. CASE TriggerFires
  <2>1. cycle' \in [Thread -> CycleState] /\ raced' \in BOOLEAN
    <3>1. "job" \in Thread /\ "testing" \in CycleState
      BY DEF Thread, CycleState, Point, AskPoint
    <3> QED
      BY <1>2, <3>1, Going DEF TriggerFires
  <2>2. untilDue' \in 0..interval'
    BY <1>2, ServiceAssumption DEF TriggerFires, ServiceAssumption
  <2> QED
    BY <1>2, <2>1, <2>2 DEF TriggerFires, BreakerTypeOK, breaker
<1>3. CASE Terminate
  <2>1. cycle' \in [Thread -> CycleState]
    BY <1>3 DEF Terminate, Stop, Thread, CycleState
  <2> QED
    BY <1>3, <2>1 DEF Terminate, Stop, BreakerTypeOK, breaker
<1>4. CASE Exit
  <2>1. BreakerTypeOK'
    BY <1>4, BreakerAssumption
       DEF Exit, NewBreaker, Assign, None, BreakerTypeOK, BreakerAssumption
  <2> QED
    BY <1>4, <2>1 DEF Exit
<1>5. CASE Restart
  <2>1. cycle' \in [Thread -> CycleState]
    BY <1>5 DEF Restart, NoCycles, Thread, CycleState, Point, AskPoint
  <2>2. untilDue' \in 0..interval'
    BY <1>5, ServiceAssumption DEF Restart, ServiceAssumption
  <2> QED
    BY <1>5, <2>1, <2>2 DEF Restart, BreakerTypeOK, breaker
<1>6. CASE Tick
  <2>1. cycle' \in [Thread -> CycleState]
    BY <1>6 DEF Tick, CycleState
  <2>2. untilDue' \in 0..interval'
    <3>1. interval \in Nat
      BY ServiceAssumption DEF ServiceAssumption
    <3> QED
      BY <1>6, <3>1 DEF Tick
  <2>3. BreakerTypeOK'
    BY <1>6, TickKeeps DEF Tick
  <2> QED
    BY <1>6, <2>1, <2>2, <2>3 DEF Tick
<1>7. ASSUME NEW o \in Trouble, TroubleBegins(o) PROVE TypeOK'
  <2>1. cycle' \in [Thread -> CycleState]
    BY <1>7 DEF TroubleBegins, CycleState
  <2>2. dead' \in BOOLEAN
    BY <1>7 DEF TroubleBegins
  <2> QED
    BY <1>7, <2>1, <2>2 DEF TroubleBegins, BreakerTypeOK, breaker
<1>8. ASSUME NEW o \in Trouble, TroubleEnds(o) PROVE TypeOK'
  BY <1>8 DEF TroubleEnds, BreakerTypeOK, breaker
<1>9. CASE UNCHANGED vars
  BY <1>9 DEF vars, service, BreakerTypeOK, breaker
<1> QED
  BY <1>1, <1>2, <1>3, <1>4, <1>5, <1>6, <1>7, <1>8, <1>9 DEF Next, Thread

-----------------------------------------------------------------------------
\* An access keeps FieldInv: the thread has the methods to itself, or it reads state
\* beside the other and stays outside.
LEMMA AccessFields ==
  ASSUME IInv, NEW th \in Thread, NEW q, Access(cycle[th], q),
         NEW next \in CycleState, Goes(th, next),
         next \in Inside <=> q \in Inside, next \in Point => next = q,
         process' = process
  PROVE  FieldInv'
<1> SUFFICES ASSUME process' = "up", ~raced' PROVE FieldInv'
  BY DEF FieldInv
<1>1. /\ cycle' = [cycle EXCEPT ![th] = next] /\ cycle \in [Thread -> CycleState]
      /\ process = "up" /\ ~raced /\ \E t \in Thread : cycle'[t] \notin Inside
  BY Going DEF IInv, TypeOK
<1>2. PICK u \in Thread : u # th /\ Thread = {th, u}
  BY DEF Thread
<1>3. cycle'[th] = next /\ cycle'[u] = cycle[u] /\ cycle[u] \in CycleState
  BY <1>1, <1>2
<1>4. BreakerTypeOK
  BY DEF IInv, TypeOK
<1>5. PICK p : p = cycle[th]
  OBVIOUS
<1>6. CASE cycle[u] \in Inside
  <2>1. p \notin Inside /\ next \notin Inside /\ q \notin Inside
    BY <1>1, <1>2, <1>3, <1>5, <1>6 DEF IInv, FieldInv
  <2>2. UNCHANGED breaker
    BY <1>5, <2>1, OutsideReads
  <2>3. \A r \in Inside : cycle[u] = r => At(r)
    BY <1>1 DEF IInv, FieldInv
  <2>4. ASSUME NEW r \in Inside, cycle'[u] = r PROVE At(r)'
    <3>1. At(r)
      BY <1>3, <2>3, <2>4
    <3> QED
      BY <2>2, <3>1 DEF At, Agree, breaker
  <2> QED
    BY <1>2, <1>3, <1>6, <2>1, <2>4 DEF FieldInv
<1>7. CASE cycle[u] \notin Inside
  <2>1. p \in Inside => At(p)
    BY <1>1, <1>5 DEF IInv, FieldInv
  <2>2. p \notin Inside => Agree
    BY <1>1, <1>2, <1>5, <1>7 DEF IInv, FieldInv
  <2>3. Access(p, q)
    BY <1>5
  <2>4. (q \in Inside => At(q)') /\ (q \notin Inside => Agree')
    BY <1>4, <2>1, <2>2, <2>3, AccessAlone
  <2>5. next \in Inside => next = q
    BY DEF Inside
  <2> QED
    BY <1>2, <1>3, <1>7, <2>4, <2>5 DEF FieldInv
<1> QED
  BY <1>6, <1>7

\* A step that leaves the breaker alone, and goes from one point outside its methods to
\* another, keeps FieldInv.
LEMMA QuietFields ==
  ASSUME FieldInv, UNCHANGED breaker, process' = process, ~raced' => ~raced,
         \A t \in Thread, p \in Inside : cycle'[t] = p => cycle[t] = p,
         \A t \in Thread : cycle[t] \in Inside => cycle'[t] = cycle[t]
  PROVE  FieldInv'
<1> SUFFICES ASSUME process' = "up", ~raced' PROVE FieldInv'
  BY DEF FieldInv
<1>1. process = "up" /\ ~raced
  OBVIOUS
<1>2. ASSUME NEW t \in Thread, NEW p \in Inside, cycle'[t] = p PROVE At(p)'
  <2>1. At(p)
    BY <1>1, <1>2 DEF FieldInv
  <2> QED
    BY <2>1 DEF At, Agree, breaker
<1>3. Agree => Agree'
  BY DEF Agree, breaker
<1>4. \A t, u \in Thread : cycle'[t] \in Inside /\ cycle'[u] \in Inside => t = u
  BY <1>1 DEF FieldInv
<1>5. (\A t \in Thread : cycle'[t] \notin Inside) => Agree'
  BY <1>1, <1>3 DEF FieldInv
<1> QED
  BY <1>2, <1>4, <1>5 DEF FieldInv

\* Every step keeps FieldInv.
LEMMA FieldStep == IInv /\ [Next]_vars => FieldInv'
<1> SUFFICES ASSUME IInv, [Next]_vars PROVE FieldInv'
  OBVIOUS
<1>1. TypeOK /\ FieldInv /\ cycle \in [Thread -> CycleState]
  BY DEF IInv, TypeOK
<1>2. ASSUME NEW th \in Thread, Step(th) PROVE FieldInv'
  <2>1. process' = process
    BY <1>2 DEF Step, Allow, CycleSucceeds, CycleFails, Succeed, Fail
  <2>2. ASSUME NEW q, Access(cycle[th], q), NEW next \in CycleState, Goes(th, next),
               next \in Inside <=> q \in Inside, next \in Point => next = q
        PROVE  FieldInv'
    BY <2>1, <2>2, AccessFields
  <2>3. CASE UNCHANGED breaker /\ cycle[th] \notin Point
               /\ (Goes(th, "resetting") \/ Goes(th, "counting"))
    <3>1. PICK next \in {"resetting", "counting"} : Goes(th, next)
      BY <2>3
    <3>2. next \in CycleState /\ next \notin Inside /\ cycle[th] \notin Inside
      BY <2>3 DEF CycleState, Inside, Point, SuccessPoint, FailurePoint
    <3>3. cycle' = [cycle EXCEPT ![th] = next] /\ (~raced' => ~raced)
      BY <1>1, <3>1, <3>2, Going
    <3> QED
      BY <1>1, <2>1, <2>3, <3>2, <3>3, QuietFields
  <2> QED
    BY <1>2, <2>2, <2>3, StepIsAccess
<1>3. CASE JobFailed
  <2>1. "job" \in Thread /\ "none" \in CycleState /\ "none" \notin Inside
        /\ "done" \notin Inside /\ "none" \notin Point
    BY DEF Thread, CycleState, Inside, Point, AskPoint, SuccessPoint, FailurePoint
  <2>2. Access(cycle["job"], "done") /\ Goes("job", "none") /\ process' = process
    BY <1>3 DEF JobFailed, Access
  <2> QED
    BY <2>1, <2>2, AccessFields
<1>4. CASE MainFailed \/ Terminate
  BY <1>4 DEF MainFailed, Terminate, Stop, FieldInv
<1>5. CASE TriggerFires
  <2>1. CASE cycle["job"] = "none"
    <3>1. "job" \in Thread /\ "testing" \in CycleState /\ "testing" \notin Inside
          /\ "none" \notin Inside
      BY DEF Thread, CycleState, Inside, Point, AskPoint, SuccessPoint, FailurePoint
    <3>2. cycle' = [cycle EXCEPT !["job"] = "testing"] /\ (~raced' => ~raced)
      BY <1>1, <1>5, <2>1, <3>1, Going DEF TriggerFires
    <3>3. UNCHANGED breaker /\ process' = process
      BY <1>5 DEF TriggerFires
    <3> QED
      BY <1>1, <2>1, <3>1, <3>2, <3>3, QuietFields
  <2>2. CASE cycle["job"] # "none"
    BY <1>1, <1>5, <2>2, QuietFields DEF TriggerFires
  <2> QED
    BY <2>1, <2>2
<1>6. CASE Exit
  BY <1>6 DEF Exit, FieldInv
<1>7. CASE Restart
  <2>1. Agree'
    BY <1>7, BreakerAssumption
       DEF Restart, IInv, MainIsFirst, BreakerInit, breaker, Agree, None, BreakerAssumption
  <2>2. \A t \in Thread : cycle'[t] \notin Inside
    BY <1>7 DEF Restart, NoCycles, Inside, Point, AskPoint, SuccessPoint, FailurePoint
  <2> QED
    BY <2>1, <2>2 DEF FieldInv
<1>8. CASE Tick
  <2>1. \A t \in Thread : cycle[t] \notin Inside /\ cycle'[t] \notin Inside
    BY <1>8 DEF Tick, Inside, Point, AskPoint, SuccessPoint, FailurePoint
  <2>2. Agree => Agree'
    BY <1>1, <1>8, TickKeeps DEF Tick, TypeOK
  <2>3. process' = process /\ raced' = raced
    BY <1>8 DEF Tick
  <2> QED
    BY <1>1, <2>1, <2>2, <2>3 DEF FieldInv
<1>9. ASSUME NEW o \in Trouble, TroubleBegins(o) PROVE FieldInv'
  <2>1. "running" \notin Inside /\ "hit" \notin Inside
    BY DEF Inside, Point, AskPoint, SuccessPoint, FailurePoint
  <2> QED
    BY <1>1, <1>9, <2>1, QuietFields DEF TroubleBegins
<1>10. ASSUME NEW o \in Trouble, TroubleEnds(o) PROVE FieldInv'
  BY <1>1, <1>10, QuietFields DEF TroubleEnds
<1>11. CASE UNCHANGED vars
  BY <1>1, <1>11, QuietFields DEF vars, service
<1> QED
  BY <1>2, <1>3, <1>4, <1>5, <1>6, <1>7, <1>8, <1>9, <1>10, <1>11 DEF Next

\* Every step keeps the probe of a half-open breaker alive.
LEMMA MainIsFirstStep == IInv /\ [Next]_vars => MainIsFirst'
<1> SUFFICES ASSUME IInv, [Next]_vars PROVE MainIsFirst'
  OBVIOUS
<1> USE DEF IInv, TypeOK, MainIsFirst, ProbeIsAlive, Thread, NoCycles, Assign, AskPoint
<1>1. ASSUME NEW th \in Thread, Allow(th) PROVE MainIsFirst'
  BY <1>1 DEF Allow, AllowRequest, Asks, HalfOpens, Reopens, Goes, Admitted, breaker
<1>2. ASSUME NEW th \in Thread, CycleSucceeds(th) \/ CycleFails(th) PROVE MainIsFirst'
  BY <1>2 DEF CycleSucceeds, CycleFails, Goes, breaker
<1>3. ASSUME NEW th \in Thread, Succeed(th) PROVE MainIsFirst'
  BY <1>3 DEF Succeed, RecordSuccess, SuccessPoint, Goes
<1>4. ASSUME NEW th \in Thread, Fail(th) PROVE MainIsFirst'
  BY <1>4 DEF Fail, RecordFailure, Counts, Judges, Opens, FailurePoint, Goes, breaker
<1>5. CASE JobFailed
  BY <1>5 DEF JobFailed, RecordFailure, Counts, Judges, Opens, Goes, breaker
<1>6. CASE MainFailed
  BY <1>6 DEF MainFailed, RecordFailure, Counts, Judges, Opens, Stop, breaker
<1>7. CASE TriggerFires
  <2>1. interval # 0
    BY ServiceAssumption DEF ServiceAssumption
  <2> QED
    BY <1>7, <2>1 DEF TriggerFires, Goes, breaker
<1>8. CASE Terminate
  BY <1>8 DEF Terminate, Stop, breaker
<1>9. CASE Exit
  BY <1>9 DEF Exit, NewBreaker, BreakerInit
<1>10. CASE Restart
  BY <1>10 DEF Restart, BreakerInit, breaker
<1>11. CASE Tick
  BY <1>11 DEF Tick, TimePasses, Older, BreakerInit
<1>12. ASSUME NEW o \in Trouble, TroubleBegins(o) PROVE MainIsFirst'
  BY <1>12 DEF TroubleBegins, BreakerInit, breaker
<1>13. ASSUME NEW o \in Trouble, TroubleEnds(o) PROVE MainIsFirst'
  BY <1>13 DEF TroubleEnds, BreakerInit, breaker
<1>14. CASE UNCHANGED vars
  BY <1>14 DEF vars, service, BreakerInit, breaker
<1> QED
  BY <1>1, <1>2, <1>3, <1>4, <1>5, <1>6, <1>7, <1>8, <1>9, <1>10, <1>11, <1>12, <1>13, <1>14
     DEF Next, Step

\* The invariant of the service.
LEMMA Invariant == Spec => []IInv
<1>1. IInv /\ [Next]_vars => IInv'
  BY TypeStep, FieldStep, MainIsFirstStep DEF IInv
<1> QED
  BY InitIInv, <1>1, PTL DEF Spec

\* Every variable of the service keeps its type.
THEOREM TypeCorrect == Spec => []TypeOK
BY Invariant, PTL DEF IInv

\* Between methods the fields of the shared breaker agree with its state, whichever
\* thread called the last one, unless both were once inside methods at the same time.
THEOREM FieldsAgree == Spec => []FieldsMatchState
<1>1. IInv => FieldsMatchState
  BY DEF IInv, FieldInv, FieldsMatchState
<1> QED
  BY Invariant, <1>1, PTL

\* A half-open breaker always has its probe, in the job's thread, whatever the threads
\* do in the breaker's methods at the same time.
THEOREM ProbeStaysAlive == Spec => []ProbeIsAlive
BY Invariant, PTL DEF IInv, MainIsFirst

-----------------------------------------------------------------------------
(***************************************************************************)
(* With an interval below the timeout.  Only the job tests a breaker that  *)
(* may be open, at the moment the trigger fires; the cycle before it ended *)
(* within the interval and its refusal has set opened_at again, so that    *)
(* opened_at has not passed the interval.                                  *)
(***************************************************************************)
Refusing == (AskPoint \ {"halfOpening", "halfStamping"}) \cup FailurePoint
              \cup {"none", "refused", "refusedLate"}

Impatient ==
  interval < Timeout /\ process = "up" /\ ~raced =>
    /\ state # "HALF_OPEN"
    /\ cycle["job"] \notin {"halfOpening", "halfStamping"}
    /\ state = "OPEN" =>
         /\ cycle["job"] \in Refusing \/ cycle["main"] \in {"stamping", "unhalving"}
         /\ cycle["job"] = "unhalving" => opened_at = 0
         /\ cycle["job"] = "none" => opened_at + untilDue <= interval
         /\ cycle["job"] \in {"testing", "asking", "dating", "timing"} => opened_at <= interval

\* Only the job may half-open the breaker, and not before its timeout is over.
LEMMA ImpatientAllow ==
  ASSUME IInv, Impatient, NEW th \in Thread, Allow(th)
  PROVE  Impatient'
<1> SUFFICES ASSUME interval' < Timeout, process' = "up", ~raced' PROVE Impatient'
  BY DEF Impatient
<1> USE DEF Thread, AskPoint
<1>1. PICK q \in AskPoint \cup {"allowed", "refused"} :
        AllowRequest(cycle[th], q) /\ Goes(th, IF q = "allowed" THEN Admitted ELSE q)
  BY DEF Allow
<1>2. /\ interval' = interval /\ process = "up" /\ untilDue' = untilDue
      /\ interval \in Nat /\ untilDue \in 0..interval
  BY ServiceAssumption DEF Allow, IInv, TypeOK, ServiceAssumption
<1>3. cycle' = [cycle EXCEPT ![th] = IF q = "allowed" THEN Admitted ELSE q] /\ ~raced
  <2>1. (IF q = "allowed" THEN Admitted ELSE q) \in CycleState
    BY DEF Admitted, CycleState, Point
  <2> QED
    BY <1>1, <2>1, Going DEF IInv
<1>4. cycle \in [Thread -> CycleState] /\ BreakerTypeOK
  BY DEF IInv, TypeOK
<1>5. CASE th = "main"
  <2>1. cycle["main"] = "testing" /\ state = "CLOSED"
    BY <1>1, <1>5 DEF AllowRequest, Asks, HalfOpens, Reopens, IInv, MainIsFirst
  <2>2. UNCHANGED breaker /\ cycle'["job"] = cycle["job"]
    BY <1>1, <1>3, <1>4, <1>5, <2>1 DEF AllowRequest, Asks, HalfOpens, Reopens
  <2> QED
    BY <1>2, <1>3, <2>1, <2>2 DEF Impatient, breaker
<1>6. CASE th = "job"
  <2>1. cycle'["job"] = (IF q = "allowed" THEN Admitted ELSE q)
    BY <1>3, <1>4, <1>6
  <2>2. cycle["job"] = "timing" => state = "OPEN"
    <3>1. \A p \in Inside : cycle["job"] = p => At(p)
      BY <1>2, <1>3 DEF IInv, FieldInv
    <3> QED
      BY <3>1 DEF At, Inside, Point
  <2>3. CASE Asks(cycle["job"], q)
    <3>1. CASE state = "OPEN"
      <4>1. opened_at \in Int /\ Timeout \in Int
        BY <1>4, BreakerAssumption DEF BreakerTypeOK, BreakerAssumption
      <4>2. q \notin {"allowed", "halfOpening", "halfStamping"}
        BY <1>2, <1>3, <2>2, <2>3, <3>1, <4>1 DEF Asks, Impatient
      <4>3. cycle'["job"] = q /\ q \in Refusing
        BY <2>1, <4>2 DEF Refusing
      <4>4. q \in {"testing", "asking", "dating", "timing"} =>
              cycle["job"] \in {"testing", "asking", "dating"}
        BY <2>3 DEF Asks
      <4>5. UNCHANGED breaker /\ q \notin {"none", "unhalving"}
        BY <2>3 DEF Asks
      <4> QED
        BY <1>2, <1>3, <3>1, <4>2, <4>3, <4>4, <4>5 DEF Impatient, breaker
    <3>2. CASE state # "OPEN"
      BY <1>2, <1>3, <2>1, <2>2, <2>3, <3>2
         DEF Asks, Impatient, Admitted, breaker
    <3> QED
      BY <3>1, <3>2
  <2>4. CASE HalfOpens(cycle["job"], q)
    BY <1>2, <1>3, <2>4 DEF HalfOpens, Impatient
  <2>5. CASE Reopens(cycle["job"], q)
    BY <1>2, <1>3, <2>1, <2>5 DEF Reopens, Assign, Impatient, Refusing, FailurePoint
  <2> QED
    BY <1>1, <1>6, <2>3, <2>4, <2>5 DEF AllowRequest
<1> QED
  BY <1>5, <1>6

\* A success only closes.
LEMMA ImpatientSucceed ==
  ASSUME IInv, Impatient, NEW th \in Thread, Succeed(th)
  PROVE  Impatient'
<1> SUFFICES ASSUME interval' < Timeout, process' = "up", ~raced' PROVE Impatient'
  BY DEF Impatient
<1> USE DEF Thread, SuccessPoint
<1>1. PICK q \in SuccessPoint \cup {"done"} :
        RecordSuccess(cycle[th], q) /\ Goes(th, IF q = "done" THEN "none" ELSE q)
  BY DEF Succeed
<1>2. /\ interval' = interval /\ process = "up" /\ untilDue' = untilDue
      /\ interval \in Nat /\ untilDue \in 0..interval
  BY ServiceAssumption DEF Succeed, IInv, TypeOK, ServiceAssumption
<1>3. /\ cycle' = [cycle EXCEPT ![th] = IF q = "done" THEN "none" ELSE q]
      /\ ~raced /\ \E t \in Thread : cycle'[t] \notin Inside
  <2>1. (IF q = "done" THEN "none" ELSE q) \in CycleState
    BY DEF CycleState, Point
  <2> QED
    BY <1>1, <2>1, Going DEF IInv
<1>4. cycle \in [Thread -> CycleState] /\ BreakerTypeOK
  BY DEF IInv, TypeOK
<1>5. /\ cycle[th] \in {"unstamping", "clearing"} => state = "CLOSED"
      /\ \A u \in Thread : cycle[th] \in Inside /\ cycle[u] \in Inside => th = u
  <2>1. \A p \in Inside : cycle[th] = p => At(p)
    BY <1>2, <1>3 DEF IInv, FieldInv
  <2>2. \A u \in Thread : cycle[th] \in Inside /\ cycle[u] \in Inside => th = u
    BY <1>2, <1>3 DEF IInv, FieldInv
  <2> QED
    BY <2>1, <2>2 DEF At, Inside, Point
<1>6. CASE cycle[th] # "resetting"
  <2>1. state' = "CLOSED"
    BY <1>1, <1>5, <1>6 DEF RecordSuccess, Assign
  <2>2. cycle'["job"] \notin {"halfOpening", "halfStamping"}
    BY <1>2, <1>3, <1>4 DEF Impatient
  <2> QED
    BY <2>1, <2>2 DEF Impatient
<1>7. CASE cycle[th] = "resetting"
  <2>1. q = "closing" /\ Assign(state, 0, opened_at, half_opened_at)
    BY <1>1, <1>7 DEF RecordSuccess
  <2>2. cycle'[th] = "closing" /\ \A u \in Thread : u # th => cycle'[u] = cycle[u]
    BY <1>3, <1>4, <2>1
  <2>3. cycle'[th] \in Inside
    BY <2>2 DEF Inside, Point, AskPoint, FailurePoint
  <2>4. \A u \in Thread : u # th => cycle'[u] \notin Inside
    BY <1>3, <2>3
  <2>5. "stamping" \in Inside /\ "unhalving" \in Inside
    BY DEF Inside, Point, AskPoint, FailurePoint
  <2>6. CASE th = "job"
    BY <1>2, <1>3, <1>7, <2>1, <2>2, <2>4, <2>5, <2>6
       DEF Impatient, Refusing, AskPoint, FailurePoint, Assign
  <2>7. CASE th = "main"
    BY <1>2, <1>3, <1>7, <2>1, <2>2, <2>4, <2>5, <2>7 DEF Impatient, Assign
  <2> QED
    BY <2>6, <2>7
<1> QED
  BY <1>6, <1>7

\* A failure that opens the breaker starts its timeout.
LEMMA ImpatientFail ==
  ASSUME IInv, Impatient, NEW th \in Thread, NEW q \in FailurePoint \cup {"done"},
         RecordFailure(cycle[th], q), Goes(th, IF q = "done" THEN "none" ELSE q),
         UNCHANGED <<interval, process, untilDue>>
  PROVE  Impatient' \/ (th = "main" /\ q = "done")
<1> SUFFICES ASSUME interval' < Timeout, process' = "up", ~raced',
                    th = "job" \/ q # "done"
             PROVE  Impatient'
  BY DEF Impatient, Thread
<1> USE DEF Thread, FailurePoint
<1>1. /\ interval' = interval /\ process = "up" /\ untilDue' = untilDue
      /\ interval \in Nat /\ untilDue \in 0..interval
  BY ServiceAssumption DEF IInv, TypeOK, ServiceAssumption
<1>2. /\ cycle' = [cycle EXCEPT ![th] = IF q = "done" THEN "none" ELSE q]
      /\ ~raced /\ \E t \in Thread : cycle'[t] \notin Inside
  <2>1. (IF q = "done" THEN "none" ELSE q) \in CycleState
    BY DEF CycleState, Point
  <2> QED
    BY <2>1, Going DEF IInv
<1>3. cycle \in [Thread -> CycleState] /\ opened_at \in Int
      /\ failure_count \in 0..FailureThreshold /\ FailureThreshold \in Nat
  BY BreakerAssumption DEF IInv, TypeOK, BreakerTypeOK, BreakerAssumption
<1>4. \A p \in Inside : cycle[th] = p => At(p)
  BY <1>1, <1>2 DEF IInv, FieldInv
<1>5. /\ cycle[th] \in {"stamping", "unhalving"} => state = "OPEN"
      /\ cycle[th] = "opening" => (state = "CLOSED" <=> opened_at = None)
      /\ cycle[th] = "comparing" /\ state = "OPEN" => failure_count = FailureThreshold
  BY <1>4 DEF At, Inside, Point
<1>6. state \in {"CLOSED", "OPEN"}
  BY <1>1, <1>2 DEF Impatient, IInv, TypeOK, BreakerTypeOK
<1>7. \A t \in Thread : t # th /\ q # "done" => cycle'[t] \notin Inside
  <2>1. q # "done" => cycle'[th] = q /\ q \in Inside
    BY <1>2, <1>3 DEF RecordFailure, Counts, Judges, Opens, Inside, Point
  <2> QED
    BY <1>2, <2>1
<1>8. CASE th = "job"
  <2>1. cycle'["job"] = (IF q = "done" THEN "none" ELSE q) /\ cycle'["main"] = cycle["main"]
        /\ cycle["job"] \in FailurePoint
    BY <1>2, <1>3, <1>8 DEF RecordFailure, Counts, Judges, Opens
  <2>2. CASE Counts(cycle["job"], q) \/ Judges(cycle["job"], q)
    <3>1. state' = state /\ opened_at' = opened_at /\ q # "unhalving"
      BY <2>2 DEF Counts, Judges, Assign, breaker
    <3>2. CASE q = "done"
      <4>1. cycle["job"] = "comparing" /\ failure_count < FailureThreshold
        BY <1>3, <2>2, <3>2 DEF Counts, Judges
      <4>2. state' = "CLOSED" /\ cycle'["job"] = "none"
        BY <1>3, <1>5, <1>6, <1>8, <2>1, <3>1, <3>2, <4>1
      <4> QED
        BY <4>2 DEF Impatient
    <3>3. CASE q # "done"
      <4>1. cycle'["job"] \in {"judging", "comparing", "opening"}
        BY <2>1, <2>2, <3>3 DEF Counts, Judges
      <4>2. {"judging", "comparing", "opening"} \subseteq Refusing
        BY DEF Refusing
      <4> QED
        BY <1>6, <3>1, <4>1, <4>2 DEF Impatient
    <3> QED
      BY <3>2, <3>3
  <2>3. CASE Opens(cycle["job"], q)
    <3>1. CASE cycle["job"] = "opening"
      <4>1. q = "stamping" /\ state' = "OPEN"
        BY <2>3, <3>1 DEF Opens, Assign
      <4>2. cycle'["job"] = "stamping" /\ "stamping" \in Refusing
        BY <2>1, <4>1 DEF Refusing
      <4> QED
        BY <4>1, <4>2 DEF Impatient
    <3>2. CASE cycle["job"] = "stamping"
      BY <1>1, <1>5, <1>8, <2>1, <2>3, <3>2
         DEF Opens, Assign, Impatient, Refusing, AskPoint
    <3>3. CASE cycle["job"] = "unhalving"
      BY <1>1, <1>2, <1>5, <1>8, <2>1, <2>3, <3>3
         DEF Opens, Assign, Impatient, Refusing, AskPoint
    <3> QED
      BY <2>3, <3>1, <3>2, <3>3 DEF Opens
  <2> QED
    BY <1>8, <2>2, <2>3 DEF RecordFailure
<1>9. CASE th = "main"
  <2>1. cycle'["main"] = q /\ cycle'["job"] = cycle["job"] /\ q # "done"
        /\ cycle["job"] \notin Inside /\ "unhalving" \in Inside
    BY <1>2, <1>3, <1>7, <1>9 DEF Inside, Point, AskPoint
  <2>2. CASE Counts(cycle["main"], q) \/ Judges(cycle["main"], q)
    <3>1. state' = state /\ opened_at' = opened_at
          /\ cycle["main"] \notin {"stamping", "unhalving"}
      BY <2>2 DEF Counts, Judges, Assign, breaker
    <3> QED
      BY <1>1, <1>2, <2>1, <3>1 DEF Impatient
  <2>3. CASE Opens(cycle["main"], q)
    <3>1. q \in {"stamping", "unhalving"} /\ state' = "OPEN"
      BY <1>5, <1>9, <2>1, <2>3 DEF Opens, Assign
    <3>2. state = "CLOSED" /\ cycle["main"] = "opening" => opened_at = None
      BY <1>5, <1>9
    <3>3. opened_at' = 0 \/ opened_at' = None \/ (opened_at' = opened_at /\ state = "OPEN")
      BY <1>6, <2>3, <3>2, <2>1 DEF Opens, Assign
    <3> QED
      BY <1>1, <1>2, <1>3, <2>1, <3>1, <3>3 DEF Impatient, None, Inside, Point, AskPoint
  <2> QED
    BY <1>9, <2>2, <2>3 DEF RecordFailure
<1> QED
  BY <1>8, <1>9

\* Every step keeps the next test of an open breaker within the interval.
LEMMA ImpatientStep == IInv /\ Impatient /\ [Next]_vars => Impatient'
<1> SUFFICES ASSUME IInv, Impatient, [Next]_vars PROVE Impatient'
  OBVIOUS
<1> USE DEF Thread
<1>1. TypeOK /\ cycle \in [Thread -> CycleState] /\ interval \in Nat \ {0}
      /\ untilDue \in 0..interval /\ opened_at \in Int
  BY ServiceAssumption, BreakerAssumption
     DEF IInv, TypeOK, BreakerTypeOK, ServiceAssumption, BreakerAssumption
<1>2. ASSUME NEW th \in Thread, Allow(th) PROVE Impatient'
  BY <1>2, ImpatientAllow
<1>3. ASSUME NEW th \in Thread, Succeed(th) PROVE Impatient'
  BY <1>3, ImpatientSucceed
<1>4. ASSUME NEW th \in Thread, Fail(th) PROVE Impatient'
  <2>1. PICK q \in FailurePoint : RecordFailure(cycle[th], q) /\ Goes(th, q)
    BY <1>4 DEF Fail
  <2>2. q # "done" /\ q \in FailurePoint \cup {"done"}
    BY DEF FailurePoint
  <2>3. Goes(th, IF q = "done" THEN "none" ELSE q)
    BY <2>1, <2>2
  <2>4. UNCHANGED <<interval, process, untilDue>>
    BY <1>4 DEF Fail
  <2> QED
    BY <2>1, <2>2, <2>3, <2>4, ImpatientFail
<1>5. CASE JobFailed
  <2>1. "job" \in Thread /\ "done" \in FailurePoint \cup {"done"} /\ "job" # "main"
    OBVIOUS
  <2>2. Goes("job", IF "done" = "done" THEN "none" ELSE "done")
    BY <1>5 DEF JobFailed
  <2>3. UNCHANGED <<interval, process, untilDue>> /\ RecordFailure(cycle["job"], "done")
    BY <1>5 DEF JobFailed
  <2> QED
    BY <2>1, <2>2, <2>3, ImpatientFail
<1>6. ASSUME NEW th \in Thread, CycleSucceeds(th) \/ CycleFails(th) PROVE Impatient'
  <2>1. PICK next \in {"resetting", "counting"} : Goes(th, next)
    BY <1>6 DEF CycleSucceeds, CycleFails
  <2>2. next \in CycleState
    BY DEF CycleState, Point, SuccessPoint, FailurePoint
  <2>3. cycle' = [cycle EXCEPT ![th] = next] /\ (~raced' => ~raced)
    BY <1>1, <2>1, <2>2, Going
  <2>4. UNCHANGED <<breaker, interval, process, untilDue>>
    BY <1>6 DEF CycleSucceeds, CycleFails
  <2>5. /\ next = "resetting" => cycle[th] \in {"running", "hit"}
        /\ cycle[th] \notin {"stamping", "unhalving"}
    <3>1. CASE CycleSucceeds(th)
      BY <3>1 DEF CycleSucceeds
    <3>2. CASE CycleFails(th)
      <4>1. cycle' = [cycle EXCEPT ![th] = "counting"]
        BY <3>2 DEF CycleFails, Goes
      <4> QED
        BY <1>1, <2>3, <3>2, <4>1 DEF CycleFails
    <3> QED
      BY <1>6, <3>1, <3>2
  <2> QED
    BY <1>1, <2>3, <2>4, <2>5 DEF Impatient, Refusing, AskPoint, FailurePoint, breaker
<1>7. CASE MainFailed \/ Terminate
  BY <1>7 DEF MainFailed, Terminate, Stop, Impatient
<1>8. CASE TriggerFires
  <2>1. CASE cycle["job"] = "none"
    <3>1. "job" \in Thread /\ "testing" \in CycleState
      BY DEF CycleState, Point, AskPoint
    <3>2. cycle' = [cycle EXCEPT !["job"] = "testing"] /\ (~raced' => ~raced)
      BY <1>1, <1>8, <2>1, <3>1, Going DEF TriggerFires
    <3> QED
      BY <1>1, <1>8, <2>1, <3>2 DEF TriggerFires, Impatient, Refusing, AskPoint, breaker
  <2>2. CASE cycle["job"] # "none"
    BY <1>1, <1>8, <2>2 DEF TriggerFires, Impatient, breaker
  <2> QED
    BY <2>1, <2>2
<1>9. CASE Exit
  BY <1>9 DEF Exit, Impatient
<1>10. CASE Restart
  BY <1>10 DEF Restart, IInv, MainIsFirst, BreakerInit, NoCycles, Impatient, breaker
<1>11. CASE Tick
  <2>1. \A t \in Thread : /\ cycle[t] \in {"none", "running", "hit", "refused"}
                          /\ cycle'[t] = IF cycle[t] = "refused" THEN "refusedLate" ELSE cycle[t]
    BY <1>11 DEF Tick
  <2>2. (opened_at' = opened_at \/ opened_at' = opened_at + 1) /\ state' = state
    BY <1>11 DEF Tick, TimePasses, Assign, Older
  <2>3. interval' = interval /\ process' = process /\ raced' = raced
    BY <1>11 DEF Tick
  <2>4. CASE process = "up"
    <3>1. untilDue' = untilDue - 1
      BY <1>11, <2>4 DEF Tick
    <3>2. untilDue \in Int /\ interval \in Int /\ opened_at \in Int
      BY <1>1
    <3>3. opened_at + untilDue <= interval => opened_at' + untilDue' <= interval
      BY <2>2, <3>1, <3>2
    <3>4. cycle["job"] \in {"none", "running", "hit", "refused"}
          /\ cycle'["job"] = IF cycle["job"] = "refused" THEN "refusedLate" ELSE cycle["job"]
      BY <2>1
    <3>5. cycle["main"] \notin {"stamping", "unhalving"}
      BY <2>1
    <3>6. cycle["job"] \in Refusing => cycle'["job"] \in Refusing
      BY <3>4 DEF Refusing
    <3> QED
      BY <2>2, <2>3, <3>3, <3>4, <3>5, <3>6 DEF Impatient
  <2> QED
    BY <2>3, <2>4 DEF Impatient
<1>12. ASSUME NEW o \in Trouble, TroubleBegins(o) PROVE Impatient'
  <2>1. \A t \in Thread : cycle'[t] = IF cycle[t] = "running" THEN "hit" ELSE cycle[t]
    BY <1>12 DEF TroubleBegins
  <2> QED
    BY <1>12, <2>1 DEF TroubleBegins, Impatient, Refusing, AskPoint, FailurePoint, breaker
<1>13. ASSUME NEW o \in Trouble, TroubleEnds(o) PROVE Impatient'
  BY <1>13 DEF TroubleEnds, Impatient, breaker
<1>14. CASE UNCHANGED vars
  BY <1>14 DEF vars, service, Impatient, breaker
<1> QED
  BY <1>2, <1>3, <1>4, <1>5, <1>6, <1>7, <1>8, <1>9, <1>10, <1>11, <1>12, <1>13, <1>14
     DEF Next, Step

\* With an interval below the breaker's timeout, whatever the trouble, and unless the two
\* threads race inside the breaker: it is never half-open, and once it is open with the
\* initial cycle over, only the end of the process closes it.
THEOREM NeverProbed == Spec => []RefusedForever /\ ShutUntilRestart
<1>1. Init => Impatient
  BY DEF Init, BreakerInit, Impatient, NoCycles, Thread
<1>2. Impatient => RefusedForever
  BY DEF Impatient, RefusedForever
<1>3. IInv /\ Impatient /\ Impatient' /\ [Next]_vars => [Shut => Shut' \/ process' # "up"]_vars
  <2> SUFFICES ASSUME IInv, Impatient, Impatient', Next, Shut, process' = "up"
               PROVE  Shut'
    BY DEF vars, service, breaker, Shut
  <2> USE DEF Thread
  <2>1. /\ TypeOK /\ cycle \in [Thread -> CycleState] /\ process = "up" /\ ~raced
        /\ interval < Timeout /\ state = "OPEN" /\ cycle["main"] = "none"
        /\ cycle["job"] \in Refusing
        /\ \A p \in Inside : cycle["job"] = p => At(p)
    BY DEF Shut, IInv, TypeOK, FieldInv, Impatient
  <2>2. "none" \notin Point /\ "none" \notin Inside
        /\ {"resetting", "closing", "running", "hit"} \cap Refusing = {}
    BY DEF Point, Inside, AskPoint, SuccessPoint, FailurePoint, Refusing
  <2>3. ASSUME NEW next \in CycleState, Goes("job", next) PROVE cycle'["main"] = "none" /\ ~raced'
    <3>1. cycle'["main"] = "none"
      BY <2>1, <2>3, Going
    <3>2. raced' = (raced \/ \A t \in Thread : cycle'[t] \in Inside)
      BY <2>3 DEF Goes
    <3>3. ~\A t \in Thread : cycle'[t] \in Inside
      BY <2>2, <3>1
    <3> QED
      BY <2>1, <3>1, <3>2, <3>3
  <2>4. ASSUME NEW th \in Thread, Step(th) PROVE Shut'
    <3>1. th = "job"
      BY <2>1, <2>2, <2>4
         DEF Step, Allow, Succeed, Fail, CycleSucceeds, CycleFails, Point
    <3>2. interval' = interval
      BY <2>4 DEF Step, Allow, Succeed, Fail, CycleSucceeds, CycleFails
    <3>3. \E next \in CycleState : Goes("job", next)
      BY <2>4, <3>1, StepIsAccess DEF CycleState, Point, SuccessPoint, FailurePoint
    <3>4. cycle'["main"] = "none" /\ ~raced'
      BY <2>3, <3>3
    <3>5. state' = "OPEN"
      <4>1. CASE Allow("job")
        BY <2>1, <4>1 DEF Allow, AllowRequest, Asks, HalfOpens, Reopens, Assign, breaker, Impatient
      <4>2. CASE Succeed("job")
        BY <2>1, <4>2 DEF Succeed, Refusing, SuccessPoint, AskPoint, FailurePoint
      <4>3. CASE Fail("job")
        BY <2>1, <4>3 DEF Fail, RecordFailure, Counts, Judges, Opens, Assign, breaker
      <4>4. CASE CycleSucceeds("job") \/ CycleFails("job")
        BY <2>1, <4>4 DEF CycleSucceeds, CycleFails, breaker
      <4> QED
        BY <2>4, <3>1, <4>1, <4>2, <4>3, <4>4 DEF Step
    <3> QED
      BY <2>1, <3>2, <3>4, <3>5 DEF Shut
  <2>5. CASE JobFailed
    <3>1. "none" \in CycleState
      BY DEF CycleState
    <3>2. cycle'["main"] = "none" /\ ~raced'
      BY <2>3, <2>5, <3>1 DEF JobFailed
    <3>3. state' = "OPEN"
      BY <2>1, <2>5 DEF JobFailed, RecordFailure, Counts, Judges, Opens, Assign, breaker
    <3> QED
      BY <2>1, <2>5, <3>2, <3>3 DEF JobFailed, Shut
  <2>6. CASE MainFailed \/ Terminate \/ Exit \/ Restart
    BY <2>1, <2>6 DEF MainFailed, Terminate, Exit, Restart, Stop
  <2>7. CASE TriggerFires
    <3>1. "testing" \in CycleState
      BY DEF CycleState, Point, AskPoint
    <3>2. cycle'["main"] = "none" /\ ~raced'
      BY <2>1, <2>3, <2>7, <3>1 DEF TriggerFires
    <3> QED
      BY <2>1, <2>7, <3>2 DEF TriggerFires, Shut, breaker
  <2>8. CASE Tick
    BY <2>1, <2>8 DEF Tick, TimePasses, Assign, Shut
  <2>9. ASSUME NEW o \in Trouble, TroubleBegins(o) \/ TroubleEnds(o) PROVE Shut'
    BY <2>1, <2>9 DEF TroubleBegins, TroubleEnds, Shut, breaker
  <2> QED
    BY <2>4, <2>5, <2>6, <2>7, <2>8, <2>9 DEF Next
<1> QED
  BY Invariant, <1>1, <1>2, <1>3, ImpatientStep, PTL DEF Spec, ShutUntilRestart

-----------------------------------------------------------------------------
(***************************************************************************)
(* A connection that died.                                                 *)
(***************************************************************************)

\* Every cycle there is will meet the dead connection.
DeadIsMet == dead => \A th \in Thread : cycle[th] # "running"

LEMMA DeadIsMetStep == TypeOK /\ DeadIsMet /\ [Next]_vars => DeadIsMet'
<1> SUFFICES ASSUME TypeOK, DeadIsMet, [Next]_vars, dead', NEW u \in Thread
             PROVE  cycle'[u] # "running"
  BY DEF DeadIsMet
<1> USE DEF TypeOK, DeadIsMet
<1>1. ASSUME NEW th \in Thread, Step(th) PROVE cycle'[u] # "running"
  BY <1>1 DEF Step, Allow, CycleSucceeds, CycleFails, Succeed, Fail, Goes, Admitted,
              AskPoint, SuccessPoint, FailurePoint
<1>2. CASE JobFailed \/ TriggerFires
  BY <1>2 DEF JobFailed, TriggerFires, Goes
<1>3. CASE MainFailed \/ Terminate \/ Exit
  BY <1>3 DEF MainFailed, Terminate, Stop, Exit
<1>4. CASE Restart \/ Tick
  BY <1>4 DEF Restart, Tick, NoCycles
<1>5. ASSUME NEW o \in Trouble, TroubleBegins(o) \/ TroubleEnds(o) PROVE cycle'[u] # "running"
  BY <1>5 DEF TroubleBegins, TroubleEnds
<1>6. CASE UNCHANGED vars
  BY <1>6 DEF vars, service
<1> QED
  BY <1>1, <1>2, <1>3, <1>4, <1>5, <1>6 DEF Next

\* Some cycle got through its last statement and is recording its success.
Recording == \E th \in Thread : cycle[th] \in SuccessPoint

\* A dead connection stays dead until the process stops.  Once no success from before
\* is being recorded, none is again: failures only add up, and a breaker that is not
\* closed does not close.
DeadUntilStopped ==
  dead => /\ dead' \/ process' # "up"
          /\ dead' /\ ~Recording =>
               /\ ~Recording'
               /\ failure_count' >= failure_count
               /\ state' = "CLOSED" => state = "CLOSED"

\* For every interval, threshold and timeout: a connection that dies in an outage is
\* never replaced while the service is up, so that the end of the outage changes nothing.
THEOREM DeadForGood == Spec => [][DeadUntilStopped]_vars
<1>1. Init => DeadIsMet
  BY DEF Init, DeadIsMet
<1>2. IInv /\ DeadIsMet /\ [Next]_vars => DeadIsMet'
  BY DeadIsMetStep DEF IInv
<1>3. IInv /\ DeadIsMet /\ [Next]_vars => [DeadUntilStopped]_vars
  <2> SUFFICES ASSUME IInv, DeadIsMet, [Next]_vars, dead PROVE DeadUntilStopped
    BY DEF DeadUntilStopped
  <2>1. dead = TRUE /\ cycle \in [Thread -> CycleState] /\ \A t \in Thread : cycle[t] # "running"
    BY DEF IInv, TypeOK, DeadIsMet
  <2>2. failure_count \in 0..FailureThreshold /\ FailureThreshold \in Nat
    BY BreakerAssumption DEF BreakerAssumption, IInv, TypeOK, BreakerTypeOK
  <2>3. failure_count >= failure_count /\ Incremented >= failure_count
    BY <2>2 DEF Incremented
  <2> DEFINE Adds == failure_count' >= failure_count /\ (state' = "CLOSED" => state = "CLOSED")
  <2>4. ASSUME dead' = TRUE \/ process' # "up",
               dead' = TRUE /\ ~Recording => ~Recording' /\ Adds
        PROVE  DeadUntilStopped
    BY <2>4 DEF DeadUntilStopped
  <2>5. UNCHANGED breaker => Adds
    BY <2>3 DEF breaker
  <2>6. ASSUME NEW th \in Thread, Step(th) PROVE DeadUntilStopped
    <3>1. dead' = TRUE
      BY <2>1, <2>6 DEF Step, Allow, CycleSucceeds, CycleFails, Succeed, Fail
    <3>2. ASSUME ~Recording PROVE ~Recording' /\ Adds
      <4>1. cycle[th] \notin SuccessPoint /\ cycle[th] # "running"
        BY <2>1, <3>2 DEF Recording
      <4>2. \A next : next \notin SuccessPoint /\ Goes(th, next) => ~Recording'
        BY <2>1, <3>2 DEF Recording, Goes
      <4>3. CASE Allow(th)
        <5>1. Adds
          BY <2>3, <2>5, <4>3
             DEF Allow, AllowRequest, Asks, HalfOpens, Reopens, Assign, breaker
        <5>2. \E next : next \notin SuccessPoint /\ Goes(th, next)
          BY <4>3 DEF Allow, Admitted, AskPoint, SuccessPoint
        <5> QED
          BY <4>2, <5>1, <5>2
      <4>4. CASE Fail(th)
        <5>1. PICK q \in FailurePoint : RecordFailure(cycle[th], q) /\ Goes(th, q)
          BY <4>4 DEF Fail
        <5>2. Adds
          BY <2>3, <2>5, <5>1 DEF RecordFailure, Counts, Judges, Opens, Assign
        <5>3. q \notin SuccessPoint
          BY DEF FailurePoint, SuccessPoint
        <5> QED
          BY <4>2, <5>1, <5>2, <5>3
      <4>5. CASE CycleFails(th)
        BY <2>5, <4>2, <4>5 DEF CycleFails, SuccessPoint
      <4>6. CASE CycleSucceeds(th) \/ Succeed(th)
        BY <2>1, <4>1, <4>6 DEF CycleSucceeds, Succeed
      <4> QED
        BY <2>6, <4>3, <4>4, <4>5, <4>6 DEF Step
    <3> QED
      BY <2>4, <3>1, <3>2
  <2>7. CASE JobFailed
    <3>1. dead' = TRUE
      BY <2>1, <2>7 DEF JobFailed
    <3>2. Adds
      BY <2>3, <2>5, <2>7 DEF JobFailed, RecordFailure, Counts, Judges, Opens, Assign
    <3>3. ~Recording => ~Recording'
      BY <2>1, <2>7 DEF JobFailed, Goes, Recording, SuccessPoint
    <3> QED
      BY <2>4, <3>1, <3>2, <3>3
  <2>8. CASE TriggerFires
    <3>1. dead' = TRUE /\ Adds
      BY <2>1, <2>5, <2>8 DEF TriggerFires
    <3>2. ~Recording => ~Recording'
      BY <2>1, <2>8 DEF TriggerFires, Goes, Recording, SuccessPoint
    <3> QED
      BY <2>4, <3>1, <3>2
  <2>9. CASE Restart
    <3>1. dead' = TRUE /\ Adds
      BY <2>1, <2>5, <2>9 DEF Restart
    <3>2. ~Recording'
      BY <2>9 DEF Restart, NoCycles, Recording, SuccessPoint
    <3> QED
      BY <2>4, <3>1, <3>2
  <2>10. CASE MainFailed \/ Terminate \/ Exit
    <3>1. dead' = FALSE /\ process' # "up"
      BY <2>10 DEF MainFailed, Terminate, Stop, Exit
    <3> QED
      BY <2>4, <3>1
  <2>11. CASE Tick
    <3>1. dead' = TRUE /\ Adds
      BY <2>1, <2>3, <2>11 DEF Tick, TimePasses, Assign
    <3>2. ~Recording'
      BY <2>11 DEF Tick, Recording, SuccessPoint
    <3> QED
      BY <2>4, <3>1, <3>2
  <2>12. ASSUME NEW o \in Trouble, TroubleBegins(o) \/ TroubleEnds(o) PROVE DeadUntilStopped
    <3>1. dead' = TRUE
      BY <2>1, <2>12 DEF TroubleBegins, TroubleEnds
    <3>2. Adds
      BY <2>5, <2>12 DEF TroubleBegins, TroubleEnds
    <3>3. ~Recording => ~Recording'
      BY <2>1, <2>12 DEF TroubleBegins, TroubleEnds, Recording, SuccessPoint
    <3> QED
      BY <2>4, <3>1, <3>2, <3>3
  <2>13. CASE UNCHANGED vars
    <3>1. dead' = TRUE /\ Adds /\ (~Recording => ~Recording')
      BY <2>1, <2>5, <2>13 DEF vars, service, Recording
    <3> QED
      BY <2>4, <3>1
  <2> QED
    BY <2>6, <2>7, <2>8, <2>9, <2>10, <2>11, <2>12, <2>13 DEF Next
<1> QED
  BY Invariant, <1>1, <1>2, <1>3, PTL DEF Spec
=============================================================================
