------------------------------ MODULE Service ------------------------------
(***************************************************************************)
(* The service process: main.py starts the scheduler and runs an initial   *)
(* cycle itself; the scheduler's job runs a cycle every                    *)
(* run_interval_minutes in a thread of its own, one at a time; both share  *)
(* the engine's circuit breaker and its two connections.  A cycle is what  *)
(* the breaker sees of it: it is admitted or refused, and it succeeds or   *)
(* fails, as the network, the servers, the data and the connections let it.*)
(***************************************************************************)
EXTENDS CircuitBreaker

CONSTANTS
  Intervals   \* the values of run_interval_minutes, in ticks

ASSUME ServiceAssumption == Intervals \subseteq Nat \ {0}

Thread == {"main", "job"}

VARIABLES
  interval,  \* run_interval_minutes
  process,   \* "up", "exiting" once stop() was called, "down"
  cycle,     \* cycle[th]: where thread th is in run_cycle
  untilDue,  \* ticks until the interval trigger fires
  trouble,   \* what makes statements fail
  dead,      \* whether a connection object died; connect() keeps it (Connector)
  raced      \* history: the threads were inside methods of this breaker at once

service == <<interval, process, cycle, untilDue, trouble, dead, raced>>
vars    == <<breaker, service>>

\* Besides the points of the breaker's methods.  "running": admitted, "hit" once it
\* has met trouble or a dead connection.  "refused": CircuitBreakerOpenError raised
\* and not yet recorded; "refusedLate" once the clock has moved since.
CycleState == Point \cup {"none", "running", "hit", "refused", "refusedLate"}

\* The network (the probe of 8.8.8.8) or the servers are out of reach, or something in
\* the databases makes a statement raise: a value, a lock, a poisoned queue (SyncEngine).
Trouble == {"network", "servers", "data"}

NoCycles == [th \in Thread |-> "none"]

Init ==
  /\ BreakerInit
  /\ interval \in Intervals
  /\ process = "up" /\ cycle = [NoCycles EXCEPT !["main"] = "testing"]
  /\ untilDue = interval
  /\ trouble \in SUBSET (Trouble \ {"servers"}) /\ dead = FALSE
  /\ raced = FALSE

-----------------------------------------------------------------------------
(***************************************************************************)
(* run_cycle, in either thread.                                            *)
(***************************************************************************)
Goes(th, next) ==
  /\ cycle' = [cycle EXCEPT ![th] = next]
  /\ raced' = (raced \/ \A t \in Thread : cycle'[t] \in Inside)

\* What becomes of an admitted cycle.
Admitted == IF trouble = {} /\ ~dead THEN "running" ELSE "hit"

\* The next access of allow_request.
Allow(th) ==
  /\ cycle[th] \in AskPoint
  /\ \E q \in AskPoint \cup {"allowed", "refused"} :
       AllowRequest(cycle[th], q) /\ Goes(th, IF q = "allowed" THEN Admitted ELSE q)
  /\ UNCHANGED <<interval, process, untilDue, trouble, dead>>

\* The last statement of a cycle succeeds.  One that met trouble may come through it,
\* between its statements or by its retries, but not on a dead connection.
CycleSucceeds(th) ==
  /\ \/ cycle[th] = "running"
     \/ cycle[th] = "hit" /\ ~dead /\ "servers" \notin trouble
  /\ Goes(th, "resetting")
  /\ UNCHANGED <<breaker, interval, process, untilDue, trouble, dead>>

\* Every exception is recorded, the refusal of the breaker included.
CycleFails(th) ==
  /\ cycle[th] \in {"hit", "refused", "refusedLate"}
  /\ Goes(th, "counting")
  /\ UNCHANGED <<breaker, interval, process, untilDue, trouble, dead>>

\* The next access of record_success.
Succeed(th) ==
  /\ cycle[th] \in SuccessPoint
  /\ \E q \in SuccessPoint \cup {"done"} :
       RecordSuccess(cycle[th], q) /\ Goes(th, IF q = "done" THEN "none" ELSE q)
  /\ UNCHANGED <<interval, process, untilDue, trouble, dead>>

\* The next access of record_failure.
Fail(th) ==
  /\ cycle[th] \in FailurePoint
  /\ \E q \in FailurePoint : RecordFailure(cycle[th], q) /\ Goes(th, q)
  /\ UNCHANGED <<interval, process, untilDue, trouble, dead>>

\* stop() closes the connections; the job's cycle loses them as in an outage, and
\* opens new ones.
Stop(job) ==
  /\ process' = "exiting" /\ dead' = FALSE
  /\ cycle' = [main |-> "none", job |-> IF job = "running" THEN "hit" ELSE job]
  /\ UNCHANGED raced

\* The last one, after which the exception leaves run_cycle.  APScheduler logs that of
\* the job; that of the initial cycle reaches main(), which stops the application.
JobFailed ==
  /\ RecordFailure(cycle["job"], "done") /\ Goes("job", "none")
  /\ UNCHANGED <<interval, process, untilDue, trouble, dead>>

MainFailed ==
  /\ RecordFailure(cycle["main"], "done") /\ Stop(cycle["job"])
  /\ UNCHANGED <<interval, untilDue, trouble>>

-----------------------------------------------------------------------------
(***************************************************************************)
(* The scheduler, the process and the world around it.                     *)
(***************************************************************************)

\* The trigger fires; with max_instances=1 the run is skipped while the job's last
\* cycle is not over.
TriggerFires ==
  /\ process = "up" /\ untilDue = 0
  /\ untilDue' = interval
  /\ IF cycle["job"] = "none" THEN Goes("job", "testing") ELSE UNCHANGED <<cycle, raced>>
  /\ UNCHANGED <<breaker, interval, process, trouble, dead>>

\* SIGTERM: the handler stops the application and leaves whatever main was doing.
Terminate ==
  /\ process = "up" /\ Stop(cycle["job"])
  /\ UNCHANGED <<breaker, interval, untilDue, trouble>>

\* The interpreter waits for the job's thread; the breaker was in memory.
Exit ==
  /\ process = "exiting" /\ cycle = NoCycles
  /\ process' = "down"
  /\ dead' = FALSE /\ raced' = FALSE
  /\ NewBreaker
  /\ UNCHANGED <<interval, cycle, untilDue, trouble>>

\* systemd starts it again (Restart=always).  startup() connects to both servers:
\* while one is out of reach it raises, and the process ends where it began.
Restart ==
  /\ process = "down" /\ "servers" \notin trouble
  /\ process' = "up" /\ cycle' = [NoCycles EXCEPT !["main"] = "testing"]
  /\ untilDue' = interval
  /\ UNCHANGED <<breaker, interval, trouble, dead, raced>>

\* The trigger is not late and the breaker's methods take no time; a refused cycle
\* gets to recording within one tick.  A running cycle takes any time: it waits
\* between its attempts.
Tick ==
  /\ process = "up" => untilDue > 0
  /\ \A th \in Thread : cycle[th] \in {"none", "running", "hit", "refused"}
  /\ TimePasses
  /\ untilDue' = IF process = "up" THEN untilDue - 1 ELSE untilDue
  /\ cycle' = [th \in Thread |-> IF cycle[th] = "refused" THEN "refusedLate" ELSE cycle[th]]
  /\ UNCHANGED <<interval, process, trouble, dead, raced>>

\* Trouble begins; that of a server may kill a connection that is open.
TroubleBegins(o) ==
  /\ o \notin trouble /\ trouble' = trouble \cup {o}
  /\ cycle' = [th \in Thread |-> IF cycle[th] = "running" THEN "hit" ELSE cycle[th]]
  /\ dead' \in {dead, dead \/ (o = "servers" /\ process # "down")}
  /\ UNCHANGED <<breaker, interval, process, untilDue, raced>>

TroubleEnds(o) ==
  /\ o \in trouble /\ trouble' = trouble \ {o}
  /\ UNCHANGED <<breaker, interval, process, cycle, untilDue, dead, raced>>

-----------------------------------------------------------------------------
Step(th) ==
  \/ Allow(th) \/ CycleSucceeds(th) \/ CycleFails(th) \/ Succeed(th) \/ Fail(th)

Next ==
  \/ \E th \in Thread : Step(th)
  \/ JobFailed \/ MainFailed
  \/ TriggerFires \/ Terminate \/ Exit \/ Restart
  \/ Tick
  \/ \E o \in Trouble : TroubleBegins(o) \/ TroubleEnds(o)

Spec == Init /\ [][Next]_vars

\* Threads are scheduled, the trigger fires, systemd restarts, time passes.
Fairness ==
  /\ WF_vars(Step("job") \/ JobFailed) /\ WF_vars(Step("main") \/ MainFailed)
  /\ WF_vars(TriggerFires) /\ WF_vars(Exit) /\ WF_vars(Restart) /\ WF_vars(Tick)

FairSpec == Spec /\ Fairness

-----------------------------------------------------------------------------
TypeOK ==
  /\ BreakerTypeOK
  /\ interval \in Intervals
  /\ process \in {"up", "exiting", "down"}
  /\ cycle \in [Thread -> CycleState]
  /\ untilDue \in 0..interval
  /\ trouble \subseteq Trouble /\ dead \in BOOLEAN /\ raced \in BOOLEAN

\* Between methods the fields of the breaker agree with its state, although two
\* threads use it, unless they were once inside its methods at the same time: such a
\* race may leave an open breaker without opened_at, or without the failures.
FieldsMatchState ==
  process = "up" /\ ~raced /\ (\A th \in Thread : cycle[th] \notin Inside) => Agree

\* A half-open breaker has its probe, raced or not: the cycle that half-opened it is
\* in the job's thread and has yet to assign its outcome to state, so that HALF_OPEN
\* never needs the half_open_timeout to be left.
ProbeIsAlive ==
  state = "HALF_OPEN" =>
    cycle["job"] \in {"halfStamping", "running", "hit", "resetting", "closing",
                      "counting", "judging", "opening"}

\* With an interval above the timeout an open breaker tries again: it admits a probe,
\* or the process ends.  What a race left heals, too.
OpenIsProbed == (interval > Timeout /\ state = "OPEN") ~> state # "OPEN"

\* With such an interval, when trouble is over for good and no connection died in it,
\* the breaker closes and stays closed.
TroubleOverBreakerCloses ==
  interval > Timeout /\ <>[](trouble = {} /\ ~dead) => <>[](state = "CLOSED")

\* "que el servicio sobreviva a una interrupcion temporal de red o SQL Server":
\* when trouble is over for good, the breaker closes and stays closed.
SurvivesOutages == <>[](trouble = {}) => <>[](state = "CLOSED")

\* With an interval below the timeout no breaker is ever half-open, but for a race.
RefusedForever == interval < Timeout /\ process = "up" /\ ~raced => state # "HALF_OPEN"

\* Open, with the initial cycle over.
Shut ==
  /\ interval < Timeout /\ process = "up" /\ ~raced
  /\ state = "OPEN" /\ cycle["main"] = "none"

\* With an interval below the timeout a breaker that is open, once the initial cycle is
\* over, stays open until the process ends: each cycle it refuses is recorded as a
\* failure, before the timeout that the one before it started is over.
ShutUntilRestart == [][Shut => Shut' \/ process' # "up"]_vars
=============================================================================
