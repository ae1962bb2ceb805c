--------------------------- MODULE CircuitBreaker ---------------------------
(***************************************************************************)
(* The breaker of src/utils/circuit_breaker.py.  Its methods take no lock, *)
(* so each is a relation between the points of a thread inside it: one     *)
(* step reads one field or assigns one, and what another thread does comes *)
(* between.  (failure_count += 1 is one step; so are the two readings of   *)
(* half_opened_at in line 45, where None refuses in either.)               *)
(*                                                                         *)
(* utc_now() is modelled by ages: opened_at holds how long ago the breaker *)
(* opened, up to timeout_seconds, beyond which allow_request sees no       *)
(* difference; None is -1.  failure_count stops at failure_threshold, the  *)
(* only number it is compared with.  half_open_request_in_flight is        *)
(* assigned and never read; it is left out.                                *)
(***************************************************************************)
EXTENDS Integers

CONSTANTS
  FailureThreshold,  \* failure_threshold
  Timeout,           \* timeout_seconds, in ticks
  HalfOpenTimeout    \* half_open_timeout_seconds, in ticks

ASSUME BreakerAssumption ==
  /\ FailureThreshold \in Nat \ {0}
  /\ Timeout \in Nat \ {0}
  /\ HalfOpenTimeout \in Nat \ {0}

VARIABLES
  state,
  failure_count,
  opened_at,
  half_opened_at

breaker == <<state, failure_count, opened_at, half_opened_at>>

None == -1

Assign(s, count, opened, halfOpened) ==
  /\ state' = s /\ failure_count' = count
  /\ opened_at' = opened /\ half_opened_at' = halfOpened

\* A new CircuitBreaker, as the service starts with one.
BreakerInit ==
  /\ state = "CLOSED" /\ failure_count = 0
  /\ opened_at = None /\ half_opened_at = None

NewBreaker == Assign("CLOSED", 0, None, None)

-----------------------------------------------------------------------------
(***************************************************************************)
(* The methods.  The first point of each lies before its first access.     *)
(***************************************************************************)
AskPoint     == {"testing", "asking", "dating", "timing", "halfOpening", "halfStamping",
                 "askingHalf", "timingHalf", "reopening", "restamping", "forgetting"}
SuccessPoint == {"resetting", "closing", "unstamping", "clearing"}
FailurePoint == {"counting", "judging", "comparing", "opening", "stamping", "unhalving"}

Point  == AskPoint \cup SuccessPoint \cup FailurePoint
Inside == Point \ {"testing", "resetting", "counting"}

\* allow_request, up to the point where it decides.  A success of the other thread
\* may take opened_at away before line 38: the TypeError leaves allow_request, and
\* run_cycle records it as it does a refusal.
Asks(p, q) ==
  /\ \/ p = "testing"    /\ q = IF state = "CLOSED" THEN "allowed" ELSE "asking"
     \/ p = "asking"     /\ q = IF state = "OPEN" THEN "dating" ELSE "askingHalf"
     \/ p = "dating"     /\ q = IF opened_at # None THEN "timing" ELSE "askingHalf"
     \/ p = "timing"     /\ q = IF opened_at >= Timeout THEN "halfOpening" ELSE "refused"
     \/ p = "askingHalf" /\ q = IF state = "HALF_OPEN" THEN "timingHalf" ELSE "refused"
     \/ p = "timingHalf" /\ q = IF half_opened_at >= HalfOpenTimeout
                                THEN "reopening" ELSE "refused"
  /\ UNCHANGED breaker

\* Its assignments.
HalfOpens(p, q) ==
  \/ p = "halfOpening" /\ q = "halfStamping"
       /\ Assign("HALF_OPEN", failure_count, opened_at, half_opened_at)
  \/ p = "halfStamping" /\ q = "allowed" /\ Assign(state, failure_count, opened_at, 0)

Reopens(p, q) ==
  \/ p = "reopening" /\ q = "restamping"
       /\ Assign("OPEN", failure_count, opened_at, half_opened_at)
  \/ p = "restamping" /\ q = "forgetting" /\ Assign(state, failure_count, 0, half_opened_at)
  \/ p = "forgetting" /\ q = "refused" /\ Assign(state, failure_count, opened_at, None)

AllowRequest(p, q) == Asks(p, q) \/ HalfOpens(p, q) \/ Reopens(p, q)

\* Mutant: a success only resets the counter.
RecordSuccess_OnlyCounts(p, q) ==
  p = "resetting" /\ q = "done" /\ Assign(state, 0, opened_at, half_opened_at)

RecordSuccess(p, q) ==
  \/ p = "resetting"  /\ q = "closing"    /\ Assign(state, 0, opened_at, half_opened_at)
  \/ p = "closing"    /\ q = "unstamping"
       /\ Assign("CLOSED", failure_count, opened_at, half_opened_at)
  \/ p = "unstamping" /\ q = "clearing"   /\ Assign(state, failure_count, None, half_opened_at)
  \/ p = "clearing"   /\ q = "done"       /\ Assign(state, failure_count, opened_at, None)

Incremented == IF failure_count = FailureThreshold THEN failure_count ELSE failure_count + 1

Counts(p, q) ==
  p = "counting" /\ q = "judging" /\ Assign(state, Incremented, opened_at, half_opened_at)

\* Mutant: only the threshold opens the breaker, a failed probe does not.
Judges_IgnoresProbe(p, q) ==
  /\ \/ p = "judging"   /\ q = "comparing"
     \/ p = "comparing" /\ q = IF state = "CLOSED" /\ failure_count >= FailureThreshold
                               THEN "opening" ELSE "done"
  /\ UNCHANGED breaker

\* Whether the failure opens the breaker.
Judges(p, q) ==
  /\ \/ p = "judging"   /\ q = IF state = "HALF_OPEN" THEN "opening" ELSE "comparing"
     \/ p = "comparing" /\ q = IF failure_count >= FailureThreshold THEN "opening" ELSE "done"
  /\ UNCHANGED breaker

\* Mutant: the breaker does not note when it opens.
Opens_NoOpenedAt(p, q) ==
  \/ p = "opening"   /\ q = "unhalving" /\ Assign("OPEN", failure_count, opened_at, half_opened_at)
  \/ p = "unhalving" /\ q = "done"      /\ Assign(state, failure_count, opened_at, None)

\* Mutant: it notes only the first time.
Opens_Once(p, q) ==
  \/ p = "opening"   /\ q = "stamping"
       /\ Assign("OPEN", failure_count, opened_at, half_opened_at)
  \/ p = "stamping"  /\ q = "unhalving"
       /\ Assign(state, failure_count, IF opened_at = None THEN 0 ELSE opened_at, half_opened_at)
  \/ p = "unhalving" /\ q = "done"      /\ Assign(state, failure_count, opened_at, None)

\* Mutant: it does not forget when the probe began.
Opens_KeepsHalfOpenedAt(p, q) ==
  \/ p = "opening"   /\ q = "stamping" /\ Assign("OPEN", failure_count, opened_at, half_opened_at)
  \/ p = "stamping"  /\ q = "done"     /\ Assign(state, failure_count, 0, half_opened_at)

Opens(p, q) ==
  \/ p = "opening"   /\ q = "stamping"
       /\ Assign("OPEN", failure_count, opened_at, half_opened_at)
  \/ p = "stamping"  /\ q = "unhalving" /\ Assign(state, failure_count, 0, half_opened_at)
  \/ p = "unhalving" /\ q = "done"      /\ Assign(state, failure_count, opened_at, None)

RecordFailure(p, q) == Counts(p, q) \/ Judges(p, q) \/ Opens(p, q)

-----------------------------------------------------------------------------
\* A tick of the clock, for an age that stops at a limit.
Older(age, limit) == IF age = None \/ age = limit THEN age ELSE age + 1

TimePasses ==
  Assign(state, failure_count, Older(opened_at, Timeout), Older(half_opened_at, HalfOpenTimeout))

-----------------------------------------------------------------------------
BreakerTypeOK ==
  /\ state \in {"CLOSED", "OPEN", "HALF_OPEN"}
  /\ failure_count \in 0..FailureThreshold
  /\ opened_at \in -1..Timeout
  /\ half_opened_at \in -1..HalfOpenTimeout

\* The fields agree with the state: the breaker is closed exactly while fewer than
\* failure_threshold failures in a row were recorded; one that is not closed knows
\* since when, so that it can time out, and a half-open one since when it probes.
Agree ==
  /\ state = "CLOSED" <=> failure_count < FailureThreshold
  /\ state = "CLOSED" <=> opened_at = None
  /\ state = "HALF_OPEN" <=> half_opened_at # None
=============================================================================
