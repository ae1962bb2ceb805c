----------------------------- MODULE Connector -----------------------------
(***************************************************************************)
(* One SQLServerConnector (src/connectors/base.py) and the threads that    *)
(* share it: the threads that run cycles (main's initial cycle and the     *)
(* scheduler's job), the health server's handlers, and the main thread     *)
(* when it stops the service.  A step is one statement on the server or    *)
(* one access to the attributes _connection and _transaction_depth; a      *)
(* connection may die and a statement may fail.                            *)
(*                                                                         *)
(* The work of a cycle is a series of calls: a batch is a transaction of   *)
(* BatchSize statements (BatchProcessor), a single is an execute_non_query *)
(* (StateManager, PendingOperations), a query changes nothing.             *)
(***************************************************************************)
EXTENDS Naturals, FiniteSets

CONSTANTS
  Cycler,       \* the threads that run cycles
  Prober,       \* the threads of the health server
  Main,         \* the main thread; it may run the initial cycle
  BatchSize,    \* statements of a batch
  MaxCalls,     \* bound on the calls of a thread
  MaxSessions,  \* bound on the connections opened
  MaxFaults     \* bound on the failures

Thread  == Cycler \cup Prober
Session == 1..MaxSessions
Call    == {"batch", "single", "query"}

ASSUME ConnectorAssumption ==
  /\ IsFiniteSet(Cycler) /\ IsFiniteSet(Prober)
  /\ Cycler \cap Prober = {} /\ Main \notin Prober
  /\ BatchSize \in Nat \ {0}
  /\ MaxCalls \in Nat /\ MaxSessions \in Nat \ {0} /\ MaxFaults \in Nat

VARIABLES
  connection,  \* _connection: a session, or NoSession for None
  depth,       \* _transaction_depth
  status,      \* status[c]: what the server knows of session c
  work,        \* work[c]: statements of c that are not committed
  pc, kind,    \* where each thread is, in which call
  calls,       \* how many calls it has begun
  held,        \* the local variable connection of its call
  done,        \* statements its call has executed
  stopped,     \* whether stop() was called
  committed,   \* history: the statements committed
  reported,    \* history: the statements of calls that returned
  overlapped,  \* history: the calls of cycles that ran while another cycle's did
  faults

attributes == <<connection, depth>>
server     == <<status, work, committed>>
thread     == <<pc, kind, calls, held, done>>
vars       == <<attributes, server, thread, stopped, reported, overlapped, faults>>

NoSession == 0

\* "transaction" and the points after it are inside transaction().
Inside == {"transaction", "commit", "except", "rollback", "leave", "raise", "unwind"}
Point  == {"out", "require", "connecting", "execute", "commitSingle", "gone"} \cup Inside

\* A statement is named by its thread, the number of the call, and its place in a
\* batch, 0 outside a batch.
Statement == Cycler \X (1..MaxCalls) \X (0..BatchSize)
StatementsOf(th) ==
  IF kind[th] = "batch" THEN {<<th, calls[th], n>> : n \in 1..BatchSize}
  ELSE {<<th, calls[th], 0>>}

\* engine.startup() has connected; the scheduler and the health server run.
Init ==
  /\ connection = 1 /\ depth = 0
  /\ status = [c \in Session |-> IF c = 1 THEN "open" ELSE "unused"]
  /\ work = [c \in Session |-> {}]
  /\ pc = [th \in Thread |-> "out"] /\ kind = [th \in Thread |-> "query"]
  /\ calls = [th \in Thread |-> 0] /\ held = [th \in Thread |-> NoSession]
  /\ done = [th \in Thread |-> 0]
  /\ stopped = FALSE /\ faults = 0
  /\ committed = {} /\ reported = {} /\ overlapped = {}

-----------------------------------------------------------------------------
Goes(th, point) == pc' = [pc EXCEPT ![th] = point]

Fault == faults < MaxFaults /\ faults' = faults + 1

\* The call returns.
Returns(th) ==
  /\ Goes(th, "out")
  /\ reported' = IF kind[th] = "query" THEN reported ELSE reported \cup StatementsOf(th)

Busy == {th \in Cycler : pc[th] \notin {"out", "gone"}}

\* A thread calls the connector.
Begin(th, call) ==
  /\ pc[th] = "out" /\ calls[th] < MaxCalls
  /\ th \in Prober => call = "query" /\ ~stopped
  /\ Goes(th, "require")
  /\ kind' = [kind EXCEPT ![th] = call]
  /\ calls' = [calls EXCEPT ![th] = @ + 1]
  /\ done' = [done EXCEPT ![th] = 0]
  /\ overlapped' = IF th \in Cycler /\ Busy # {}
                   THEN overlapped \cup {<<b, calls[b]>> : b \in Busy} \cup {<<th, calls'[th]>>}
                   ELSE overlapped
  /\ UNCHANGED <<attributes, server, held, stopped, reported, faults>>

\* Mutant: transaction() does not count itself.
Uses_Uncounted(th, c) ==
  /\ held' = [held EXCEPT ![th] = c]
  /\ Goes(th, IF kind[th] = "batch" THEN "transaction" ELSE "execute")
  /\ UNCHANGED depth

\* The call has its connection; transaction() also counts itself.
Uses(th, c) ==
  /\ held' = [held EXCEPT ![th] = c]
  /\ IF kind[th] = "batch"
     THEN Goes(th, "transaction") /\ depth' = depth + 1
     ELSE Goes(th, "execute") /\ UNCHANGED depth

\* _require_connection: a connection object is used as it is, alive or dead.
Require(th) ==
  /\ pc[th] = "require"
  /\ IF connection = NoSession
     THEN Goes(th, "connecting") /\ UNCHANGED <<depth, held>>
     ELSE Uses(th, connection)
  /\ UNCHANGED <<connection, server, kind, calls, done, stopped, reported, overlapped, faults>>

\* connect() found None.  Another thread may be connecting as well: the last one
\* to assign _connection wins.
Connect(th) ==
  /\ pc[th] = "connecting"
  /\ \E c \in Session :
       /\ status[c] = "unused" /\ \A b \in Session : status[b] = "unused" => c <= b
       /\ status' = [status EXCEPT ![c] = "open"]
       /\ connection' = c
       /\ Uses(th, c)
  /\ UNCHANGED <<work, committed, kind, calls, done, stopped, reported, overlapped, faults>>

\* A statement of the call raises: transaction() handles it, the others let it
\* through (test_connection answers False).
Raises(th) == Goes(th, IF pc[th] \in Inside THEN "except" ELSE "out")

\* A statement that ran on an open session belongs to its transaction.
Run(th) ==
  LET c == held[th]
      n == IF kind[th] = "batch" THEN done[th] + 1 ELSE 0
  IN  /\ \/ pc[th] = "transaction" /\ done[th] < BatchSize
         \/ pc[th] = "execute" /\ kind[th] = "single" /\ done[th] = 0
      /\ IF status[c] = "open"
         THEN /\ work' = [work EXCEPT ![c] = @ \cup {<<th, calls[th], n>>}]
              /\ done' = [done EXCEPT ![th] = @ + 1]
              /\ UNCHANGED pc
         ELSE Raises(th) /\ UNCHANGED <<work, done>>
      /\ UNCHANGED <<attributes, status, committed, kind, calls, held, stopped, reported,
                     overlapped, faults>>

\* execute_query, which neither commits nor rolls back, whether it raises or not.
Query(th) ==
  /\ pc[th] = "execute" /\ kind[th] = "query"
  /\ Returns(th)
  /\ UNCHANGED <<attributes, server, kind, calls, held, done, stopped, overlapped, faults>>

\* execute_non_query after its statement: it commits outside a transaction only.
LeaveStatement(th) ==
  /\ pc[th] = "execute" /\ kind[th] = "single" /\ done[th] = 1
  /\ IF depth = 0 THEN Goes(th, "commitSingle") /\ UNCHANGED reported ELSE Returns(th)
  /\ UNCHANGED <<attributes, server, kind, calls, held, done, stopped, overlapped, faults>>

\* transaction() after its body: only the outermost one commits.
LeaveBody(th) ==
  /\ pc[th] = "transaction" /\ done[th] = BatchSize
  /\ Goes(th, IF depth = 1 THEN "commit" ELSE "leave")
  /\ UNCHANGED <<attributes, server, kind, calls, held, done, stopped, reported, overlapped,
                 faults>>

\* The server commits whatever the session has done, of any thread.
ServerCommits(c) ==
  /\ status[c] = "open"
  /\ committed' = committed \cup work[c]
  /\ work' = [work EXCEPT ![c] = {}]

Commit(th) ==
  /\ pc[th] \in {"commit", "commitSingle"}
  /\ \/ /\ ServerCommits(held[th])
        /\ IF pc[th] = "commit" THEN Goes(th, "leave") /\ UNCHANGED reported ELSE Returns(th)
     \/ /\ status[held[th]] # "open"
        /\ Raises(th) /\ UNCHANGED <<work, committed, reported>>
  /\ UNCHANGED <<attributes, status, kind, calls, held, done, stopped, overlapped, faults>>

\* Mutant: the exception goes through without a rollback.
Except_Through(th) ==
  /\ pc[th] = "except"
  /\ Goes(th, "raise")
  /\ UNCHANGED <<attributes, server, kind, calls, held, done, stopped, reported, overlapped,
                 faults>>

\* The except clause of transaction().
Except(th) ==
  /\ pc[th] = "except"
  /\ Goes(th, IF depth = 1 THEN "rollback" ELSE "raise")
  /\ UNCHANGED <<attributes, server, kind, calls, held, done, stopped, reported, overlapped,
                 faults>>

\* On a session that is not open it raises in turn; there is nothing left of its work.
Rollback(th) ==
  /\ pc[th] = "rollback"
  /\ work' = [work EXCEPT ![held[th]] = {}]
  /\ Goes(th, "raise")
  /\ UNCHANGED <<attributes, status, committed, kind, calls, held, done, stopped, reported,
                 overlapped, faults>>

\* Mutant: the depth goes down on the normal way out only.
Leave_OnlyNormally(th) ==
  /\ pc[th] \in {"leave", "raise"}
  /\ IF pc[th] = "leave" THEN depth' = depth - 1 /\ Returns(th)
     ELSE Goes(th, "out") /\ UNCHANGED <<depth, reported>>
  /\ UNCHANGED <<connection, server, kind, calls, held, done, stopped, overlapped, faults>>

\* The finally clause of transaction().
Leave(th) ==
  /\ pc[th] \in {"leave", "raise"}
  /\ depth' = depth - 1
  /\ IF pc[th] = "leave" THEN Returns(th) ELSE Goes(th, "out") /\ UNCHANGED reported
  /\ UNCHANGED <<connection, server, kind, calls, held, done, stopped, overlapped, faults>>

-----------------------------------------------------------------------------
(***************************************************************************)
(* stop(), from the signal handler on the main thread: disconnect() closes *)
(* the connection, whoever is using it, and the server rolls back.  Then   *)
(* SystemExit leaves whatever the main thread was doing: transaction()     *)
(* runs its finally clause, not its except clause.                         *)
(***************************************************************************)
Stop ==
  /\ ~stopped /\ stopped' = TRUE
  /\ connection' = NoSession
  /\ status' = [c \in Session |-> IF c = connection THEN "closed" ELSE status[c]]
  /\ work' = [c \in Session |-> IF c = connection THEN {} ELSE work[c]]
  /\ pc' = [th \in Thread |-> IF th # Main THEN pc[th]
                             ELSE IF pc[th] \in Inside THEN "unwind" ELSE "gone"]
  /\ UNCHANGED <<depth, committed, kind, calls, held, done, reported, overlapped, faults>>

Unwind(th) ==
  /\ pc[th] = "unwind"
  /\ depth' = depth - 1
  /\ Goes(th, "gone")
  /\ UNCHANGED <<connection, server, kind, calls, held, done, stopped, reported, overlapped,
                 faults>>

-----------------------------------------------------------------------------
(***************************************************************************)
(* Faults.                                                                 *)
(***************************************************************************)

\* The server forgets a session and what it had not committed.
SessionDies(c) ==
  /\ status[c] = "open" /\ Fault
  /\ status' = [status EXCEPT ![c] = "dead"]
  /\ work' = [work EXCEPT ![c] = {}]
  /\ UNCHANGED <<attributes, committed, thread, stopped, reported, overlapped>>

\* A statement fails, or there is no server to connect to.
StatementFails(th) ==
  /\ Fault
  /\ \/ pc[th] = "transaction" /\ done[th] < BatchSize
     \/ pc[th] = "execute" /\ kind[th] = "single" /\ done[th] = 0
     \/ pc[th] = "connecting"
  /\ Raises(th)
  /\ UNCHANGED <<attributes, server, kind, calls, held, done, stopped, reported, overlapped>>

\* The server commits and the session dies before the service knows.
CommitUnacknowledged(th) ==
  /\ pc[th] \in {"commit", "commitSingle"} /\ Fault
  /\ ServerCommits(held[th])
  /\ status' = [status EXCEPT ![held[th]] = "dead"]
  /\ Raises(th)
  /\ UNCHANGED <<attributes, kind, calls, held, done, stopped, reported, overlapped>>

-----------------------------------------------------------------------------
Step(th) ==
  \/ \E call \in Call : Begin(th, call)
  \/ Require(th) \/ Connect(th)
  \/ Run(th) \/ Query(th) \/ LeaveStatement(th) \/ LeaveBody(th) \/ Commit(th)
  \/ Except(th) \/ Rollback(th) \/ Leave(th) \/ Unwind(th)
  \/ StatementFails(th) \/ CommitUnacknowledged(th)

Next ==
  \/ \E th \in Thread : Step(th)
  \/ Stop
  \/ \E c \in Session : SessionDies(c)

Spec == Init /\ [][Next]_vars

-----------------------------------------------------------------------------
TypeOK ==
  /\ connection \in Session \cup {NoSession}
  /\ depth \in 0..Cardinality(Cycler)
  /\ status \in [Session -> {"unused", "open", "dead", "closed"}]
  /\ work \in [Session -> SUBSET Statement]
  /\ pc \in [Thread -> Point] /\ kind \in [Thread -> Call]
  /\ calls \in [Thread -> 0..MaxCalls]
  /\ held \in [Thread -> Session \cup {NoSession}]
  /\ done \in [Thread -> 0..BatchSize]
  /\ stopped \in BOOLEAN /\ faults \in 0..MaxFaults
  /\ committed \subseteq Statement /\ reported \subseteq Statement
  /\ overlapped \subseteq Cycler \X (1..MaxCalls)

\* However a transaction is left, by its end, an exception or SystemExit, the depth
\* is the number of threads inside one: a later statement outside commits.
DepthCounts == depth = Cardinality({th \in Cycler : pc[th] \in Inside})

Alone(st) == <<st[1], st[2]>> \notin overlapped

\* The places of a batch's committed statements.
Places(th, n) == {k \in 1..BatchSize : <<th, n, k>> \in committed}

\* "Replica operaciones en lotes transaccionales": all of a batch or none of it.
BatchesAreTransactional ==
  \A th \in Cycler, n \in 1..MaxCalls : Places(th, n) \in {{}, 1..BatchSize}

\* A batch that meets no other cycle is committed as a whole or not at all, even if
\* its connection dies, is closed by stop(), or carries what an overlap left behind.
AloneIsAtomic ==
  \A th \in Cycler, n \in 1..MaxCalls :
    <<th, n>> \notin overlapped => Places(th, n) \in {{}, 1..BatchSize}

\* What a call that met no other cycle was told to have written is committed.
AloneIsDurable == \A st \in reported : Alone(st) => st \in committed

\* Nothing that failed is left on a connection for a later commit to find: the
\* uncommitted statements of a call without overlap are those of a call under way.
NoStrayWork ==
  \A c \in Session : \A st \in work[c] :
    Alone(st) => pc[st[1]] \notin {"out", "gone"} /\ calls[st[1]] = st[2] /\ held[st[1]] = c
=============================================================================
