---------------------------- MODULE Dependencies ----------------------------
(***************************************************************************)
(* The check of the tables' configuration when it is loaded                *)
(* (src/utils/validators.py), and the order in which the engine runs them. *)
(* The list of tables is any of a given set; the check is Kahn's algorithm *)
(* with the bookkeeping of the code: dependencies are counted entry by     *)
(* entry, and taken back child by child.  The order in which its queue     *)
(* yields tables is arbitrary here.                                        *)
(***************************************************************************)
EXTENDS Integers, FiniteSets, Sequences

CONSTANTS
  Configurations   \* lists of tables

ASSUME ConfigurationsAssumption ==
  Configurations \subseteq
    Seq([name : STRING, dependencies : Seq(STRING), order : Nat, batch_size : Int])

VARIABLES
  tables,    \* the list being checked
  indegree,
  ready,     \* the names in queue
  visited,   \* the names taken from queue; the code counts them, which is the same,
             \* since a degree only goes down and so reaches 0 once
  verdict    \* "unread", "walking", "accepted", "rejected"

vars == <<tables, indegree, ready, visited, verdict>>

Names(list) == {list[i].name : i \in DOMAIN list}

DependsOn(list, n, d) ==
  \E i \in DOMAIN list : list[i].name = n /\ \E k \in DOMAIN list[i].dependencies :
                           list[i].dependencies[k] = d

\* graph[node].
Children(n) == {c \in Names(tables) : DependsOn(tables, c, n)}

\* The entries of all dependency lists of a name.
Entries(list, n) ==
  UNION {{<<i, k>> : k \in DOMAIN list[i].dependencies} :
           i \in {i \in DOMAIN list : list[i].name = n}}

Init ==
  /\ tables \in Configurations
  /\ indegree = [n \in Names(tables) |-> 0] /\ ready = {} /\ visited = {}
  /\ verdict = "unread"

-----------------------------------------------------------------------------
WellFormed(list) ==
  \A i \in DOMAIN list :
    /\ list[i].batch_size > 0
    /\ \A k \in DOMAIN list[i].dependencies : list[i].dependencies[k] \in Names(list)

\* The checks before the graph, and the initial degrees.
Read ==
  /\ verdict = "unread"
  /\ IF WellFormed(tables)
     THEN /\ indegree' = [n \in Names(tables) |-> Cardinality(Entries(tables, n))]
          /\ ready' = {n \in Names(tables) : Entries(tables, n) = {}}
          /\ verdict' = "walking"
     ELSE verdict' = "rejected" /\ UNCHANGED <<indegree, ready>>
  /\ UNCHANGED <<tables, visited>>

\* Mutant: a table is queued while one of its dependencies is still missing.
Visit_Early(n) ==
  /\ verdict = "walking" /\ n \in ready
  /\ indegree' = [c \in Names(tables) |-> IF c \in Children(n) THEN indegree[c] - 1 ELSE indegree[c]]
  /\ ready' = (ready \ {n}) \cup {c \in Children(n) \ visited : indegree'[c] <= 1}
  /\ visited' = visited \cup {n}
  /\ UNCHANGED <<tables, verdict>>

\* One turn of the loop.
Visit(n) ==
  /\ verdict = "walking" /\ n \in ready
  /\ indegree' = [c \in Names(tables) |-> IF c \in Children(n) THEN indegree[c] - 1 ELSE indegree[c]]
  /\ ready' = (ready \ {n}) \cup {c \in Children(n) : indegree'[c] = 0}
  /\ visited' = visited \cup {n}
  /\ UNCHANGED <<tables, verdict>>

\* The queue is empty: every entry of the list must have been visited.
Decide ==
  /\ verdict = "walking" /\ ready = {}
  /\ verdict' = IF Cardinality(visited) = Len(tables) THEN "accepted" ELSE "rejected"
  /\ UNCHANGED <<tables, indegree, ready, visited>>

Next == Read \/ (\E n \in Names(tables) : Visit(n)) \/ Decide

Spec == Init /\ [][Next]_vars

-----------------------------------------------------------------------------
\* Mutant: the engine sorts by the largest order first.
RunsBefore_Descending(list, i, j) == list[i].order > list[j].order

\* self.tables is sorted by order; ties, broken by name, are left out.
RunsBefore(list, i, j) == list[i].order < list[j].order

\* Some tables wait for each other, directly or around a longer cycle: a set of
\* tables each of which depends on a member.
Cyclic(list) ==
  \E S \in (SUBSET Names(list)) \ {{}} : \A n \in S : \E d \in S : DependsOn(list, n, d)

\* A dependency is listed twice, or a table is.
Repeats(list) ==
  \/ Cardinality(Names(list)) < Len(list)
  \/ \E i \in DOMAIN list :
       \E k, m \in DOMAIN list[i].dependencies :
         k < m /\ list[i].dependencies[k] = list[i].dependencies[m]

\* What a started service relies on: tables whose dependencies can be run first.
\* The check also turns down repeated entries, as a cycle that is not there.
VerdictIsRight ==
  /\ verdict = "accepted" => WellFormed(tables) /\ ~Cyclic(tables)
  /\ verdict = "rejected" => ~WellFormed(tables) \/ Cyclic(tables) \/ Repeats(tables)

\* The order fields put every table after those it depends on; nothing in the code
\* checks it.
RunsParentsFirst(list) ==
  \A i, j \in DOMAIN list : DependsOn(list, list[i].name, list[j].name) => RunsBefore(list, j, i)
=============================================================================
