-------------------------- MODULE ConflictResolver --------------------------
(***************************************************************************)
(* The change records the service moves (src/models/sync_operation.py) and *)
(* the resolution of the changes two databases made to one table           *)
(* (src/core/conflict_resolver.py).                                        *)
(*                                                                         *)
(* A record stands for a (table_name, record_id) pair, the key of the two  *)
(* dictionaries of resolve().  A row's content is a number, Absent when    *)
(* there is no row; it names the write the content comes from, which is    *)
(* all the properties need of a payload.                                   *)
(***************************************************************************)
EXTENDS Naturals, SequencesExt

CONSTANTS
  Record,     \* the (table, primary key) pairs that are synchronized
  Strategy    \* the setting conflict_resolution

Absent == 0

OperationType == {"I", "U", "D"}

\* A detected change.  data is the row read with it, None (Absent) for a
\* delete; timestamp is the clock of the service when it built the record.
SyncOperation ==
  [record : Record, type : OperationType, version : Nat, data : Nat, timestamp : Nat]

-----------------------------------------------------------------------------
(***************************************************************************)
(* resolve(L, R).  CHANGETABLE returns one row per key, so each side holds *)
(* at most one operation on a record, as the dictionaries do.              *)
(***************************************************************************)

\* _choose_winner: the local operation wins.
LocalWins(l, r) ==
  IF Strategy = "timestamp_priority" /\ l.timestamp # r.timestamp
  THEN l.timestamp >= r.timestamp
  ELSE l.version >= r.version

BothDelete(l, r) == l.type = "D" /\ r.type = "D"

Opponents(o, ops) == {p \in ops : p.record = o.record}

LocalToRemote(L, R) ==
  {l \in L : \A r \in Opponents(l, R) : ~BothDelete(l, r) /\ LocalWins(l, r)}

\* Mutant: the remote operation is kept though the local one won.
RemoteToLocal_KeepsLoser(L, R) ==
  {r \in R : \A l \in Opponents(r, L) : ~BothDelete(l, r)}

RemoteToLocal(L, R) ==
  {r \in R : \A l \in Opponents(r, L) : ~BothDelete(l, r) /\ ~LocalWins(l, r)}

\* The lists resolve() may return for one direction: first the winners of the
\* conflicts, in the order a set of keys is walked, then the operations without
\* an opponent, in the order CHANGETABLE returned them.  Both orders are
\* arbitrary.
Listings(ops, others) ==
  LET won == {o \in ops : Opponents(o, others) # {}}
  IN  {p[1] \o p[2] : p \in SetToSeqs(won) \X SetToSeqs(ops \ won)}
=============================================================================
