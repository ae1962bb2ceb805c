---------------------------- MODULE MCSyncEngine ----------------------------
(***************************************************************************)
(* Instances of SyncEngine for TLC: one or two records, in one table or in *)
(* a table each.                                                           *)
(***************************************************************************)
EXTENDS SyncEngine

CONSTANTS r1, r2

OneRecord  == {r1}
TwoRecords == {r1, r2}

OneTable  == [r \in Record |-> 1]
TwoTables == [r \in Record |-> IF r = r1 THEN 1 ELSE 2]

SmallBatch == [t \in Tables |-> 1]
LargeBatch == [t \in Tables |-> 2]

Both       == {Local, Remote}
OnlyLocal  == {Local}
AllEdits   == {"I", "U", "D"}
NoDeletes  == {"I", "U"}
NoInserts  == {"U", "D"}
Updates    == {"U"}
Inserts    == {"I"}
=============================================================================
