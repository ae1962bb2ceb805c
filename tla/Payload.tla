------------------------------ MODULE Payload ------------------------------
(***************************************************************************)
(* What a row's content becomes on its way to the other database: the      *)
(* operation src/detectors/sql_server_detector.py builds, its storage in   *)
(* PendingOperations (src/core/engine.py), and the statements of           *)
(* src/processors/batch_processor.py.                                      *)
(***************************************************************************)
EXTENDS Naturals

CONSTANTS
  Column,        \* the columns of a table
  Key,           \* those of its primary key
  Generated,     \* those SQL Server writes itself: timestamp, rowversion
  VersionColumn, \* version_column, excluded by its name
  Plain, Binary, \* values: those that come back from JSON as they were (or as a text
                 \* SQL Server converts back), and bytes
  Hex,           \* Hex[b]: the text json.dumps stores for the bytes b
  Null

\* Change tracking takes only tables with a primary key, which users write; the JSON
\* of bytes is neither those bytes nor a text SQL Server converts.
ASSUME PayloadAssumption ==
  /\ Key # {} /\ Key \subseteq Column /\ Key \cap Generated = {}
  /\ \A b \in Binary : Hex[b] \notin Plain \cup Binary

VARIABLES
  row,     \* a row of one database
  copy,    \* the row with that key in the other database
  refused, \* whether the other database refused a statement; the operation stays
           \* pending, each replay raises again, and nothing comes after it
  listed,  \* of the last operation: whether INFORMATION_SCHEMA named the columns,
  queued   \* and whether it went through PendingOperations

content == <<row, copy, refused, listed, queued>>

NoRow == [c \in Column |-> Null]

Row == {r \in [Column -> Plain \cup Binary \cup {Null}] :
          /\ \A c \in Key : r[c] # Null
          /\ \A c \in Generated \cap Column : r[c] \in Binary}

\* _get_writable_columns; its None makes detect_changes select T.*.
Selected(l) == IF l THEN Column \ (Key \cup Generated) ELSE Column

\* The columns a payload may carry.
Carried(l) == Selected(l) \ (Key \cup {VersionColumn})

\* Mutant: what JSON cannot hold is left out.
Normalized_OnlyPlain(r, l) == [c \in {c \in Carried(l) : r[c] \in Plain} |-> r[c]]

\* _normalize_payload.
Normalized(r, l) == [c \in {c \in Carried(l) : r[c] # Null} |-> r[c]]

\* What the detector makes of a row; the payload of a DELETE is not used.
Operation(r, l) == [pk_values |-> [c \in Key |-> r[c]], data |-> Normalized(r, l)]

\* Dumped to JSON and loaded again.
Reloaded(values) ==
  [c \in DOMAIN values |-> IF values[c] \in Binary THEN Hex[values[c]] ELSE values[c]]

\* What reaches the processor, at once or through the queue.
Sent(r, l, q) ==
  LET change == Operation(r, l)
  IN  IF q THEN [pk_values |-> Reloaded(change.pk_values), data |-> Reloaded(change.data)]
      ELSE change

-----------------------------------------------------------------------------
RowInit ==
  row = NoRow /\ copy = NoRow /\ refused = FALSE /\ listed = TRUE /\ queued = FALSE

\* An operation that comes this way.
Comes(l, q) == ~refused /\ listed' = l /\ queued' = q

\* SQL Server does not convert a text to the type of a binary column.
Converts(values) == \A c \in DOMAIN values : values[c] \in Plain \cup Binary

\* Nor does it take a value for a column it generates.
Accepts(payload) == Converts(payload) /\ DOMAIN payload \cap Generated = {}

Executes(next) == copy' = next /\ UNCHANGED refused

Refuses == refused' = TRUE /\ UNCHANGED copy

\* A statement WHERE the key has these values: a text compared with a binary key is
\* refused, or converted the other way and equal to none.
Where(pk_values, next) ==
  IF Converts(pk_values) THEN Executes(next)
  ELSE refused' \in BOOLEAN /\ UNCHANGED copy

\* INSERT names the key and the payload; the other columns are NULL, or generated
\* (NULL here).  A copy that a DELETE missed is the duplicate key of SyncEngine.
Insert(r, l, q) ==
  LET change == Sent(r, l, q)
  IN  /\ Comes(l, q) /\ row = NoRow /\ copy = NoRow
      /\ row' = r
      /\ IF Converts(change.pk_values) /\ Accepts(change.data)
         THEN Executes([c \in Column |->
                          IF c \in Key THEN change.pk_values[c]
                          ELSE IF c \in DOMAIN change.data THEN change.data[c] ELSE Null])
         ELSE Refuses

\* UPDATE sets the columns of the payload; an empty payload runs no statement.
Update(r, l, q) ==
  LET change == Sent(r, l, q)
  IN  /\ Comes(l, q) /\ row # NoRow /\ \A c \in Key : r[c] = row[c]
      /\ row' = r
      /\ IF DOMAIN change.data = {} THEN UNCHANGED <<copy, refused>>
         ELSE IF Accepts(change.data)
         THEN Where(change.pk_values,
                [c \in Column |->
                   IF c \in DOMAIN change.data THEN change.data[c] ELSE copy[c]])
         ELSE Refuses

Delete(l, q) ==
  /\ Comes(l, q) /\ row # NoRow
  /\ row' = NoRow
  /\ Where(Sent(row, l, q).pk_values, NoRow)

RowNext ==
  \E l \in BOOLEAN, q \in BOOLEAN :
    (\E r \in Row : Insert(r, l, q) \/ Update(r, l, q)) \/ Delete(l, q)

-----------------------------------------------------------------------------
\* The copy is there when the row is, with its key and its value in every column a
\* payload carries, but for those where the row has become NULL.
Follows ==
  /\ \A c \in Key : copy[c] = row[c]
  /\ \A c \in Carried(TRUE) : row[c] # Null => copy[c] = row[c]

\* What _json_default makes of bytes in the key or in the payload, and T.* of a table
\* with a generated column.
Harmed ==
  \/ queued /\ \/ \E c \in Key : Binary \cap {row[c], copy[c]} # {}
               \/ \E c \in Carried(TRUE) : row[c] \in Binary
  \/ ~listed /\ Carried(FALSE) \cap Generated # {}

\* After any series of writes the copy follows the row and nothing was refused, unless
\* the last operation had bytes and went through the queue, or was built from T.* with a
\* generated column in it.  One harmed before leaves nothing behind that a later
\* operation does not put right, or it stopped the queue.
CopyFollowsRow == Harmed \/ (Follows /\ ~refused)
=============================================================================
