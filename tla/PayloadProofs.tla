---------------------------- MODULE PayloadProofs ----------------------------
(***************************************************************************)
(* A theorem about Payload, for any columns, keys, values and series of    *)
(* writes.                                                                 *)
(***************************************************************************)
EXTENDS Payload, TLAPS

RowSpec == RowInit /\ [][RowNext]_content

\* As long as the row is there, the copy has its key, unless a statement was refused.
\* A deletion that missed leaves the old key in the copy, which is what excuses it.
PayloadInv ==
  /\ row = NoRow \/ row \in Row
  /\ refused \in BOOLEAN
  /\ ~refused /\ row # NoRow => \A c \in Key : copy[c] = row[c]
  /\ CopyFollowsRow

-----------------------------------------------------------------------------
\* A payload names the carried columns in which the row is not NULL.
LEMMA SentColumns ==
  ASSUME NEW r, NEW l, NEW q
  PROVE  /\ DOMAIN Sent(r, l, q).data = {c \in Carried(l) : r[c] # Null}
         /\ DOMAIN Sent(r, l, q).pk_values = Key
BY DEF Sent, Operation, Normalized, Reloaded

\* What is sent for a column is the row's value, or the JSON of its bytes.
LEMMA SentValues ==
  ASSUME NEW r, NEW l, NEW q
  PROVE  /\ \A c \in DOMAIN Sent(r, l, q).data :
              Sent(r, l, q).data[c] =
                IF q /\ r[c] \in Binary THEN Hex[r[c]] ELSE r[c]
         /\ \A c \in Key :
              Sent(r, l, q).pk_values[c] =
                IF q /\ r[c] \in Binary THEN Hex[r[c]] ELSE r[c]
<1>1. CASE q
  <2>1. /\ Sent(r, l, q).data = Reloaded(Normalized(r, l))
        /\ Sent(r, l, q).pk_values = Reloaded([c \in Key |-> r[c]])
    BY <1>1 DEF Sent, Operation
  <2>2. \A c \in {c \in Carried(l) : r[c] # Null} :
          Reloaded(Normalized(r, l))[c] = IF r[c] \in Binary THEN Hex[r[c]] ELSE r[c]
    BY DEF Reloaded, Normalized
  <2>3. \A c \in Key : Reloaded([d \in Key |-> r[d]])[c] =
                         IF r[c] \in Binary THEN Hex[r[c]] ELSE r[c]
    BY DEF Reloaded
  <2> QED
    BY <1>1, <2>1, <2>2, <2>3, SentColumns
<1>2. CASE ~q
  <2>1. /\ Sent(r, l, q).data = Normalized(r, l)
        /\ Sent(r, l, q).pk_values = [c \in Key |-> r[c]]
    BY <1>2 DEF Sent, Operation
  <2> QED
    BY <1>2, <2>1, SentColumns DEF Normalized
<1> QED
  BY <1>1, <1>2

\* Values that SQL Server converts are the row's, however they came.
LEMMA ConvertedIsExact ==
  ASSUME NEW r, NEW l, NEW q
  PROVE  /\ Converts(Sent(r, l, q).data)
              => \A c \in DOMAIN Sent(r, l, q).data : Sent(r, l, q).data[c] = r[c]
         /\ Converts(Sent(r, l, q).pk_values)
              => \A c \in Key : Sent(r, l, q).pk_values[c] = r[c]
BY SentColumns, SentValues, PayloadAssumption DEF Converts

\* Those it does not convert are the JSON of bytes.
LEMMA UnconvertedHasBytes ==
  ASSUME NEW r \in Row, NEW l \in BOOLEAN, NEW q
  PROVE  /\ ~Converts(Sent(r, l, q).pk_values) => q /\ \E c \in Key : r[c] \in Binary
         /\ ~Converts(Sent(r, l, q).data) => q /\ \E c \in Carried(l) : r[c] \in Binary
<1>1. \A c \in Key : c \in Column /\ r[c] \in Plain \cup Binary
  BY PayloadAssumption DEF Row
<1>2. \A c \in Carried(l) : c \in Column /\ (r[c] # Null => r[c] \in Plain \cup Binary)
  BY DEF Row, Carried, Selected
<1> QED
  BY <1>1, <1>2, SentColumns, SentValues DEF Converts

\* What T.* carries beyond the listed columns is generated.
LEMMA CarriedColumns ==
  ASSUME NEW l \in BOOLEAN
  PROVE  /\ Carried(TRUE) \subseteq Carried(l)
         /\ Carried(TRUE) \cap Generated = {}
         /\ Carried(l) \ Carried(TRUE) \subseteq Generated
         /\ Carried(l) \subseteq Column
         /\ Carried(l) \cap Key = {}
         /\ l => Carried(l) = Carried(TRUE)
BY DEF Carried, Selected

\* What a payload has of the carried columns, however its columns were selected.
LEMMA SentCarried ==
  ASSUME NEW r, NEW l \in BOOLEAN, NEW q
  PROVE  /\ \A c \in Carried(TRUE) :
              /\ c \in Column /\ c \notin Key
              /\ r[c] # Null => c \in DOMAIN Sent(r, l, q).data
         /\ \A c \in Key : c \in Column /\ c \notin DOMAIN Sent(r, l, q).data
<1>1. DOMAIN Sent(r, l, q).data = {c \in Carried(l) : r[c] # Null}
  BY SentColumns
<1>2. /\ Carried(TRUE) \subseteq Carried(l) /\ Carried(l) \subseteq Column
      /\ Carried(l) \cap Key = {}
  BY CarriedColumns
<1> QED
  BY <1>1, <1>2, PayloadAssumption

\* SQL Server refuses a payload for bytes that went through the queue, or for a column
\* that it generates.
LEMMA UnacceptedIsHarmed ==
  ASSUME NEW r \in Row, NEW l \in BOOLEAN, NEW q \in BOOLEAN,
         ~Accepts(Sent(r, l, q).data), row' = r, listed' = l, queued' = q
  PROVE  Harmed'
<1>1. CASE DOMAIN Sent(r, l, q).data \cap Generated # {}
  <2>1. PICK c \in Carried(l) : c \in Generated
    BY <1>1, SentColumns
  <2>2. ~l
    BY <2>1, CarriedColumns
  <2> QED
    BY <2>1, <2>2 DEF Harmed, Carried, Selected
<1>2. CASE ~Converts(Sent(r, l, q).data)
  <2>1. q /\ \E c \in Carried(l) : r[c] \in Binary
    BY <1>2, UnconvertedHasBytes
  <2>2. PICK c \in Carried(l) : r[c] \in Binary
    BY <2>1
  <2>3. CASE c \in Carried(TRUE)
    BY <2>1, <2>2, <2>3 DEF Harmed, Carried, Selected
  <2>4. CASE c \notin Carried(TRUE)
    <3>1. c \in Generated /\ ~l
      BY <2>4, CarriedColumns
    <3> QED
      BY <2>2, <3>1 DEF Harmed, Carried, Selected
  <2> QED
    BY <2>3, <2>4
<1> QED
  BY <1>1, <1>2 DEF Accepts

\* A row has a key.
LEMMA RowHasKey ==
  ASSUME NEW r \in Row
  PROVE  r # NoRow
<1>1. PICK c \in Key : c \in Column /\ r[c] # Null
  BY PayloadAssumption DEF Row
<1> QED
  BY <1>1 DEF NoRow

-----------------------------------------------------------------------------
\* Each operation keeps the invariant.
LEMMA InsertFollows ==
  ASSUME PayloadInv, NEW r \in Row, NEW l \in BOOLEAN, NEW q \in BOOLEAN, Insert(r, l, q)
  PROVE  PayloadInv'
<1> DEFINE change == Sent(r, l, q)
           next == [c \in Column |->
                      IF c \in Key THEN change.pk_values[c]
                      ELSE IF c \in DOMAIN change.data THEN change.data[c] ELSE Null]
<1>1. row' = r /\ listed' = l /\ queued' = q /\ refused = FALSE
  BY DEF Insert, Comes, PayloadInv
<1>2. CASE Converts(change.pk_values) /\ Accepts(change.data)
  <2>1. copy' = next /\ refused' = FALSE
    BY <1>1, <1>2 DEF Insert, Executes
  <2>2. \A c \in Key : copy'[c] = r[c]
    BY <1>2, <2>1, ConvertedIsExact, PayloadAssumption
  <2>3. \A c \in Carried(TRUE) : r[c] # Null => copy'[c] = r[c]
    <3> SUFFICES ASSUME NEW c \in Carried(TRUE), r[c] # Null PROVE copy'[c] = r[c]
      OBVIOUS
    <3>1. c \in DOMAIN change.data /\ c \in Column /\ c \notin Key
      BY SentCarried
    <3>2. change.data[c] = r[c]
      BY <1>2, <3>1, ConvertedIsExact DEF Accepts
    <3> QED
      BY <2>1, <3>1, <3>2
  <2> QED
    BY <1>1, <2>1, <2>2, <2>3 DEF PayloadInv, CopyFollowsRow, Follows
<1>3. CASE ~(Converts(change.pk_values) /\ Accepts(change.data))
  <2>1. refused' = TRUE
    BY <1>3 DEF Insert, Refuses
  <2>2. Harmed'
    <3>1. CASE ~Converts(change.pk_values)
      BY <1>1, <3>1, UnconvertedHasBytes DEF Harmed
    <3>2. CASE ~Accepts(change.data)
      BY <1>1, <3>2, UnacceptedIsHarmed
    <3> QED
      BY <1>3, <3>1, <3>2
  <2> QED
    BY <1>1, <2>1, <2>2 DEF PayloadInv, CopyFollowsRow
<1> QED
  BY <1>2, <1>3

LEMMA UpdateFollows ==
  ASSUME PayloadInv, NEW r \in Row, NEW l \in BOOLEAN, NEW q \in BOOLEAN, Update(r, l, q)
  PROVE  PayloadInv'
<1> DEFINE change == Sent(r, l, q)
           next == [c \in Column |->
                      IF c \in DOMAIN change.data THEN change.data[c] ELSE copy[c]]
<1>1. /\ row' = r /\ listed' = l /\ queued' = q /\ refused = FALSE
      /\ row # NoRow /\ \A c \in Key : r[c] = row[c]
  BY DEF Update, Comes, PayloadInv
<1>2. \A c \in Key : copy[c] = r[c]
  BY <1>1 DEF PayloadInv
<1>3. CASE DOMAIN change.data = {}
  <2>1. copy' = copy /\ refused' = FALSE
    BY <1>1, <1>3 DEF Update
  <2>2. \A c \in Carried(TRUE) : r[c] = Null
    BY <1>3, SentCarried
  <2> QED
    BY <1>1, <1>2, <2>1, <2>2 DEF PayloadInv, CopyFollowsRow, Follows
<1>4. CASE DOMAIN change.data # {} /\ ~Accepts(change.data)
  <2>1. refused' = TRUE
    BY <1>4 DEF Update, Refuses
  <2>2. Harmed'
    BY <1>1, <1>4, UnacceptedIsHarmed
  <2> QED
    BY <1>1, <2>1, <2>2 DEF PayloadInv, CopyFollowsRow
<1>5. CASE DOMAIN change.data # {} /\ Accepts(change.data)
  <2>1. Where(change.pk_values, next)
    BY <1>5 DEF Update
  <2>2. CASE Converts(change.pk_values)
    <3>1. copy' = next /\ refused' = FALSE
      BY <1>1, <2>1, <2>2 DEF Where, Executes
    <3>2. \A c \in Key : copy'[c] = r[c]
      BY <1>2, <3>1, SentCarried
    <3>3. \A c \in Carried(TRUE) : r[c] # Null => copy'[c] = r[c]
      <4> SUFFICES ASSUME NEW c \in Carried(TRUE), r[c] # Null PROVE copy'[c] = r[c]
        OBVIOUS
      <4>1. c \in DOMAIN change.data /\ c \in Column
        BY SentCarried
      <4>2. change.data[c] = r[c]
        BY <1>5, <4>1, ConvertedIsExact DEF Accepts
      <4> QED
        BY <3>1, <4>1, <4>2
    <3> QED
      BY <1>1, <3>1, <3>2, <3>3 DEF PayloadInv, CopyFollowsRow, Follows
  <2>3. CASE ~Converts(change.pk_values)
    <3>1. copy' = copy /\ refused' \in BOOLEAN
      BY <2>1, <2>3 DEF Where
    <3>2. Harmed'
      BY <1>1, <2>3, UnconvertedHasBytes DEF Harmed
    <3> QED
      BY <1>1, <1>2, <3>1, <3>2 DEF PayloadInv, CopyFollowsRow
  <2> QED
    BY <2>2, <2>3
<1> QED
  BY <1>3, <1>4, <1>5

LEMMA DeleteFollows ==
  ASSUME PayloadInv, NEW l \in BOOLEAN, NEW q \in BOOLEAN, Delete(l, q)
  PROVE  PayloadInv'
<1> DEFINE pk == Sent(row, l, q).pk_values
<1>1. /\ row' = NoRow /\ listed' = l /\ queued' = q /\ refused = FALSE /\ row \in Row
      /\ Where(pk, NoRow) /\ \A c \in Key : copy[c] = row[c]
  BY DEF Delete, Comes, PayloadInv
<1>2. CASE Converts(pk)
  <2>1. copy' = NoRow /\ refused' = FALSE
    BY <1>1, <1>2 DEF Where, Executes
  <2>2. \A c \in Carried(TRUE) : row'[c] = Null
    BY <1>1, CarriedColumns DEF NoRow
  <2> QED
    BY <1>1, <2>1, <2>2 DEF PayloadInv, CopyFollowsRow, Follows
<1>3. CASE ~Converts(pk)
  <2>1. copy' = copy /\ refused' \in BOOLEAN
    BY <1>1, <1>3 DEF Where
  <2>2. q /\ \E c \in Key : row[c] \in Binary
    BY <1>1, <1>3, UnconvertedHasBytes
  <2>3. Harmed'
    BY <1>1, <2>1, <2>2 DEF Harmed
  <2> QED
    BY <1>1, <2>1, <2>3 DEF PayloadInv, CopyFollowsRow
<1> QED
  BY <1>2, <1>3

LEMMA PayloadInit == RowInit => PayloadInv
<1> SUFFICES ASSUME RowInit PROVE PayloadInv
  OBVIOUS
<1>1. \A c \in Carried(TRUE) : row[c] = Null
  BY CarriedColumns DEF RowInit, NoRow
<1> QED
  BY <1>1 DEF RowInit, PayloadInv, CopyFollowsRow, Follows

LEMMA PayloadStep == PayloadInv /\ [RowNext]_content => PayloadInv'
<1> SUFFICES ASSUME PayloadInv, [RowNext]_content
             PROVE  PayloadInv'
  OBVIOUS
<1>1. CASE RowNext
  BY <1>1, InsertFollows, UpdateFollows, DeleteFollows DEF RowNext
<1>2. CASE UNCHANGED content
  BY <1>2 DEF content, PayloadInv, CopyFollowsRow, Follows, Harmed
<1> QED
  BY <1>1, <1>2

-----------------------------------------------------------------------------
\* The copy follows the row in every column a payload carries that is not NULL, and in
\* the key; only bytes in the key or the payload that went through the queue, or T.* of
\* a table with a generated column, stop the writes or make one miss.
THEOREM CopyFollows == RowSpec => []CopyFollowsRow
<1>1. PayloadInv => CopyFollowsRow
  BY DEF PayloadInv
<1> QED
  BY PayloadInit, PayloadStep, <1>1, PTL DEF RowSpec
=============================================================================
