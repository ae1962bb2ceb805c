------------------------------- MODULE Outbox -------------------------------
(***************************************************************************)
(* What the synchronizer promises about the changes of each source,        *)
(* however its cycle goes about it: a change is taken up before it is      *)
(* delivered or queued; a queued change stays queued, and is marked done   *)
(* only once it was delivered; the cursor of a table moves to the source's *)
(* last version only while nothing taken up is undelivered, at any source. *)
(* Deliveries may repeat.  SyncEngine implements this specification.       *)
(***************************************************************************)
EXTENDS Naturals, Sequences

CONSTANTS
  Source,   \* the databases changes come from
  Table,    \* the tables that are synchronized
  Change    \* what identifies a change of a source

VARIABLES
  last,       \* last[s]: the last version of source s
  cursor,     \* cursor[s][t]: the version up to which table t needs no attention
  open,       \* open[s]: the changes of s that are taken up
  queue,      \* queue[s]: the changes kept for later, in order, and which are done
  delivered   \* delivered[s]: the changes of s the other database has received

outbox == <<last, cursor, open, queue, delivered>>

Nothing == [s \in Source |-> {}]

Init ==
  /\ last = [s \in Source |-> 0]
  /\ cursor = [s \in Source |-> [t \in Table |-> 0]]
  /\ open = Nothing
  /\ queue = [s \in Source |-> <<>>]
  /\ delivered = Nothing

Queued(s) == {queue[s][k].change : k \in DOMAIN queue[s]}

-----------------------------------------------------------------------------
\* Somebody writes to s.
Write(s) ==
  /\ last' = [last EXCEPT ![s] = @ + 1]
  /\ UNCHANGED <<cursor, open, queue, delivered>>

TakeUp ==
  /\ open = Nothing
  /\ open' \in [Source -> SUBSET Change]
  /\ UNCHANGED <<last, cursor, queue, delivered>>

\* Given up for now: they are taken up again as long as the cursor stays.
GiveUp ==
  /\ open' = Nothing
  /\ UNCHANGED <<last, cursor, queue, delivered>>

\* A batch is delivered at once; it may be a write of its own at the other source.
Deliver(s, batch) ==
  /\ batch \subseteq open[s] \cup Queued(s)
  /\ delivered' = [delivered EXCEPT ![s] = @ \cup batch]
  /\ \E moved \in SUBSET (Source \ {s}) :
       last' = [o \in Source |-> IF o \in moved THEN last[o] + 1 ELSE last[o]]
  /\ open' \in {open, Nothing}
  /\ UNCHANGED <<cursor, queue>>

Enqueue(s, change) ==
  /\ change \in open[s]
  /\ queue' = [queue EXCEPT ![s] = Append(@, [change |-> change, done |-> FALSE])]
  /\ UNCHANGED <<last, cursor, open, delivered>>

\* Every entry of a delivered change is done, and no other.
Complete(s, change) ==
  /\ change \in delivered[s]
  /\ queue' = [queue EXCEPT ![s] = [k \in DOMAIN @ |->
                 IF @[k].change = change THEN [@[k] EXCEPT !.done = TRUE] ELSE @[k]]]
  /\ UNCHANGED <<last, cursor, open, delivered>>

Advance(s, t) ==
  /\ \A o \in Source : open[o] \subseteq delivered[o]
  /\ cursor' = [cursor EXCEPT ![s][t] = last[s]]
  /\ open' \in {open, Nothing}
  /\ UNCHANGED <<last, queue, delivered>>

Next ==
  \/ TakeUp \/ GiveUp
  \/ \E s \in Source :
       \/ Write(s)
       \/ \E batch \in SUBSET (open[s] \cup Queued(s)) : Deliver(s, batch)
       \/ \E change \in open[s] : Enqueue(s, change)
       \/ \E change \in delivered[s] : Complete(s, change)
       \/ \E t \in Table : Advance(s, t)

Spec == Init /\ [][Next]_outbox
=============================================================================
