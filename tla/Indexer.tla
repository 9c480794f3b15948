------------------------------- MODULE Indexer -------------------------------
(***************************************************************************)
(* The Jetstream indexer of apps/api (jetstreamIndexer), which copies the  *)
(* records of the network into NetworkCourse.                              *)
(*                                                                         *)
(* Jetstream keeps its events: event t is the t-th, its time is t.  The    *)
(* handlers of events run concurrently; so do the worker's connection and  *)
(* its flush timer.                                                        *)
(***************************************************************************)
EXTENDS Integers, Sequences, FiniteSets

CONSTANTS
  Keys,        \* <<did, collection, rkey>> of records
  MaxEvents,   \* bound: events of the network
  MaxFaults    \* bound: crashes of the worker, writes that the database refuses

ASSUME IndexerAssumption == MaxEvents \in Nat /\ MaxFaults \in Nat

\* The network.
VARIABLES
  timed,       \* events have the timeUs that CommitEvent declares
  log,         \* the events: their key and what they do

\* Database and Redis.
  index,       \* NetworkCourse rows: the event a row shows, 0 without a row
  cursor,      \* indexer:cursor, 0 without a number

\* The worker.
  link,        \* "down", "loaded" or "up"
  from,        \* the cursor of the present connection; then what it delivers next
  latest,      \* latestCursor, 0 for null
  dirty,       \* cursorDirty
  flushing,    \* the value a flush is writing, 0 for none
  handling,    \* events whose handler waits for the database
  faults

\* History.
VARIABLES
  received,    \* events that a connection delivered
  behind,      \* events that no connection will deliver, or whose write was lost
  together     \* keys that had two handlers at once

worker == <<link, from, latest, dirty, flushing, handling>>
network == <<timed, log, index, cursor>>
indexerVars == <<network, worker, faults, received, behind, together>>

Times == 1..MaxEvents

IndexerTypeOK ==
  /\ timed \in BOOLEAN
  /\ log \in Seq(Keys \X {"put", "invalid", "delete"}) /\ Len(log) <= MaxEvents
  /\ index \in [Keys -> 0..Len(log)]
  /\ link \in {"down", "loaded", "up"} /\ from \in 0..Len(log) + 1
  /\ {cursor, latest, flushing} \subseteq 0..Len(log)
  /\ dirty \in BOOLEAN
  /\ handling \subseteq 1..Len(log)
  /\ faults \in 0..MaxFaults
  /\ received \subseteq 1..Len(log) /\ behind \subseteq 1..Len(log)
  /\ together \subseteq Keys

-----------------------------------------------------------------------------
\* Someone publishes, updates or deletes a record.  A worker without a cursor
\* that is not connected will not hear of it: a new connection is live only.
Emit(k, what) ==
  /\ Len(log) < MaxEvents
  /\ log' = Append(log, <<k, what>>)
  /\ UNCHANGED <<timed, index, cursor, worker, faults, received, behind, together>>

\* loadCursor, after the write of the last flush.
Connect ==
  /\ link = "down" /\ flushing = 0
  /\ link' = "loaded" /\ from' = cursor
  /\ UNCHANGED <<network, latest, dirty, flushing, handling, faults, received, behind,
                 together>>

\* buildSubscribeUrl: Jetstream replays from the cursor on, or begins now.
Resume == IF from = 0 THEN Len(log) + 1 ELSE from

\* Of a live connection, the events that the worker had not received it never will.
Opened ==
  /\ link = "loaded"
  /\ link' = "up" /\ from' = Resume
  /\ behind' = behind \union
       IF from = 0 THEN 1..Len(log) \ received ELSE {}
  /\ UNCHANGED <<network, latest, dirty, flushing, handling, faults, received, together>>

\* Mutant of Dropped: the event without a record is dropped before deletions are told.
DroppedDeletes(what) == what # "put"

\* A record that is not valid, or has none, is dropped.
Dropped(what) == what = "invalid"

\* onmessage: the cursor moves at once, then the handler waits for its write.
\* `undefined`, where an event has no timeUs, would be stored as a cursor that is
\* no number, and is never sent: here it is not stored.
Receive ==
  /\ link = "up" /\ from <= Len(log)
  /\ from' = from + 1
  /\ received' = received \union {from}
  /\ IF timed THEN latest' = from /\ dirty' = TRUE ELSE UNCHANGED <<latest, dirty>>
  /\ IF Dropped(log[from][2]) THEN UNCHANGED <<handling, together>>
     ELSE /\ handling' = handling \union {from}
          /\ together' = together \union
               {k \in Keys : k = log[from][1] /\ \E t \in handling : log[t][1] = k}
  /\ UNCHANGED <<network, link, flushing, faults, behind>>

\* The write of an event's handler; it may be refused, and is not repeated.
Write(t) ==
  LET k == log[t][1] IN
  /\ t \in handling
  /\ handling' = handling \ {t}
  /\ \/ /\ index' = [index EXCEPT ![k] = IF log[t][2] = "put" THEN t ELSE 0]
        /\ behind' = behind \ {t}
        /\ UNCHANGED faults
     \/ /\ faults < MaxFaults /\ faults' = faults + 1
        /\ behind' = behind \union {t}
        /\ UNCHANGED <<index>>
  /\ UNCHANGED <<timed, log, cursor, link, from, latest, dirty, flushing, received, together>>

\* flushCursor, from the timer that runs with the connection.
BeginFlush ==
  /\ link = "up" /\ dirty /\ flushing = 0
  /\ flushing' = latest
  /\ UNCHANGED <<network, link, from, latest, dirty, handling, faults, received, behind,
                 together>>

EndFlush ==
  /\ flushing # 0
  /\ cursor' = flushing /\ flushing' = 0 /\ dirty' = FALSE
  /\ UNCHANGED <<timed, log, index, link, from, latest, handling, faults, received, behind,
                 together>>

\* The connection closes, which flushes too: the handlers go on, and the loop
\* connects again.
Disconnect ==
  /\ link = "up"
  /\ link' = "down"
  /\ flushing' = IF dirty THEN latest ELSE flushing
  /\ UNCHANGED <<network, from, latest, dirty, handling, faults, received, behind,
                 together>>

\* The worker dies, or is stopped: writes under way may be lost.
Crash ==
  /\ faults < MaxFaults /\ faults' = faults + 1
  /\ link' = "down" /\ from' = 0 /\ latest' = 0 /\ dirty' = FALSE /\ flushing' = 0
  /\ handling' = {} /\ behind' = behind \union handling
  /\ cursor' \in IF flushing = 0 THEN {cursor} ELSE {cursor, flushing}
  /\ UNCHANGED <<timed, log, index, received, together>>

-----------------------------------------------------------------------------
IndexerNext ==
  \/ \E k \in Keys, what \in {"put", "invalid", "delete"} : Emit(k, what)
  \/ Connect \/ Opened \/ Receive \/ (\E t \in Times : Write(t))
  \/ BeginFlush \/ EndFlush \/ Disconnect \/ Crash

IndexerInit ==
  /\ timed \in BOOLEAN
  /\ log = <<>> /\ index = [k \in Keys |-> 0] /\ cursor = 0
  /\ link = "down" /\ from = 0 /\ latest = 0 /\ dirty = FALSE /\ flushing = 0
  /\ handling = {} /\ faults = 0
  /\ received = {} /\ behind = {} /\ together = {}

IndexerSpec == IndexerInit /\ [][IndexerNext]_indexerVars

-----------------------------------------------------------------------------
\* Properties.

\* The last event that counts for k.
EventsOf(k) == {t \in 1..Len(log) : log[t][1] = k /\ log[t][2] # "invalid"}
LastOf(k) == CHOOSE t \in EventsOf(k) : \A s \in EventsOf(k) : s <= t

\* A worker that has received everything and has nothing under way shows what
\* the network has, for each record whose handlers never overlapped and whose
\* last event it received and could write: it misses none but those that came
\* before a connection without a cursor (handleEvent; the cursor, if events have it).
IndexFollowsNetwork ==
  link = "up" /\ from = Len(log) + 1 /\ handling = {} =>
    \A k \in Keys :
      \/ k \in together \/ EventsOf(k) = {} \/ LastOf(k) \in behind
      \/ index[k] = IF log[LastOf(k)][2] = "put" THEN LastOf(k) ELSE 0
=============================================================================
