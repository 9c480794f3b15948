---------------------------- MODULE NetworkProofs ----------------------------
(***************************************************************************)
(* Proofs about what works on the network's repositories: the indexer,     *)
(* which follows them, and the pilot, which writes its own.                *)
(*                                                                         *)
(* The indexer follows the network (IndexFollowsNetwork), for any records, *)
(* any number of events, and any crashes and refused writes: an event that *)
(* counts is still to be delivered (Awaited), or its handler is under way, *)
(* or the index shows it, unless it is behind or two handlers of its       *)
(* record overlapped.  That a handler under way does not undo a later      *)
(* event needs that what is later is still awaited.                        *)
(*                                                                         *)
(* The pilot tells one story (PilotIsConsistent), for any commands, lessons*)
(* and lost writes: what the one task of the queue has read is so until it *)
(* writes (Sound), and so it is of the one write that may land before the  *)
(* next task begins (DriftInv).                                            *)
(***************************************************************************)
EXTENDS Indexer, Pilot, FiniteSetTheorems, TLAPS


\* What the cursor will be when the flush under way is done.
NextCursor == IF flushing # 0 THEN flushing ELSE cursor

\* The present connection, or the next one, delivers event t, even if the worker
\* should die before its flush.
Awaited(t) ==
  \/ link = "up" /\ t >= from
  \/ link = "loaded" /\ t >= from /\ (from = 0 => t \notin received)
  \/ link = "down" /\ t >= NextCursor /\ (cursor = 0 => t \notin received)

LastEvent(k, t) == t \in EventsOf(k) /\ \A s \in EventsOf(k) : s <= t
ShownFor(t) == IF log[t][2] = "put" THEN t ELSE 0

\* The cursor never passes what was received, and a flush is never behind it; until
\* there is a cursor no event is delivered twice.
CursorInv ==
  /\ dirty => timed
  /\ link = "up" /\ cursor = 0 => \A t \in received : t < from
  /\ flushing # 0 => dirty /\ cursor <= flushing
  /\ dirty /\ flushing = 0 => link = "up"
  /\ link = "loaded" => flushing = 0 /\ from = cursor
  /\ link = "up" => from >= 1 /\ cursor <= from
  /\ link = "up" /\ dirty =>
       latest >= 1 /\ latest = from - 1 /\ cursor <= latest /\ flushing <= latest

\* Handlers under way are for events that count, one for each record.
HandlersInv ==
  /\ \A t \in handling : log[t][2] # "invalid"
  /\ \A t, s \in handling : log[t][1] = log[s][1] => t = s \/ log[t][1] \in together

\* A handler under way does not write over a later event.
LaterInv ==
  \A t \in handling, s \in 1..Len(log) :
    s > t /\ log[s][1] = log[t][1] /\ log[s][2] # "invalid" =>
      log[t][1] \in together \/ Awaited(s) \/ s \in behind

\* The last event of a record is shown, under way or still to come.
ShownInv ==
  \A k \in Keys, t \in 1..Len(log) :
    LastEvent(k, t) =>
      \/ k \in together \/ t \in behind \/ t \in handling
      \/ Awaited(t) \/ index[k] = ShownFor(t)

LastInv == \A k \in Keys : EventsOf(k) # {} => \E t \in 1..Len(log) : LastEvent(k, t)

IndexerInv ==
  IndexerTypeOK /\ CursorInv /\ HandlersInv /\ LaterInv /\ ShownInv /\ LastInv

-----------------------------------------------------------------------------
\* An event is added to the log, and those before it stay.
LEMMA Logged ==
  ASSUME IndexerTypeOK, NEW k \in Keys, NEW what \in {"put", "invalid", "delete"},
         Emit(k, what)
  PROVE  /\ Len(log') = Len(log) + 1 /\ Len(log) \in Nat
         /\ log' \in Seq(Keys \X {"put", "invalid", "delete"})
         /\ \A t \in 1..Len(log) : log'[t] = log[t]
         /\ log'[Len(log) + 1] = <<k, what>>
  BY DEF IndexerTypeOK, Emit

LEMMA TypeInit == IndexerInit => IndexerTypeOK
<1> SUFFICES ASSUME IndexerInit PROVE IndexerTypeOK  OBVIOUS
<1>1. /\ Len(log) = 0 /\ log \in Seq(Keys \X {"put", "invalid", "delete"})
      /\ index \in [Keys -> 0..Len(log)]
  BY DEF IndexerInit
<1>2. /\ handling \subseteq 1..Len(log) /\ behind \subseteq 1..Len(log)
      /\ received \subseteq 1..Len(log) /\ timed \in BOOLEAN
      /\ together \subseteq Keys /\ {cursor, latest, flushing} \subseteq 0..Len(log)
  BY <1>1 DEF IndexerInit
<1>3. dirty \in BOOLEAN  BY DEF IndexerInit
<1>4. link \in {"down", "loaded", "up"} /\ from \in 0..Len(log) + 1 /\ faults \in 0..MaxFaults
      /\ Len(log) <= MaxEvents
  BY <1>1, IndexerAssumption DEF IndexerInit
<1> QED  BY <1>1, <1>2, <1>3, <1>4 DEF IndexerTypeOK

\* The types, one by one.
Typed ==
  /\ timed \in BOOLEAN
  /\ log \in Seq(Keys \X {"put", "invalid", "delete"})
  /\ Len(log) \in Nat /\ Len(log) <= MaxEvents
  /\ index \in [Keys -> 0..Len(log)]
  /\ link \in {"down", "loaded", "up"} /\ from \in 0..Len(log) + 1
  /\ cursor \in 0..Len(log) /\ latest \in 0..Len(log) /\ flushing \in 0..Len(log)
  /\ dirty \in BOOLEAN
  /\ \A t \in handling : t \in 1..Len(log)
  /\ faults \in 0..MaxFaults
  /\ \A t \in received : t \in 1..Len(log)
  /\ \A t \in behind : t \in 1..Len(log)
  /\ \A k \in together : k \in Keys

LEMMA TypedIsType == Typed <=> IndexerTypeOK
<1>1. IndexerTypeOK => Typed
  <2> SUFFICES ASSUME IndexerTypeOK PROVE Typed  OBVIOUS
  <2>1. Len(log) \in Nat  BY DEF IndexerTypeOK
  <2>2. cursor \in 0..Len(log) /\ latest \in 0..Len(log) /\ flushing \in 0..Len(log)
    BY DEF IndexerTypeOK
  <2> QED  BY <2>1, <2>2 DEF IndexerTypeOK, Typed
<1>2. Typed => IndexerTypeOK
  <2> SUFFICES ASSUME Typed PROVE IndexerTypeOK  OBVIOUS
  <2>1. {cursor, latest, flushing} \subseteq 0..Len(log)  BY DEF Typed
  <2>2. /\ handling \subseteq 1..Len(log) /\ behind \subseteq 1..Len(log)
        /\ received \subseteq 1..Len(log) /\ together \subseteq Keys
    BY DEF Typed
  <2> QED  BY <2>1, <2>2 DEF IndexerTypeOK, Typed
<1> QED  BY <1>1, <1>2

LEMMA TypedNext == Typed' <=> IndexerTypeOK'
<1>1. Typed <=> IndexerTypeOK  BY TypedIsType
<1> QED  BY <1>1, TypedIsType, PTL

\* The types, whatever step the worker or the network takes.
LEMMA TypeStep ==
  ASSUME IndexerTypeOK, CursorInv, [IndexerNext]_indexerVars
  PROVE  IndexerTypeOK'
<1> USE IndexerAssumption
<1>t. Typed  BY TypedIsType
<1> SUFFICES Typed'  BY TypedNext
<1>1. ASSUME NEW k \in Keys, NEW what \in {"put", "invalid", "delete"}, Emit(k, what)
      PROVE  Typed'
  <2>1. Len(log') <= MaxEvents /\ Len(log) \in Nat /\ Len(log') = Len(log) + 1
        /\ log' \in Seq(Keys \X {"put", "invalid", "delete"})
    BY <1>t, <1>1, Logged DEF Emit, Typed
  <2>2. UNCHANGED <<timed, index, cursor, worker, faults, received, behind, together>>
    BY <1>1 DEF Emit
  <2> QED  BY <1>t, <2>1, <2>2 DEF Typed, worker
<1>2. CASE Connect
  BY <1>t, <1>2 DEF Connect, Typed, network
<1>3. CASE Opened
  <2>1. from' \in 0..Len(log) + 1  BY <1>t, <1>3 DEF Opened, Typed, Resume
  <2>2. \A t \in behind' : t \in 1..Len(log)  BY <1>t, <1>3 DEF Opened, Typed
  <2>3. /\ UNCHANGED <<timed, log, index, cursor, latest, dirty, flushing, handling, faults>>
        /\ UNCHANGED <<received, together>> /\ link' = "up"
    BY <1>3 DEF Opened, network
  <2> QED  BY <1>t, <2>1, <2>2, <2>3 DEF Typed
<1>4. CASE Receive
  <2>1. from \in 1..Len(log)  BY <1>t, <1>4 DEF Receive, Typed, CursorInv
  <2>2. \A t \in handling' : t \in 1..Len(log)  BY <1>t, <1>4, <2>1 DEF Receive, Typed
  <2>3. \A k \in together' : k \in Keys  BY <1>t, <1>4 DEF Receive, Typed
  <2>4. /\ UNCHANGED <<timed, log, index, cursor, link, flushing, faults, behind>>
        /\ from' = from + 1 /\ received' = received \union {from}
        /\ latest' = latest \/ latest' = from
        /\ dirty' = dirty \/ dirty' = TRUE
    BY <1>4 DEF Receive, network
  <2>5. \A t \in received' : t \in 1..Len(log)  BY <1>t, <2>1, <2>4 DEF Typed
  <2>6. latest' \in 0..Len(log) /\ from' \in 0..Len(log) + 1
    BY <1>t, <2>1, <2>4 DEF Typed
  <2>7. dirty' \in BOOLEAN
    BY <1>t, <2>4 DEF Typed
  <2> QED  BY <1>t, <2>2, <2>3, <2>4, <2>5, <2>6, <2>7 DEF Typed
<1>5. ASSUME NEW t \in Times, Write(t)  PROVE Typed'
  <2>1. /\ UNCHANGED <<timed, log, cursor, link, from, latest, dirty, flushing>>
        /\ UNCHANGED <<received, together>>
        /\ t \in handling /\ handling' = handling \ {t}
        /\ index' = index \/ index' = [index EXCEPT ![log[t][1]] = IF log[t][2] = "put" THEN t ELSE 0]
        /\ behind' \subseteq behind \union {t}
        /\ faults' = faults \/ (faults < MaxFaults /\ faults' = faults + 1)
    BY <1>5 DEF Write
  <2>2. t \in 1..Len(log)
    BY <1>t, <2>1 DEF Typed
  <2>3. index' \in [Keys -> 0..Len(log)]
    <3>1. (IF log[t][2] = "put" THEN t ELSE 0) \in 0..Len(log)  BY <1>t, <2>2 DEF Typed
    <3>2. index \in [Keys -> 0..Len(log)]  BY <1>t DEF Typed
    <3> QED  BY <2>1, <3>1, <3>2
  <2>4. faults' \in 0..MaxFaults
    BY <1>t, <2>1 DEF Typed
  <2> QED  BY <1>t, <2>1, <2>2, <2>3, <2>4 DEF Typed
<1>6. CASE BeginFlush
  BY <1>t, <1>6 DEF BeginFlush, Typed, network
<1>7. CASE EndFlush
  <2>1. dirty' \in BOOLEAN  BY <1>7 DEF EndFlush
  <2>2. /\ UNCHANGED <<timed, log, index, link, from, latest, handling, faults>>
        /\ UNCHANGED <<received, behind, together>>
        /\ cursor' = flushing /\ flushing' = 0
    BY <1>7 DEF EndFlush
  <2> QED  BY <1>t, <2>1, <2>2 DEF Typed
<1>8. CASE Disconnect
  BY <1>t, <1>8 DEF Disconnect, Typed, network
<1>9. CASE Crash
  <2>1. dirty' \in BOOLEAN /\ link' \in {"down", "loaded", "up"}  BY <1>9 DEF Crash
  <2>2. cursor' \in 0..Len(log) /\ faults' \in 0..MaxFaults  BY <1>t, <1>9 DEF Crash, Typed
  <2>3. \A t \in behind' : t \in 1..Len(log)  BY <1>t, <1>9 DEF Crash, Typed
  <2>4. /\ UNCHANGED <<timed, log, index, received, together>>
        /\ from' = 0 /\ latest' = 0 /\ flushing' = 0 /\ handling' = {}
    BY <1>9 DEF Crash
  <2> QED  BY <1>t, <2>1, <2>2, <2>3, <2>4 DEF Typed
<1>10. CASE UNCHANGED indexerVars
  BY <1>t, <1>10 DEF Typed, indexerVars, network, worker
<1> QED  BY <1>1, <1>2, <1>3, <1>4, <1>5, <1>6, <1>7, <1>8, <1>9, <1>10 DEF IndexerNext

-----------------------------------------------------------------------------
LEMMA CursorStep ==
  ASSUME IndexerTypeOK, CursorInv, [IndexerNext]_indexerVars
  PROVE  CursorInv'
<1>1. ASSUME NEW k \in Keys, NEW what \in {"put", "invalid", "delete"}, Emit(k, what)
      PROVE  CursorInv'
  BY <1>1 DEF Emit, CursorInv, worker
<1>2. CASE Connect
  BY <1>2 DEF Connect, IndexerTypeOK, network, CursorInv
<1>3. CASE Opened
  BY <1>3 DEF Opened, IndexerTypeOK, network, Resume, CursorInv
<1>4. CASE Receive
  BY <1>4 DEF Receive, IndexerTypeOK, network, CursorInv
<1>5. ASSUME NEW t \in Times, Write(t)  PROVE CursorInv'
  BY <1>5 DEF Write, CursorInv
<1>6. CASE BeginFlush
  BY <1>6 DEF BeginFlush, IndexerTypeOK, network, CursorInv
<1>7. CASE EndFlush
  BY <1>7 DEF EndFlush, IndexerTypeOK, CursorInv
<1>8. CASE Disconnect
  BY <1>8 DEF Disconnect, IndexerTypeOK, network, CursorInv
<1>9. CASE Crash
  BY <1>9 DEF Crash, IndexerTypeOK, CursorInv
<1>10. CASE UNCHANGED indexerVars
  BY <1>10 DEF CursorInv, indexerVars, network, worker
<1> QED  BY <1>1, <1>2, <1>3, <1>4, <1>5, <1>6, <1>7, <1>8, <1>9, <1>10 DEF IndexerNext

\* What is awaited stays so until it is received, but when a new connection
\* has no cursor to begin at.
LEMMA AwaitedStays ==
  ASSUME IndexerTypeOK, CursorInv, NEW s \in 1..Len(log), Awaited(s),
         [IndexerNext]_indexerVars
  PROVE  \/ Awaited(s)'
         \/ Receive /\ s = from
         \/ Opened /\ from = 0
<1>t. Typed  BY TypedIsType
<1>1. ASSUME NEW k \in Keys, NEW what \in {"put", "invalid", "delete"}, Emit(k, what)
      PROVE  Awaited(s)'
  BY <1>1 DEF Emit, Awaited, NextCursor, worker
<1>2. CASE Connect
  BY <1>2 DEF Connect, IndexerTypeOK, network, CursorInv, Awaited, NextCursor
<1>3. CASE Opened
  BY <1>3 DEF Opened, IndexerTypeOK, network, Resume, CursorInv, Awaited, NextCursor
<1>4. CASE Receive
  BY <1>4 DEF Receive, IndexerTypeOK, network, CursorInv, Awaited, NextCursor
<1>5. ASSUME NEW t \in Times, Write(t)  PROVE Awaited(s)'
  BY <1>5 DEF Write, Awaited, NextCursor
<1>6. CASE BeginFlush
  BY <1>6 DEF BeginFlush, IndexerTypeOK, network, CursorInv, Awaited, NextCursor
<1>7. CASE EndFlush
  BY <1>7 DEF EndFlush, IndexerTypeOK, CursorInv, Awaited, NextCursor
<1>8. CASE Disconnect
  BY <1>8 DEF Disconnect, IndexerTypeOK, network, CursorInv, Awaited, NextCursor
<1>9. CASE Crash
  <2>1. /\ link' = "down" /\ flushing' = 0 /\ UNCHANGED received
        /\ cursor' = cursor \/ (flushing # 0 /\ cursor' = flushing)
    BY <1>9 DEF Crash
  <2>2. s \in Nat /\ cursor \in Nat /\ from \in Nat /\ flushing \in Nat /\ latest \in Nat
    BY <1>t DEF Typed
  <2>3. CASE link = "up"
    BY <2>1, <2>2, <2>3 DEF CursorInv, Awaited, NextCursor
  <2>4. CASE link # "up"
    BY <1>t, <2>1, <2>2, <2>4 DEF Typed, CursorInv, Awaited, NextCursor
  <2> QED  BY <2>3, <2>4
<1>10. CASE UNCHANGED indexerVars
  BY <1>10 DEF indexerVars, network, worker, Awaited, NextCursor
<1> QED  BY <1>1, <1>2, <1>3, <1>4, <1>5, <1>6, <1>7, <1>8, <1>9, <1>10 DEF IndexerNext

\* A new event is awaited.
LEMMA NewIsAwaited ==
  ASSUME IndexerTypeOK, CursorInv, NEW k \in Keys,
         NEW what \in {"put", "invalid", "delete"}, Emit(k, what),
         NEW n, n = Len(log) + 1
  PROVE  Awaited(n)'
<1>1. Len(log) \in Nat  BY Logged
<1> QED  BY <1>1 DEF Emit, IndexerTypeOK, CursorInv, Awaited, NextCursor, worker

-----------------------------------------------------------------------------
\* Each key's events are those of the log, and only a new one adds to them.
LEMMA EventsGrow ==
  ASSUME IndexerTypeOK, NEW j \in Keys, NEW what \in {"put", "invalid", "delete"},
         Emit(j, what), NEW k \in Keys
  PROVE  \/ EventsOf(k)' = EventsOf(k) /\ (k # j \/ what = "invalid")
         \/ EventsOf(k)' = EventsOf(k) \union {Len(log) + 1} /\ k = j /\ what # "invalid"
<1>1. /\ Len(log') = Len(log) + 1 /\ Len(log) \in Nat
      /\ \A t \in 1..Len(log) : log'[t] = log[t]
      /\ log'[Len(log) + 1] = <<j, what>>
  BY Logged
<1>2. \A t : t \in 1..Len(log') <=> t \in 1..Len(log) \/ t = Len(log) + 1
  BY <1>1
<1>3. \A t : t \in EventsOf(k)' <=>
          t \in EventsOf(k) \/ (t = Len(log) + 1 /\ k = j /\ what # "invalid")
  <2> SUFFICES ASSUME NEW t
               PROVE  t \in EventsOf(k)' <=>
                        t \in EventsOf(k) \/ (t = Len(log) + 1 /\ k = j /\ what # "invalid")
    OBVIOUS
  <2>1. CASE t \in 1..Len(log)
    <3>1. log'[t] = log[t] /\ t # Len(log) + 1  BY <1>1, <2>1
    <3> QED  BY <3>1, <2>1, <1>2 DEF EventsOf
  <2>2. CASE t = Len(log) + 1
    <3>1. log'[t][1] = j /\ log'[t][2] = what /\ t \notin 1..Len(log)  BY <1>1, <2>2
    <3> QED  BY <3>1, <2>2, <1>2 DEF EventsOf
  <2>3. CASE t \notin 1..Len(log) /\ t # Len(log) + 1
    BY <2>3, <1>2 DEF EventsOf
  <2> QED  BY <2>1, <2>2, <2>3
<1> QED  BY <1>3

LEMMA LogStays ==
  ASSUME [IndexerNext]_indexerVars
  PROVE  \/ log' = log
         \/ \E j \in Keys, what \in {"put", "invalid", "delete"} : Emit(j, what)
BY DEF IndexerNext, indexerVars, network, Connect, Opened, Receive, Write, BeginFlush,
       EndFlush, Disconnect, Crash

LEMMA LastStep ==
  ASSUME IndexerTypeOK, LastInv, [IndexerNext]_indexerVars
  PROVE  LastInv'
<1>1. CASE log' = log
  BY <1>1 DEF LastInv, LastEvent, EventsOf
<1>2. ASSUME NEW j \in Keys, NEW what \in {"put", "invalid", "delete"}, Emit(j, what)
      PROVE  LastInv'
  <2> SUFFICES ASSUME NEW k \in Keys, (EventsOf(k) # {})'
               PROVE  \E t \in 1..Len(log') : LastEvent(k, t)'
    BY DEF LastInv
  <2>1. Len(log') = Len(log) + 1 /\ Len(log) \in Nat  BY <1>2, Logged
  <2>2. CASE EventsOf(k)' = EventsOf(k)
    BY <2>1, <2>2 DEF LastInv, LastEvent
  <2>3. CASE EventsOf(k)' = EventsOf(k) \union {Len(log) + 1}
    <3>1. \A s \in EventsOf(k) : s \in 1..Len(log)  BY DEF EventsOf
    <3>2. PICK n : n = Len(log) + 1  OBVIOUS
    <3>3. LastEvent(k, n)'  BY <2>1, <2>3, <3>1, <3>2 DEF LastEvent
    <3> QED  BY <2>1, <3>2, <3>3
  <2> QED  BY <2>2, <2>3, <1>2, EventsGrow
<1> QED  BY <1>1, <1>2, LogStays

-----------------------------------------------------------------------------
LEMMA HandlersStep ==
  ASSUME IndexerTypeOK, HandlersInv, CursorInv, [IndexerNext]_indexerVars
  PROVE  HandlersInv'
<1>t. Typed  BY TypedIsType
<1>1. ASSUME NEW k \in Keys, NEW what \in {"put", "invalid", "delete"}, Emit(k, what)
      PROVE  HandlersInv'
  <2>1. \A t \in handling : log'[t] = log[t]  BY <1>t, <1>1, Logged DEF Typed
  <2>2. handling' = handling /\ together' = together  BY <1>1 DEF Emit, worker
  <2> QED  BY <2>1, <2>2 DEF HandlersInv
<1>2. CASE Receive
  <2>1. from \in 1..Len(log) /\ log' = log  BY <1>t, <1>2 DEF Receive, Typed, CursorInv, network
  <2>2. CASE log[from][2] = "invalid"
    BY <2>1, <2>2, <1>2 DEF Receive, Dropped, HandlersInv
  <2>3. CASE log[from][2] # "invalid"
    <3>1. /\ handling' = handling \union {from}
          /\ together' = together \union
               {k \in Keys : k = log[from][1] /\ \E t \in handling : log[t][1] = k}
      BY <2>3, <1>2 DEF Receive, Dropped
    <3>2. log[from][1] \in Keys  BY <1>t, <2>1 DEF Typed
    <3>3. \A t \in handling : log[t][1] = log[from][1] => log[from][1] \in together'
      BY <3>1, <3>2
    <3> QED  BY <2>1, <2>3, <3>1, <3>3 DEF HandlersInv
  <2> QED  BY <2>2, <2>3
<1>3. ASSUME NEW t \in Times, Write(t)  PROVE HandlersInv'
  BY <1>3 DEF Write, HandlersInv
<1>4. CASE Crash
  BY <1>4 DEF Crash, HandlersInv
<1>5. CASE Connect \/ Opened \/ BeginFlush \/ EndFlush \/ Disconnect \/ UNCHANGED indexerVars
  <2>1. log' = log /\ handling' = handling /\ together' = together
    BY <1>5 DEF Connect, Opened, BeginFlush, EndFlush, Disconnect, indexerVars, network, worker
  <2> QED  BY <2>1 DEF HandlersInv
<1> QED  BY <1>1, <1>2, <1>3, <1>4, <1>5 DEF IndexerNext

\* Steps that leave the handlers and what is behind alone, and the log.
Quiet == UNCHANGED <<log, index, handling, behind, together>>

LEMMA LaterStep ==
  ASSUME IndexerTypeOK, CursorInv, HandlersInv, LaterInv, [IndexerNext]_indexerVars
  PROVE  LaterInv'
<1>t. Typed  BY TypedIsType
<1> SUFFICES ASSUME NEW t \in handling', NEW s \in 1..Len(log'), s > t,
                    log'[s][1] = log'[t][1], log'[s][2] # "invalid"
             PROVE  log'[t][1] \in together' \/ Awaited(s)' \/ s \in behind'
  BY DEF LaterInv
<1>1. ASSUME NEW k \in Keys, NEW what \in {"put", "invalid", "delete"}, Emit(k, what)
      PROVE  log'[t][1] \in together' \/ Awaited(s)' \/ s \in behind'
  <2>1. Len(log') = Len(log) + 1 /\ Len(log) \in Nat /\ \A u \in 1..Len(log) : log'[u] = log[u]
    BY <1>1, Logged
  <2>2. handling' = handling /\ behind' = behind /\ together' = together
    BY <1>1 DEF Emit, worker
  <2>3. log'[t] = log[t]  BY <1>t, <2>1, <2>2 DEF Typed
  <2>4. CASE s = Len(log) + 1
    BY <2>4, <1>1, NewIsAwaited
  <2>5. CASE s \in 1..Len(log)
    <3>1. log'[s] = log[s]  BY <2>1, <2>5
    <3>2. log[t][1] \in together \/ Awaited(s) \/ s \in behind
      BY <2>2, <2>3, <2>5, <3>1 DEF LaterInv
    <3>3. Awaited(s) => Awaited(s)'
      BY <1>1, <2>5 DEF Emit, Awaited, NextCursor, worker
    <3> QED  BY <2>2, <2>3, <3>2, <3>3
  <2> QED  BY <2>1, <2>4, <2>5
<1>2. CASE Receive
  <2>1. from \in 1..Len(log) /\ log' = log /\ behind' = behind /\ link = "up" /\ link' = "up"
        /\ from' = from + 1
    <3>1. UNCHANGED <<log, behind>> /\ link = "up" /\ link' = "up" /\ from' = from + 1
          /\ from <= Len(log)
      BY <1>2 DEF Receive, network
    <3>2. from \in 1..Len(log)
      BY <1>t, <3>1 DEF Typed, CursorInv
    <3> QED  BY <3>1, <3>2
  <2>2. CASE t = from
    <3>1. s >= from'  BY <2>1, <2>2
    <3> QED  BY <2>1, <3>1 DEF Awaited
  <2>3. CASE t # from
    <3>1. t \in handling  BY <1>2, <2>3 DEF Receive
    <3>2. log[t][1] \in together \/ Awaited(s) \/ s \in behind
      BY <2>1, <3>1 DEF LaterInv
    <3>3. together \subseteq together'  BY <1>2 DEF Receive
    <3>4. CASE s = from
      <4>1. log[from][2] # "invalid" /\ log[from][1] = log[t][1]  BY <2>1, <3>4
      <4>2. log[from][1] \in Keys  BY <1>t, <2>1 DEF Typed
      <4>3. log[from][1] \in together'  BY <1>2, <3>1, <4>1, <4>2 DEF Receive, Dropped
      <4> QED  BY <2>1, <4>1, <4>3
    <3>5. CASE s # from
      <4>1. Awaited(s) => Awaited(s)'  BY <2>1, <3>5, <1>t DEF Awaited, Typed
      <4> QED  BY <2>1, <3>2, <3>3, <4>1
    <3> QED  BY <3>4, <3>5
  <2> QED  BY <2>2, <2>3
<1>3. ASSUME NEW u \in Times, Write(u)
      PROVE  log'[t][1] \in together' \/ Awaited(s)' \/ s \in behind'
  <2>1. /\ UNCHANGED <<log, cursor, link, from, flushing, received, together>>
        /\ u \in handling /\ handling' = handling \ {u}
        /\ behind \ {u} \subseteq behind'
    BY <1>3 DEF Write
  <2>2. log[t][1] \in together \/ Awaited(s) \/ s \in behind
    BY <2>1 DEF LaterInv
  <2>3. s = u => log[t][1] \in together
    BY <2>1 DEF HandlersInv
  <2>4. Awaited(s) => Awaited(s)'  BY <2>1 DEF Awaited, NextCursor
  <2> QED  BY <2>1, <2>2, <2>3, <2>4
<1>4. CASE Crash
  BY <1>4 DEF Crash
<1>5. CASE Opened /\ from = 0
  <2>1. log' = log /\ handling' = handling /\ together' = together
        /\ behind' = behind \union (1..Len(log) \ received)
        /\ link = "loaded"
    BY <1>5 DEF Opened, network
  <2>2. log[t][1] \in together \/ Awaited(s) \/ s \in behind
    BY <2>1 DEF LaterInv
  <2>3. Awaited(s) => s \notin received
    BY <1>5, <2>1 DEF Awaited
  <2> QED  BY <2>1, <2>2, <2>3
<1>6. ASSUME Quiet, ~(Receive /\ s = from), ~(Opened /\ from = 0)
      PROVE  log'[t][1] \in together' \/ Awaited(s)' \/ s \in behind'
  <2>1. log[t][1] \in together \/ Awaited(s) \/ s \in behind
    BY <1>6 DEF Quiet, LaterInv
  <2>2. s \in 1..Len(log)  BY <1>6 DEF Quiet
  <2>3. Awaited(s) => Awaited(s)'  BY <1>6, <2>2, AwaitedStays
  <2> QED  BY <1>6, <2>1, <2>3 DEF Quiet
<1>7. CASE Connect \/ (Opened /\ from # 0) \/ BeginFlush \/ EndFlush \/ Disconnect \/ UNCHANGED indexerVars
  <2>1. Quiet
    BY <1>7 DEF Connect, Opened, BeginFlush, EndFlush, Disconnect, indexerVars, network, worker, Quiet
  <2> QED  BY <1>6, <1>7, <1>2, <1>5, <2>1
<1> QED  BY <1>1, <1>2, <1>3, <1>4, <1>5, <1>7 DEF IndexerNext

-----------------------------------------------------------------------------
LEMMA ShownStep ==
  ASSUME IndexerTypeOK, CursorInv, HandlersInv, LaterInv, ShownInv,
         [IndexerNext]_indexerVars
  PROVE  ShownInv'
<1>t. Typed  BY TypedIsType
<1> SUFFICES ASSUME NEW k \in Keys, NEW t \in 1..Len(log'), LastEvent(k, t)'
             PROVE  \/ k \in together' \/ t \in behind' \/ t \in handling'
                    \/ Awaited(t)' \/ index'[k] = ShownFor(t)'
  BY DEF ShownInv
<1> DEFINE Good == \/ k \in together' \/ t \in behind' \/ t \in handling'
                   \/ Awaited(t)' \/ index'[k] = ShownFor(t)'
<1>l. ASSUME log' = log
      PROVE  /\ t \in 1..Len(log) /\ LastEvent(k, t) /\ ShownFor(t)' = ShownFor(t)
             /\ \/ k \in together \/ t \in behind \/ t \in handling
                \/ Awaited(t) \/ index[k] = ShownFor(t)
  BY <1>l DEF ShownInv, LastEvent, EventsOf, ShownFor
<1>1. ASSUME NEW j \in Keys, NEW what \in {"put", "invalid", "delete"}, Emit(j, what)
      PROVE  Good
  <2>1. Len(log') = Len(log) + 1 /\ Len(log) \in Nat /\ \A u \in 1..Len(log) : log'[u] = log[u]
    BY <1>1, Logged
  <2>2. UNCHANGED <<index, handling, behind, together>>
    BY <1>1 DEF Emit, worker
  <2>3. CASE t = Len(log) + 1
    <3>1. Awaited(t)'  BY <2>3, <1>1, NewIsAwaited
    <3> QED  BY <3>1
  <2>4. CASE t \in 1..Len(log)
    <3>1. LastEvent(k, t)
      <4>1. Len(log) + 1 \notin EventsOf(k)'  BY <2>1, <2>4 DEF LastEvent
      <4>2. EventsOf(k)' = EventsOf(k)  BY <4>1, <1>1, EventsGrow
      <4> QED  BY <4>2 DEF LastEvent
    <3>2. ShownFor(t)' = ShownFor(t)  BY <2>1, <2>4 DEF ShownFor
    <3>3. Awaited(t) => Awaited(t)'
      BY <1>1, <2>4 DEF Emit, Awaited, NextCursor, worker
    <3> QED  BY <2>2, <2>4, <3>1, <3>2, <3>3 DEF ShownInv
  <2> QED  BY <2>1, <2>3, <2>4
<1>2. CASE Receive
  <2>1. /\ from \in 1..Len(log) /\ log' = log /\ behind' = behind /\ index' = index
        /\ link = "up" /\ link' = "up" /\ from' = from + 1
        /\ handling \subseteq handling' /\ together \subseteq together'
    <3>1. link = "up" /\ link' = "up" /\ from' = from + 1 /\ from <= Len(log)
      BY <1>2 DEF Receive
    <3>2. UNCHANGED <<log, behind>> /\ index' = index
      BY <1>2 DEF Receive, network
    <3>3. handling \subseteq handling' /\ together \subseteq together'
      BY <1>2 DEF Receive
    <3>4. from \in 1..Len(log)
      BY <1>t, <3>1 DEF Typed, CursorInv
    <3> QED  BY <3>1, <3>2, <3>3, <3>4
  <2>2. CASE t = from
    <3>1. log[from][2] # "invalid"  BY <2>1, <2>2, <1>l DEF LastEvent, EventsOf
    <3>2. t \in handling'  BY <1>2, <2>2, <3>1 DEF Receive, Dropped
    <3> QED  BY <3>2
  <2>3. CASE t # from
    <3>1. Awaited(t) => Awaited(t)'  BY <2>1, <2>3, <1>l, <1>t DEF Awaited, Typed
    <3> QED  BY <2>1, <3>1, <1>l
  <2> QED  BY <2>2, <2>3
<1>3. ASSUME NEW u \in Times, Write(u)  PROVE Good
  <2>1. /\ UNCHANGED <<log, cursor, link, from, flushing, received, together>>
        /\ u \in handling /\ handling' = handling \ {u}
        /\ behind \ {u} \subseteq behind'
        /\ \/ index' = [index EXCEPT ![log[u][1]] = IF log[u][2] = "put" THEN u ELSE 0]
           \/ index' = index /\ behind' = behind \union {u}
    BY <1>3 DEF Write
  <2>2. Awaited(t) => Awaited(t)'  BY <2>1 DEF Awaited, NextCursor
  <2>3. k \in DOMAIN index  BY <1>t DEF Typed
  <2>4. CASE t = u
    <3>1. log[u][1] = k  BY <2>4, <1>l, <2>1 DEF LastEvent, EventsOf
    <3>2. index'[k] = ShownFor(t) \/ t \in behind'  BY <2>1, <2>3, <2>4, <3>1 DEF ShownFor
    <3> QED  BY <3>2, <2>1, <1>l
  <2>5. CASE t # u /\ log[u][1] # k
    <3>1. index'[k] = index[k]  BY <2>1, <2>3, <2>5
    <3> QED  BY <2>1, <2>2, <2>5, <3>1, <1>l
  <2>6. CASE t # u /\ log[u][1] = k
    <3>1. u \in EventsOf(k)  BY <2>1, <2>6, <1>t DEF HandlersInv, EventsOf, Typed
    <3>2. t > u /\ log[t][1] = k /\ log[t][2] # "invalid" /\ t \in 1..Len(log)
      BY <3>1, <2>1, <2>6, <1>l, <1>t DEF LastEvent, EventsOf, Typed
    <3>3. k \in together \/ Awaited(t) \/ t \in behind
      BY <2>1, <2>6, <3>2 DEF LaterInv
    <3> QED  BY <2>1, <2>2, <2>6, <3>3
  <2> QED  BY <2>4, <2>5, <2>6
<1>4. CASE Crash
  <2>1. log' = log /\ index' = index /\ together' = together /\ behind' = behind \union handling
    BY <1>4 DEF Crash
  <2>2. ~(Receive /\ t = from) /\ ~(Opened /\ from = 0)
    BY <1>4 DEF Crash, Receive, Opened, worker, network
  <2>3. Awaited(t) => Awaited(t)'
    BY <2>1, <2>2, <1>l, AwaitedStays
  <2> QED  BY <2>1, <2>3, <1>l
<1>5. CASE Opened /\ from = 0
  <2>1. log' = log /\ handling' = handling /\ behind' = behind \union (1..Len(log) \ received)
        /\ together' = together /\ index' = index /\ link = "loaded"
    BY <1>5 DEF Opened, network
  <2>2. Awaited(t) => t \notin received
    BY <1>5, <2>1 DEF Awaited
  <2> QED  BY <2>1, <2>2, <1>l
<1>6. CASE Connect \/ (Opened /\ from # 0) \/ BeginFlush \/ EndFlush \/ Disconnect \/ UNCHANGED indexerVars
  <2>1. Quiet
    BY <1>6 DEF Connect, Opened, BeginFlush, EndFlush, Disconnect, indexerVars, network, worker, Quiet
  <2>2. CASE Receive /\ t = from
    BY <2>2, <1>2
  <2>3. CASE Opened /\ from = 0
    BY <2>3, <1>5
  <2>4. CASE ~(Receive /\ t = from) /\ ~(Opened /\ from = 0)
    <3>1. t \in 1..Len(log)  BY <2>1 DEF Quiet
    <3>2. Awaited(t) => Awaited(t)'  BY <2>4, <3>1, AwaitedStays
    <3> QED  BY <2>1, <3>2, <1>l DEF Quiet
  <2> QED  BY <2>2, <2>3, <2>4
<1> QED  BY <1>1, <1>2, <1>3, <1>4, <1>5, <1>6 DEF IndexerNext

-----------------------------------------------------------------------------
LEMMA InvInit == IndexerInit => IndexerInv
<1> SUFFICES ASSUME IndexerInit PROVE IndexerInv  OBVIOUS
<1>1. IndexerTypeOK  BY TypeInit
<1>2. Len(log) = 0 /\ handling = {}  BY DEF IndexerInit
<1>3. CursorInv /\ HandlersInv /\ LaterInv  BY <1>2 DEF IndexerInit, CursorInv, HandlersInv, LaterInv
<1>4. 1..Len(log) = {}  BY <1>2
<1>5. ShownInv /\ LastInv  BY <1>4 DEF ShownInv, LastInv, EventsOf
<1> QED  BY <1>1, <1>3, <1>5 DEF IndexerInv

LEMMA InvStep == IndexerInv /\ [IndexerNext]_indexerVars => IndexerInv'
BY TypeStep, CursorStep, HandlersStep, LaterStep, ShownStep, LastStep DEF IndexerInv

\* A worker that has received everything awaits nothing.
LEMMA InvFollows == IndexerInv => IndexFollowsNetwork
<1> SUFFICES ASSUME IndexerInv, link = "up", from = Len(log) + 1, handling = {},
                    NEW k \in Keys, EventsOf(k) # {}
             PROVE  \/ k \in together \/ LastOf(k) \in behind
                    \/ index[k] = IF log[LastOf(k)][2] = "put" THEN LastOf(k) ELSE 0
  BY DEF IndexFollowsNetwork
<1>1. PICK t \in 1..Len(log) : LastEvent(k, t)  BY DEF IndexerInv, LastInv
<1>2. t \in EventsOf(k) /\ (\A s \in EventsOf(k) : s <= t)  BY <1>1 DEF LastEvent
<1>3. LastOf(k) \in EventsOf(k) /\ \A s \in EventsOf(k) : s <= LastOf(k)
  BY <1>2 DEF LastOf
<1>4. LastEvent(k, LastOf(k)) /\ LastOf(k) \in 1..Len(log)
  BY <1>3 DEF LastEvent, EventsOf
<1>5. ~Awaited(LastOf(k))
  <2>1. Len(log) \in Nat  BY DEF IndexerInv, IndexerTypeOK
  <2>2. ~(LastOf(k) >= from)  BY <1>4, <2>1
  <2> QED  BY <2>2 DEF Awaited
<1>6. k \in together \/ LastOf(k) \in behind \/ index[k] = ShownFor(LastOf(k))
  BY <1>4, <1>5 DEF IndexerInv, ShownInv
<1> QED  BY <1>6 DEF ShownFor

LEMMA InvHolds == IndexerSpec => []IndexerInv
<1> QED  BY InvInit, InvStep, PTL DEF IndexerSpec

\* Type correctness (jetstreamIndexer.ts).
THEOREM IndexerTypeCorrect == IndexerSpec => []IndexerTypeOK
<1>1. IndexerInv => IndexerTypeOK  BY DEF IndexerInv
<1> QED  BY <1>1, InvHolds, PTL

\* A connected worker that has received everything and has nothing under way
\* shows the last event of each record, unless that event is behind or the
\* record had two handlers at once: for any network, any number of crashes,
\* reconnections and refused writes (handleEvent, flushCursor).
THEOREM IndexFollows == IndexerSpec => []IndexFollowsNetwork
BY InvHolds, InvFollows, PTL

-----------------------------------------------------------------------------
\* A task of the queue is under way; no two are.
Active(r) == step[r] \notin {"free", "done"}

\* What a task at step s, or its write, is about: a command, with the key of
\* whoever may give it, or an errand.
Fits(s, m) ==
  /\ m.input \in Inputs <=> m.key \in CommandKeys
  /\ s \in {"request", "ask"} => m.input \in Inputs
  /\ s \in {"prior", "commit", "deliver"} => m.input \in Inputs \union {Creation}
  /\ s = "replay" => m.key = Founding
  /\ s = "certificate" => m.input \in Inputs /\ m.input.do = "claim"
  /\ s \in {"request", "ask", "prior", "enrollment", "certificate"} => ~m.mints
  /\ s = "commit" /\ m.mints => m.input.do = "claim"
  /\ s \in {"request", "ask", "prior", "commit"} /\ m.key = Founding => m.e = Nothing
  /\ s = "course" => m.n = 0
  /\ s = "lesson" => m.n \in PilotSet

\* What is being answered is in the record of the command.
Recalls(s, m) ==
  /\ s = "deliver" => commands[m.key] # Nothing /\ commands[m.key].e = m.e
  /\ s = "replay" => commands[Founding] # Nothing

QuizTries(e) == IF e = Nothing THEN 0 ELSE e.attempts
Quizzed == {k \in CommandKeys : commands[k] # Nothing /\ commands[k].input.do = "quiz"}
Earned(e) == e # Nothing /\ Complete(e) /\ e.certified

\* What a command is about to write follows from what is there.
Follows(m) ==
  /\ m.had = enrollment /\ m.e \in Enrollments
  /\ m.e.attempts = QuizTries(enrollment) + IF m.input.do = "quiz" THEN 1 ELSE 0
  /\ certificate \/ m.input.do = "claim" => Earned(m.e)

\* What a task has read is still so when it goes by it.
Sound(s, m) ==
  /\ s \in {"certificate", "commit"} /\ m.key \in CommandKeys => Follows(m)
  /\ s = "index" => m.seen = courseRow /\ (m.n = 1 => courseRow = "pending")
  /\ s \in {"course", "lesson", "sections", "batch"} => courseRow = "pending"
  /\ s = "lesson" => \A l \in PilotSet : l < m.n => l \in site.lessons
  /\ s \in {"sections", "batch"} => site.lessons = PilotSet
  /\ s = "batch" => site.course = "whole"
  /\ s = "intend" => intent = Nothing
  /\ s = "publish" => intent = m.tid

Holds(s, m) == m \in PilotMemory /\ Fits(s, m) /\ Recalls(s, m) /\ (late \/ Sound(s, m))

QueueInv ==
  /\ mem \in [Requests -> PilotMemory \union {Nothing}]
  /\ \A r, q \in Requests : Active(r) /\ Active(q) => r = q
  /\ \A r \in Requests : Active(r) => Holds(step[r], mem[r])

\* A write that is adrift since the last task: nothing else is under way, and
\* what it was about is still so.
DriftInv ==
  \A w \in adrift :
    /\ Fits(w.at, w.with)
    /\ ~w.crossed =>
         /\ \A r \in Requests : ~Active(r)
         /\ \A v \in adrift : ~v.crossed => v = w
         /\ late \/ Sound(w.at, w.with)

ToldInv ==
  /\ \A a \in told : /\ a[1] \in CommandKeys \union {Founding}
                     /\ commands[a[1]] # Nothing /\ commands[a[1]].e = a[2]
  /\ commands[Founding] # Nothing => commands[Founding].e = Nothing
  /\ IsFiniteSet(Quizzed)

StoryInv ==
  /\ QuizTries(enrollment) = before + Cardinality(Quizzed)
  /\ certificate => Earned(enrollment)
  /\ courseRow # "none" => commands[Founding] # Nothing
  /\ outbox = "due" => courseRow = "pending"
  /\ courseRow = "published" => site = [course |-> "whole", lessons |-> PilotSet]
  /\ completions \subseteq {intent}

IndexInv ==
  /\ courses = "published" => courseRow = "published"
  /\ courses # "none" => courseRow # "none"

PilotInv ==
  /\ PilotTypeOK /\ QueueInv /\ DriftInv /\ ToldInv
  /\ late \/ (StoryInv /\ IndexInv)

-----------------------------------------------------------------------------
LEMMA PilotInvInit == PilotInit => PilotInv
<1> SUFFICES ASSUME PilotInit PROVE PilotInv
  OBVIOUS
<1>0. breaks = 0 /\ step = [r \in Requests |-> "free"] /\ mem = [r \in Requests |-> Nothing]
  BY DEF PilotInit
<1>1. breaks \in 0..MaxBreaks
  BY <1>0, HandlersAssumption
<1>2. Nothing \notin Requests
  BY HandlersAssumption
<1>3. Fresh \in Enrollments
  BY DEF Fresh, Enrollments
<1>4. enrollment = Nothing \/ (enrollment \in Enrollments /\ enrollment # Nothing)
  <2> SUFFICES ASSUME enrollment # Nothing PROVE enrollment \in Enrollments
    OBVIOUS
  <2>1. PICK n \in 0..PilotLessons, passed \in BOOLEAN :
          LET e == [Fresh EXCEPT !.completed = 1..n, !.passed = passed,
                                 !.attempts = IF passed THEN 1 ELSE 0]
          IN enrollment = [e EXCEPT !.finished = Complete(e)]
    BY DEF PilotInit
  <2>0. PilotLessons \in Nat
    BY PilotAssumption
  <2>2. 1..n \subseteq PilotSet
    BY <2>0 DEF PilotSet
  <2>3. Complete([Fresh EXCEPT !.completed = 1..n, !.passed = passed,
                               !.attempts = IF passed THEN 1 ELSE 0]) \in BOOLEAN
    BY DEF Complete
  <2> QED
    BY <2>1, <2>2, <2>3 DEF Fresh, Enrollments
<1>5. /\ before \in Nat /\ before = QuizTries(enrollment)
  BY <1>4 DEF QuizTries, Enrollments, PilotInit
<1>6. [input |-> Creation, e |-> Nothing] \in Receipt
  BY DEF Receipt
<1>7. PilotTypeOK
  <2>1. courseRow \in {"none", "pending", "published"} /\ courses = courseRow
        /\ outbox \in {"none", "due", "delivered"}
    BY DEF PilotInit
  <2>2. commands \in [CommandKeys \union {Founding} -> Receipt \union {Nothing}]
    BY <1>6 DEF PilotInit
  <2>3. site \in [course : {"none", "bare", "whole"}, lessons : SUBSET PilotSet]
    BY DEF PilotInit
  <2>4. step \in [Requests -> PilotSteps] /\ \A r \in Requests : step[r] = "free"
    BY <1>0 DEF PilotSteps
  <2>5. /\ requests \in [CommandKeys -> Inputs \union {Nothing}]
        /\ receipts \in [CommandKeys -> Enrollments \union {Nothing}]
        /\ intent = Nothing /\ certificate = FALSE /\ completions = {}
        /\ connected = TRUE /\ adrift = {} /\ told = {} /\ late = FALSE
    BY DEF PilotInit
  <2> QED
    BY <2>5, <1>1, <1>4, <1>5, <2>1, <2>2, <2>3, <2>4 DEF PilotTypeOK
<1>8. QueueInv
  BY <1>0 DEF QueueInv, Active
<1>9. Quizzed = {} /\ IsFiniteSet(Quizzed) /\ Cardinality(Quizzed) = 0
  <2>1. Quizzed = {}
    BY PilotAssumption DEF Quizzed, PilotInit
  <2> QED
    BY <2>1, FS_EmptySet
<1>10. ToldInv
  BY <1>6, <1>9 DEF ToldInv, PilotInit
<1>11. StoryInv /\ IndexInv
  <2>1. QuizTries(enrollment) = before + Cardinality(Quizzed)
    BY <1>5, <1>9
  <2>2. courseRow # "none" => commands[Founding] # Nothing
    BY <1>6, PilotRecordsAssumption DEF PilotInit
  <2> QED
    BY <2>1, <2>2 DEF StoryInv, IndexInv, PilotInit
<1> QED
  BY <1>7, <1>8, <1>10, <1>11 DEF PilotInv, DriftInv, PilotInit

-----------------------------------------------------------------------------
\* The task under way goes on; the writes that are adrift were of tasks before.
LEMMA TaskGoes ==
  ASSUME PilotTypeOK, QueueInv, DriftInv, NEW r \in Requests, Active(r),
         NEW to \in PilotSteps \ {"free"}, NEW m, GoesWith(r, to, m), adrift' = adrift,
         to # "done" => Holds(to, m)'
  PROVE  /\ QueueInv' /\ DriftInv'
         /\ step' \in [Requests -> PilotSteps]
         /\ \A q \in Requests : step'[q] \notin {"free", "done"} => mem'[q] \in PilotMemory
<1>1. /\ step' = [step EXCEPT ![r] = to]
      /\ mem' = [mem EXCEPT ![r] = IF to = "done" THEN Nothing ELSE m]
  BY DEF GoesWith
<1>2. step \in [Requests -> PilotSteps] /\ mem \in [Requests -> PilotMemory \union {Nothing}]
  BY DEF PilotTypeOK, QueueInv
<1>3. to # "done" => m \in PilotMemory
  BY DEF Holds
<1>4. step' \in [Requests -> PilotSteps] /\ mem' \in [Requests -> PilotMemory \union {Nothing}]
  BY <1>1, <1>2, <1>3
<1>5. \A q \in Requests : Active(q)' => q = r /\ to # "done"
  BY <1>1, <1>2 DEF QueueInv, Active
<1>6. step'[r] = to /\ (to # "done" => mem'[r] = m)
  BY <1>1, <1>2
<1>7. \A q \in Requests : Active(q)' => Holds(step[q], mem[q])'
  <2> SUFFICES ASSUME NEW q \in Requests, Active(q)' PROVE Holds(step[q], mem[q])'
    OBVIOUS
  <2>1. step'[q] = to /\ mem'[q] = m /\ Holds(to, m)'
    BY <1>5, <1>6
  <2> QED
    BY <2>1 DEF Holds, Fits, Recalls, Sound
<1>8. QueueInv'
  BY <1>4, <1>5, <1>7 DEF QueueInv
<1>9. \A w \in adrift : w.crossed
  BY DEF DriftInv
<1>10. DriftInv'
  BY <1>9 DEF DriftInv
<1> QED
  BY <1>4, <1>5, <1>6, <1>3, <1>8, <1>10 DEF Active

\* A task that reads goes on with what is so.
LEMMA TaskReads ==
  ASSUME PilotInv, NEW r \in Requests, Active(r), NEW to \in PilotSteps \ {"free"}, NEW m,
         GoesWith(r, to, m), to # "done" => Holds(to, m),
         UNCHANGED <<spaces, runtime, adrift, pilotNotes>>, breaks' \in 0..MaxBreaks
  PROVE  PilotInv'
<1> USE DEF spaces, runtime, pilotNotes
<1>1. to # "done" => Holds(to, m)'
  BY DEF Holds, Recalls, Sound, Follows, QuizTries, Earned
<1>2. /\ QueueInv' /\ DriftInv'
      /\ step' \in [Requests -> PilotSteps]
      /\ \A q \in Requests : step'[q] \notin {"free", "done"} => mem'[q] \in PilotMemory
  BY <1>1, TaskGoes DEF PilotInv
<1>3. PilotTypeOK'
  BY <1>2 DEF PilotTypeOK, PilotInv
<1>4. Quizzed' = Quizzed
  BY DEF Quizzed
<1>5. ToldInv'
  BY <1>4 DEF ToldInv, PilotInv
<1>6. StoryInv /\ IndexInv => StoryInv' /\ IndexInv'
  BY <1>4 DEF StoryInv, IndexInv, QuizTries, Earned
<1> QED
  BY <1>2, <1>3, <1>5, <1>6 DEF PilotInv

\* What is known of the task under way.
LEMMA TaskKnows ==
  ASSUME PilotInv, NEW r \in Requests, Active(r)
  PROVE  /\ Holds(step[r], mem[r]) /\ mem[r] \in PilotMemory
         /\ Fits(step[r], mem[r]) /\ (late \/ Sound(step[r], mem[r]))
         /\ breaks \in 0..MaxBreaks
BY DEF PilotInv, PilotTypeOK, QueueInv, Holds

-----------------------------------------------------------------------------
\* The reads of a command.

LEMMA RequestRead ==
  ASSUME PilotInv, NEW r \in Requests, GetRequest(r)
  PROVE  PilotInv'
<1> DEFINE to == CASE requests[mem[r].key] = Nothing -> "ask"
                   [] requests[mem[r].key] = mem[r].input -> "prior"
                   [] OTHER -> "done"
<1>1. step[r] = "request" /\ Active(r) /\ GoesWith(r, to, mem[r])
  BY DEF GetRequest, Goes, Active
<1>2. to \in PilotSteps \ {"free"} /\ to \in {"ask", "prior", "done"}
  BY DEF PilotSteps, WriteSteps
<1>3. Holds(to, mem[r]) \/ to = "done"
  BY <1>1, <1>2, TaskKnows DEF Holds, Fits, Recalls, Sound
<1>4. UNCHANGED <<spaces, runtime, adrift, pilotNotes, breaks>>
  BY DEF GetRequest
<1> HIDE DEF to
<1> QED
  BY <1>1, <1>2, <1>3, <1>4, TaskKnows, TaskReads

LEMMA CommandRead ==
  ASSUME PilotInv, NEW r \in Requests, GetCommand(r)
  PROVE  PilotInv'
<1> DEFINE prior == commands[mem[r].key]
<1>1. step[r] = "prior" /\ Active(r)
  BY DEF GetCommand, Active
<1>2. mem[r] \in PilotMemory /\ Fits("prior", mem[r]) /\ breaks \in 0..MaxBreaks
  BY <1>1, TaskKnows
<1>3. UNCHANGED <<spaces, runtime, adrift, pilotNotes>> /\ breaks' = breaks
  BY DEF GetCommand
<1>4. mem[r].key \in CommandKeys \union {Founding}
  BY <1>2 DEF PilotMemory
<1>5. prior = Nothing \/ prior \in Receipt
  BY <1>4 DEF PilotInv, PilotTypeOK
<1>6. CASE ~Known(mem[r].key)
  <2> DEFINE to == IF mem[r].key = Founding THEN "commit" ELSE "enrollment"
  <2>1. GoesWith(r, to, mem[r])
    BY <1>6 DEF GetCommand, Goes
  <2>2. to \in PilotSteps \ {"free"} /\ to \in {"commit", "enrollment"}
        /\ (to = "commit" <=> mem[r].key = Founding)
    BY DEF PilotSteps, WriteSteps
  <2>3. Holds(to, mem[r])
    BY <1>2, <2>2, PilotAssumption DEF Holds, Fits, Recalls, Sound
  <2> HIDE DEF to
  <2> QED
    BY <1>1, <1>2, <1>3, <2>1, <2>2, <2>3, TaskReads
<1>7. CASE Known(mem[r].key) /\ prior.input # mem[r].input
  BY <1>1, <1>2, <1>3, <1>7, TaskReads DEF GetCommand, Goes, PilotSteps
<1>8. CASE Known(mem[r].key) /\ prior.input = mem[r].input
  <2> DEFINE to == IF mem[r].key = Founding THEN "replay" ELSE "deliver"
             m  == [mem[r] EXCEPT !.e = prior.e]
  <2>1. GoesWith(r, to, m)
    BY <1>8 DEF GetCommand
  <2>2. to \in PilotSteps \ {"free"} /\ to \in {"replay", "deliver"}
        /\ (to = "replay" <=> mem[r].key = Founding)
    BY DEF PilotSteps
  <2>3. prior # Nothing /\ prior.e \in Enrollments \union {Nothing}
    BY <1>5, <1>8 DEF Known, Receipt
  <2>4. m \in PilotMemory /\ m.key = mem[r].key /\ m.input = mem[r].input /\ m.e = prior.e
        /\ m.mints = mem[r].mints
    BY <1>2, <2>3 DEF PilotMemory
  <2>5. Fits(to, m)
    BY <1>2, <2>2, <2>4 DEF Fits
  <2>6. Recalls(to, m) /\ Sound(to, m)
    BY <2>2, <2>3, <2>4 DEF Recalls, Sound
  <2> HIDE DEF to, m
  <2> QED
    BY <1>1, <1>2, <1>3, <2>1, <2>2, <2>4, <2>5, <2>6, TaskReads DEF Holds
<1> QED
  BY <1>6, <1>7, <1>8

\* What the reducer makes of an enrollment.
LEMMA ReducedFollows ==
  ASSUME NEW e \in Enrollments, NEW input \in Inputs
  PROVE  /\ Reduced(e, input) \in Enrollments
         /\ Reduced(e, input).attempts = e.attempts + IF input.do = "quiz" THEN 1 ELSE 0
         /\ Complete(e) => Complete(Reduced(e, input))
         /\ e.certified \/ input.do = "claim" => Reduced(e, input).certified
<1> DEFINE learnt ==
        CASE input.do = "watch" -> [e EXCEPT !.completed = @ \union {input.at}]
          [] input.do = "quiz"  -> [e EXCEPT !.attempts = @ + 1,
                                             !.passed = @ \/ input.at = 1]
          [] OTHER -> e
<1>1. input.do = "watch" => input.at \in PilotSet
  BY DEF Inputs
<1>2. learnt \in Enrollments
  <2>1. CASE input.do = "watch"
    BY <1>1, <2>1 DEF Enrollments
  <2>2. CASE input.do = "quiz"
    <3>1. e.attempts + 1 \in Nat /\ (e.passed \/ input.at = 1) \in BOOLEAN
      BY DEF Enrollments
    <3>2. learnt = [e EXCEPT !.attempts = @ + 1, !.passed = @ \/ input.at = 1]
      BY <2>2
    <3> HIDE DEF learnt
    <3> QED
      BY <3>1, <3>2 DEF Enrollments
  <2> QED
    BY <2>1, <2>2
<1>3. learnt.attempts = e.attempts + IF input.do = "quiz" THEN 1 ELSE 0
  BY DEF Enrollments
<1>4. e.completed \subseteq learnt.completed /\ (e.passed => learnt.passed)
      /\ learnt.certified = e.certified
  BY DEF Enrollments
<1>5. Complete(learnt) \in BOOLEAN /\ (Complete(e) => Complete(learnt))
  BY <1>4 DEF Complete, Satisfied
<1>6. Reduced(e, input) = [learnt EXCEPT !.finished = @ \/ Complete(learnt),
                                         !.certified = @ \/ input.do = "claim"]
  BY DEF Reduced
<1> HIDE DEF learnt
<1>7. /\ Reduced(e, input) \in Enrollments
      /\ Reduced(e, input).attempts = learnt.attempts
      /\ Reduced(e, input).completed = learnt.completed
      /\ Reduced(e, input).passed = learnt.passed
      /\ Reduced(e, input).certified = (learnt.certified \/ input.do = "claim")
  BY <1>2, <1>5, <1>6 DEF Enrollments
<1>8. Complete(learnt) => Complete(Reduced(e, input))
  BY <1>7 DEF Complete, Satisfied
<1> QED
  BY <1>3, <1>4, <1>5, <1>7, <1>8

LEMMA EnrollmentRead ==
  ASSUME PilotInv, NEW r \in Requests, GetEnrollment(r)
  PROVE  PilotInv'
<1> DEFINE input == mem[r].input
           was   == IF enrollment = Nothing THEN Fresh ELSE enrollment
           next  == IF input.do = "enroll" THEN was ELSE Reduced(was, input)
           m     == [mem[r] EXCEPT !.had = enrollment, !.e = next]
           to    == IF input.do = "claim" THEN "certificate" ELSE "commit"
<1>1. step[r] = "enrollment" /\ Active(r) /\ input \in Inputs
  BY DEF GetEnrollment, Active
<1>2. mem[r] \in PilotMemory /\ Fits("enrollment", mem[r]) /\ breaks \in 0..MaxBreaks
  BY <1>1, TaskKnows
<1>3. UNCHANGED <<spaces, runtime, adrift, pilotNotes>> /\ breaks' = breaks
  BY DEF GetEnrollment
<1>4. enrollment \in Enrollments \union {Nothing} /\ Fresh \in Enrollments
  BY DEF PilotInv, PilotTypeOK, Fresh, Enrollments
<1>5. was \in Enrollments /\ was.attempts = QuizTries(enrollment)
  BY <1>4 DEF QuizTries, Fresh
<1>6. CASE GoesWith(r, "done", mem[r])
  BY <1>1, <1>2, <1>3, <1>6, TaskReads DEF PilotSteps
<1>7. CASE Accepted(was, input) /\ GoesWith(r, to, m)
  <2>1. /\ next \in Enrollments
        /\ next.attempts = was.attempts + IF input.do = "quiz" THEN 1 ELSE 0
        /\ Complete(was) => Complete(next)
        /\ was.certified \/ input.do = "claim" => next.certified
    <3>1. CASE input.do = "enroll"
      BY <1>5, <3>1 DEF Enrollments
    <3>2. CASE input.do # "enroll"
      BY <1>1, <1>5, <3>2, ReducedFollows
    <3> QED
      BY <3>1, <3>2
  <2>2. input.do = "claim" => Complete(was)
    BY <1>7 DEF Accepted
  <2>3. m \in PilotMemory /\ m.key = mem[r].key /\ m.input = input /\ m.had = enrollment
        /\ m.e = next /\ m.mints = mem[r].mints
    BY <1>2, <1>4, <2>1 DEF PilotMemory
  <2>4. to \in PilotSteps \ {"free"} /\ to \in {"certificate", "commit"}
        /\ (to = "certificate" => input.do = "claim")
    BY DEF PilotSteps, WriteSteps
  <2>5. m.key \in CommandKeys /\ m.key # Founding
    BY <1>1, <1>2, <2>3, PilotAssumption DEF Fits
  <2>6. Fits(to, m) /\ Recalls(to, m)
    BY <1>1, <1>2, <2>3, <2>4, <2>5 DEF Fits, Recalls
  <2>7. ASSUME ~late PROVE Follows(m)
    <3>1. certificate => Earned(was)
      BY <2>7 DEF PilotInv, StoryInv, Earned
    <3>2. next # Nothing
      BY <2>1, PilotRecordsAssumption
    <3>3. certificate \/ input.do = "claim" => Earned(next)
      BY <2>1, <2>2, <3>1, <3>2 DEF Earned
    <3> QED
      BY <1>5, <2>1, <2>3, <3>3 DEF Follows
  <2>8. late \/ Sound(to, m)
    BY <2>4, <2>7 DEF Sound
  <2> HIDE DEF to, m
  <2> QED
    BY <1>1, <1>2, <1>3, <1>7, <2>3, <2>4, <2>6, <2>8, TaskReads DEF Holds
<1> QED
  BY <1>6, <1>7 DEF GetEnrollment, Goes

LEMMA CertificateRead ==
  ASSUME PilotInv, NEW r \in Requests, GetCertificate(r)
  PROVE  PilotInv'
<1> DEFINE m == [mem[r] EXCEPT !.mints = ~certificate]
<1>1. step[r] = "certificate" /\ Active(r) /\ GoesWith(r, "commit", m)
      /\ UNCHANGED <<spaces, runtime, adrift, pilotNotes, breaks>>
  BY DEF GetCertificate, Active
<1>2. /\ mem[r] \in PilotMemory /\ Fits("certificate", mem[r]) /\ breaks \in 0..MaxBreaks
      /\ late \/ Sound("certificate", mem[r])
  BY <1>1, TaskKnows
<1>3. m \in PilotMemory /\ m.key = mem[r].key /\ m.input = mem[r].input /\ m.e = mem[r].e
      /\ m.had = mem[r].had
  BY <1>2 DEF PilotInv, PilotTypeOK, PilotMemory
<1>4. m.key # Founding
  BY <1>2, <1>3, PilotAssumption DEF Fits
<1>5. Fits("commit", m) /\ Recalls("commit", m)
  BY <1>2, <1>3, <1>4 DEF Fits, Recalls
<1>6. late \/ Sound("commit", m)
  BY <1>2, <1>3 DEF Sound, Follows
<1> HIDE DEF m
<1> QED
  BY <1>1, <1>2, <1>3, <1>5, <1>6, TaskReads DEF Holds, PilotSteps, WriteSteps

-----------------------------------------------------------------------------
\* The reads of an errand.

LEMMA SpaceRead ==
  ASSUME PilotInv, NEW r \in Requests, Snapshot(r)
  PROVE  PilotInv'
<1> DEFINE m == [mem[r] EXCEPT !.seen = courseRow, !.n = IF outbox = "due" THEN 1 ELSE 0]
<1>1. step[r] = "snapshot" /\ Active(r) /\ GoesWith(r, "index", m)
      /\ UNCHANGED <<spaces, runtime, adrift, pilotNotes, breaks>>
  BY DEF Snapshot, Active
<1>2. mem[r] \in PilotMemory /\ Fits("snapshot", mem[r]) /\ breaks \in 0..MaxBreaks
  BY <1>1, TaskKnows
<1>3. courseRow \in {"none", "pending", "published"}
      /\ (IF outbox = "due" THEN 1 ELSE 0) \in 0..PilotLessons
  BY PilotAssumption DEF PilotInv, PilotTypeOK
<1>4. m \in PilotMemory /\ m.key = mem[r].key /\ m.input = mem[r].input /\ m.seen = courseRow
      /\ m.n = IF outbox = "due" THEN 1 ELSE 0
  BY <1>2, <1>3 DEF PilotMemory
<1>5. Fits("index", m) /\ Recalls("index", m)
  BY <1>2, <1>4 DEF Fits, Recalls
<1>6. late \/ Sound("index", m)
  BY <1>4 DEF Sound, PilotInv, StoryInv
<1> HIDE DEF m
<1> QED
  BY <1>1, <1>2, <1>4, <1>5, <1>6, TaskReads DEF Holds, PilotSteps

LEMMA CompletionRead ==
  ASSUME PilotInv, NEW r \in Requests, GetFinished(r) \/ GetIntent(r)
  PROVE  PilotInv'
<1>1. CASE GetFinished(r)
  <2>1. PICK to \in {"received", "done"} : GoesWith(r, to, mem[r])
    BY <1>1 DEF GetFinished, Goes
  <2>2. step[r] = "enrollment" /\ Active(r)
        /\ UNCHANGED <<spaces, runtime, adrift, pilotNotes, breaks>>
    BY <1>1 DEF GetFinished, Active
  <2>3. Holds(to, mem[r]) \/ to = "done"
    BY <2>2, TaskKnows DEF Holds, Fits, Recalls, Sound
  <2> QED
    BY <2>1, <2>2, <2>3, TaskKnows, TaskReads DEF PilotSteps
<1>2. CASE GetIntent(r)
  <2> DEFINE m == [mem[r] EXCEPT !.tid = intent]
  <2>1. step[r] = "received" /\ Active(r)
        /\ UNCHANGED <<spaces, runtime, adrift, pilotNotes, breaks>>
    BY <1>2 DEF GetIntent, Active
  <2>2. mem[r] \in PilotMemory /\ Fits("received", mem[r]) /\ breaks \in 0..MaxBreaks
    BY <2>1, TaskKnows
  <2>3. CASE intent = Nothing
    <3>1. GoesWith(r, "intend", mem[r])
      BY <1>2, <2>3 DEF GetIntent, Goes
    <3>2. Holds("intend", mem[r])
      BY <2>2, <2>3 DEF Holds, Fits, Recalls, Sound
    <3> QED
      BY <2>1, <2>2, <3>1, <3>2, TaskReads DEF PilotSteps, WriteSteps
  <2>4. CASE intent # Nothing
    <3>1. GoesWith(r, "publish", m)
      BY <1>2, <2>4 DEF GetIntent
    <3>2. m \in PilotMemory /\ m.key = mem[r].key /\ m.input = mem[r].input /\ m.tid = intent
      BY <2>2, <2>4 DEF PilotInv, PilotTypeOK, PilotMemory
    <3>3. Holds("publish", m)
      BY <2>2, <3>2 DEF Holds, Fits, Recalls, Sound
    <3> HIDE DEF m
    <3> QED
      BY <2>1, <2>2, <3>1, <3>3, TaskReads DEF PilotSteps, WriteSteps
  <2> QED
    BY <2>3, <2>4
<1> QED
  BY <1>1, <1>2

\* A rebuild makes the index of what it read; a flush goes on to the outbox.
LEMMA IndexRebuilt ==
  ASSUME PilotInv, NEW r \in Requests, Rebuild(r)
  PROVE  PilotInv'
<1>1. step[r] = "index" /\ Active(r)
      /\ courses' = mem[r].seen /\ connected' = TRUE
      /\ UNCHANGED <<spaces, adrift, pilotNotes, breaks>>
  BY DEF Rebuild, Active
<1>2. /\ mem[r] \in PilotMemory /\ Fits("index", mem[r])
      /\ late \/ Sound("index", mem[r])
  BY <1>1, TaskKnows
<1>3. PICK to \in {"course", "done"}, m \in PilotMemory :
        /\ GoesWith(r, to, m) /\ (to = "course" => mem[r].n = 1)
        /\ m.key = mem[r].key /\ m.input = mem[r].input /\ m.n = 0
  <2> DEFINE n == [mem[r] EXCEPT !.n = 0]
  <2>1. n \in PilotMemory /\ n.key = mem[r].key /\ n.input = mem[r].input /\ n.n = 0
    BY <1>2, PilotAssumption DEF PilotMemory
  <2> QED
    BY <2>1 DEF Rebuild
<1>4. to \in PilotSteps \ {"free"}
  BY DEF PilotSteps, WriteSteps
<1>5. Fits(to, m)
  BY <1>2, <1>3 DEF Fits
<1>6. to = "course" => (late \/ courseRow = "pending")
  BY <1>2, <1>3 DEF Sound
<1>7. courseRow' = courseRow /\ late' = late
  BY <1>1 DEF spaces, pilotNotes
<1>8. Holds(to, m)' \/ to = "done"
  BY <1>3, <1>5, <1>6, <1>7 DEF Holds, Recalls, Sound, Fits
<1>9. /\ QueueInv' /\ DriftInv'
      /\ step' \in [Requests -> PilotSteps]
      /\ \A q \in Requests : step'[q] \notin {"free", "done"} => mem'[q] \in PilotMemory
  BY <1>1, <1>3, <1>4, <1>8, TaskGoes DEF PilotInv
<1>10. PilotTypeOK'
  BY <1>1, <1>2, <1>9 DEF PilotInv, PilotTypeOK, spaces, pilotNotes, PilotMemory
<1>11. Quizzed' = Quizzed
  BY <1>1 DEF Quizzed, spaces
<1>12. ToldInv'
  BY <1>1, <1>11 DEF ToldInv, PilotInv, spaces, pilotNotes
<1>13. late' \/ (StoryInv' /\ IndexInv')
  BY <1>1, <1>2, <1>11
  DEF PilotInv, StoryInv, IndexInv, QuizTries, Earned, Sound, spaces, pilotNotes
<1> QED
  BY <1>9, <1>10, <1>12, <1>13 DEF PilotInv

-----------------------------------------------------------------------------
\* The answers.

\* The task ends; what it tells is in the record of the command.
LEMMA TaskTells ==
  ASSUME PilotInv, NEW r \in Requests, Active(r), GoesWith(r, "done", mem[r]),
         NEW key \in CommandKeys \union {Founding}, NEW e,
         commands[key] # Nothing, commands[key].e = e,
         told' = told \union {<<key, e>>},
         receipts' \in [CommandKeys -> Enrollments \union {Nothing}],
         courses' = courses \/ courses' = courseRow, breaks' \in 0..MaxBreaks,
         UNCHANGED <<requests, intent, courseRow, outbox, commands, enrollment, certificate,
                     site, completions, connected, adrift, before, late>>
  PROVE  PilotInv'
<1>1. /\ QueueInv' /\ DriftInv'
      /\ step' \in [Requests -> PilotSteps]
      /\ \A q \in Requests : step'[q] \notin {"free", "done"} => mem'[q] \in PilotMemory
  BY TaskGoes DEF PilotInv, PilotSteps
<1>2. PilotTypeOK'
  BY <1>1 DEF PilotInv, PilotTypeOK
<1>3. Quizzed' = Quizzed
  BY DEF Quizzed
<1>4. ToldInv'
  BY <1>3 DEF ToldInv, PilotInv
<1>5. late' \/ (StoryInv' /\ IndexInv')
  BY <1>3 DEF PilotInv, StoryInv, IndexInv, QuizTries, Earned
<1> QED
  BY <1>1, <1>2, <1>4, <1>5 DEF PilotInv

LEMMA Answers ==
  ASSUME PilotInv, NEW r \in Requests, Replay(r) \/ Deliver(r)
  PROVE  PilotInv'
<1>1. CASE Replay(r)
  <2>1. step[r] = "replay" /\ Active(r) /\ GoesWith(r, "done", mem[r])
    BY <1>1 DEF Replay, Goes, Active
  <2>2. Fits("replay", mem[r]) /\ Recalls("replay", mem[r]) /\ breaks \in 0..MaxBreaks
    BY <2>1, TaskKnows DEF Holds
  <2>3. mem[r].key = Founding /\ commands[Founding] # Nothing /\ commands[Founding].e = Nothing
    BY <2>2 DEF Fits, Recalls, PilotInv, ToldInv
  <2>4. receipts \in [CommandKeys -> Enrollments \union {Nothing}]
    BY DEF PilotInv, PilotTypeOK
  <2> QED
    BY <1>1, <2>1, <2>2, <2>3, <2>4, TaskTells DEF Replay, spaces
<1>2. CASE Deliver(r)
  <2>1. step[r] = "deliver" /\ Active(r) /\ GoesWith(r, "done", mem[r])
    BY <1>2 DEF Deliver, Goes, Active
  <2>2. mem[r] \in PilotMemory /\ Recalls("deliver", mem[r]) /\ breaks \in 0..MaxBreaks
    BY <2>1, TaskKnows DEF Holds
  <2>3. mem[r].key \in CommandKeys \union {Founding} /\ mem[r].e \in Enrollments \union {Nothing}
    BY <2>2 DEF PilotMemory
  <2>4. receipts \in [CommandKeys -> Enrollments \union {Nothing}]
    BY DEF PilotInv, PilotTypeOK
  <2>5. receipts' \in [CommandKeys -> Enrollments \union {Nothing}]
    BY <1>2, <2>3, <2>4 DEF Deliver
  <2>6. breaks' \in 0..MaxBreaks
    BY <1>2, <2>2, HandlersAssumption DEF Deliver
  <2> QED
    BY <1>2, <2>1, <2>2, <2>3, <2>5, <2>6, TaskTells DEF Deliver, runtime, Recalls
<1> QED
  BY <1>1, <1>2

-----------------------------------------------------------------------------
\* The writes.

\* A batch records one more command, and nothing else of what was recorded.
LEMMA CommitCounts ==
  ASSUME PilotTypeOK, ToldInv, NEW m \in PilotMemory, Commit(m), commands[m.key] = Nothing,
         m.input \in Inputs \union {Creation}
  PROVE  /\ commands' \in [CommandKeys \union {Founding} -> Receipt \union {Nothing}]
         /\ commands'[m.key] # Nothing /\ commands'[m.key].e = m.e
         /\ \A k \in CommandKeys \union {Founding} : k # m.key => commands'[k] = commands[k]
         /\ IsFiniteSet(Quizzed')
         /\ Cardinality(Quizzed') = Cardinality(Quizzed)
              + IF m.key \in CommandKeys /\ m.input.do = "quiz" THEN 1 ELSE 0
<1>1. m.key \in CommandKeys \union {Founding} /\ m.e \in Enrollments \union {Nothing}
  BY DEF PilotMemory
<1>2. [input |-> m.input, e |-> m.e] \in Receipt
  BY <1>1 DEF Receipt
<1>3. commands \in [CommandKeys \union {Founding} -> Receipt \union {Nothing}]
  BY DEF PilotTypeOK
<1>4. commands' = [commands EXCEPT ![m.key] = [input |-> m.input, e |-> m.e]]
  BY DEF Commit, Recorded
<1>5. /\ commands' \in [CommandKeys \union {Founding} -> Receipt \union {Nothing}]
      /\ commands'[m.key] = [input |-> m.input, e |-> m.e]
      /\ \A k \in CommandKeys \union {Founding} : k # m.key => commands'[k] = commands[k]
  BY <1>1, <1>2, <1>3, <1>4
<1>6. commands'[m.key] # Nothing
  BY <1>2, <1>5, PilotRecordsAssumption
<1>7. m.key \notin Quizzed /\ IsFiniteSet(Quizzed) /\ Cardinality(Quizzed) \in Nat
  BY FS_CardinalityType DEF Quizzed, ToldInv
<1>8. CASE m.key \in CommandKeys /\ m.input.do = "quiz"
  <2>1. Quizzed' = Quizzed \union {m.key}
    BY <1>5, <1>6, <1>8 DEF Quizzed
  <2> QED
    BY <1>5, <1>6, <1>7, <1>8, <2>1, FS_AddElement
<1>9. CASE ~(m.key \in CommandKeys /\ m.input.do = "quiz")
  <2>1. Quizzed' = Quizzed
    BY <1>5, <1>7, <1>9 DEF Quizzed
  <2> QED
    BY <1>5, <1>6, <1>7, <1>9, <2>1
<1> QED
  BY <1>8, <1>9

\* The types and the answers, whichever write lands, whenever.
LEMMA LandsWell ==
  ASSUME PilotTypeOK, ToldInv, NEW w \in PilotWrites, Fits(w.at, w.with), Lands(w), ~Refused(w),
         told' = told
  PROVE  /\ requests' \in [CommandKeys -> Inputs \union {Nothing}]
         /\ receipts' = receipts
         /\ intent' \in Requests \union {Nothing}
         /\ courseRow' \in {"none", "pending", "published"}
         /\ outbox' \in {"none", "due", "delivered"}
         /\ commands' \in [CommandKeys \union {Founding} -> Receipt \union {Nothing}]
         /\ enrollment' \in Enrollments \union {Nothing}
         /\ certificate' \in BOOLEAN
         /\ site' \in [course : {"none", "bare", "whole"}, lessons : SUBSET PilotSet]
         /\ completions' \subseteq Requests
         /\ ToldInv'
<1> DEFINE m == w.with
<1>0. w.at \in WriteSteps /\ m \in PilotMemory
  BY DEF PilotWrites
<1>1. CASE w.at = "ask"
  <2>1. m.key \in CommandKeys /\ m.input \in Inputs
    BY <1>1 DEF Fits
  <2>2. requests' = [requests EXCEPT ![m.key] = m.input]
        /\ UNCHANGED <<receipts, intent, courseRow, outbox, commands, enrollment, certificate,
                       site, completions>>
    BY <1>1 DEF Lands
  <2>3. ToldInv'
    BY <2>2 DEF ToldInv, Quizzed
  <2> QED
    BY <2>1, <2>2, <2>3 DEF PilotTypeOK
<1>2. CASE w.at = "commit"
  <2>1. Commit(m) /\ UNCHANGED <<requests, receipts, intent, site, completions>>
    BY <1>2 DEF Lands
  <2>2. m.input \in Inputs \union {Creation} /\ commands[m.key] = Nothing
        /\ (m.key = Founding => m.e = Nothing)
    BY <1>2 DEF Fits, Refused
  <2>3. /\ commands' \in [CommandKeys \union {Founding} -> Receipt \union {Nothing}]
        /\ commands'[m.key] # Nothing /\ commands'[m.key].e = m.e
        /\ \A k \in CommandKeys \union {Founding} : k # m.key => commands'[k] = commands[k]
        /\ IsFiniteSet(Quizzed')
    BY <1>0, <2>1, <2>2, CommitCounts
  <2>4. ToldInv'
    BY <2>2, <2>3 DEF ToldInv
  <2>5. /\ courseRow' \in {"none", "pending", "published"}
        /\ outbox' \in {"none", "due", "delivered"}
        /\ enrollment' \in Enrollments \union {Nothing}
        /\ certificate' \in BOOLEAN
    BY <1>0, <2>1 DEF Commit, PilotTypeOK, PilotMemory
  <2> QED
    BY <2>1, <2>3, <2>4, <2>5 DEF PilotTypeOK
<1>3. CASE w.at \in {"intend", "publish", "batch"}
  <2>1. UNCHANGED <<requests, receipts, commands, enrollment, certificate, site>>
    BY <1>3 DEF Lands
  <2>2. ToldInv'
    BY <2>1 DEF ToldInv, Quizzed
  <2>3. /\ intent' \in Requests \union {Nothing} /\ completions' \subseteq Requests
        /\ courseRow' \in {"none", "pending", "published"}
        /\ outbox' \in {"none", "due", "delivered"}
    BY <1>0, <1>3 DEF Lands, PilotTypeOK, PilotMemory
  <2> QED
    BY <2>1, <2>2, <2>3 DEF PilotTypeOK
<1>4. CASE w.at \in {"course", "lesson", "sections"}
  <2>1. site' = Announced(w)
        /\ UNCHANGED <<requests, receipts, intent, courseRow, outbox, commands, enrollment,
                       certificate, completions>>
    BY <1>4 DEF Lands
  <2>2. ToldInv'
    BY <2>1 DEF ToldInv, Quizzed
  <2>3. w.at = "lesson" => m.n \in PilotSet
    BY DEF Fits
  <2>4. site' \in [course : {"none", "bare", "whole"}, lessons : SUBSET PilotSet]
    BY <1>4, <2>1, <2>3 DEF Announced, PilotTypeOK
  <2> QED
    BY <2>1, <2>2, <2>4 DEF PilotTypeOK
<1> QED
  BY <1>0, <1>1, <1>2, <1>3, <1>4 DEF WriteSteps

\* A write lands before a later task begins: the story goes on.
LEMMA LandsSoundly ==
  ASSUME PilotTypeOK, ToldInv, StoryInv, NEW w \in PilotWrites, Fits(w.at, w.with), Lands(w),
         ~Refused(w), Sound(w.at, w.with), before' = before
  PROVE  /\ StoryInv'
         /\ \/ courseRow' = courseRow /\ (w.at = "commit" => w.with.key # Founding)
            \/ courseRow = "none" /\ courseRow' = "pending" /\ w.at = "commit"
               /\ w.with.key = Founding
            \/ courseRow = "pending" /\ courseRow' = "published" /\ w.at = "batch"
<1> DEFINE m == w.with
<1>0. w.at \in WriteSteps /\ m \in PilotMemory
  BY DEF PilotWrites
<1>1. CASE w.at = "ask"
  <2>1. UNCHANGED <<receipts, intent, courseRow, outbox, commands, enrollment, certificate,
                    site, completions>>
    BY <1>1 DEF Lands
  <2>2. Quizzed' = Quizzed
    BY <2>1 DEF Quizzed
  <2> QED
    BY <1>1, <2>1, <2>2 DEF StoryInv, QuizTries, Earned
<1>2. CASE w.at = "commit"
  <2>1. Commit(m) /\ UNCHANGED <<requests, receipts, intent, site, completions>>
    BY <1>2 DEF Lands
  <2>2. m.input \in Inputs \union {Creation} /\ commands[m.key] = Nothing
        /\ (m.mints => m.input.do = "claim") /\ (m.input \in Inputs <=> m.key \in CommandKeys)
        /\ ~(m.input.do = "enroll" /\ m.had = Nothing /\ enrollment # Nothing)
    BY <1>2 DEF Fits, Refused
  <2>3. /\ commands'[m.key] # Nothing
        /\ \A k \in CommandKeys \union {Founding} : k # m.key => commands'[k] = commands[k]
        /\ Cardinality(Quizzed') = Cardinality(Quizzed)
             + IF m.key \in CommandKeys /\ m.input.do = "quiz" THEN 1 ELSE 0
    BY <1>0, <2>1, <2>2, CommitCounts
  <2>4. Cardinality(Quizzed) \in Nat /\ before \in Nat
    BY FS_CardinalityType DEF ToldInv, PilotTypeOK
  <2>5. CASE m.key = Founding
    <3>1. courseRow' = "pending" /\ outbox' = "due" /\ UNCHANGED <<enrollment, certificate>>
      BY <2>1, <2>5 DEF Commit
    <3>2. courseRow = "none"
      BY <2>2, <2>5 DEF StoryInv
    <3>3. m.key \notin CommandKeys
      BY <2>5, PilotAssumption
    <3>4. Cardinality(Quizzed') = Cardinality(Quizzed)
      BY <2>3, <2>4, <3>3
    <3>5. QuizTries(enrollment)' = QuizTries(enrollment) /\ (Earned(enrollment) => Earned(enrollment)')
      BY <3>1 DEF QuizTries, Earned
    <3>6. StoryInv'
      BY <2>1, <2>3, <2>5, <3>1, <3>4, <3>5 DEF StoryInv
    <3> QED
      BY <1>2, <2>5, <3>1, <3>2, <3>6
  <2>6. CASE m.key # Founding
    <3>1. m.key \in CommandKeys
      BY <1>0, <2>6 DEF PilotMemory
    <3>2. Follows(m)
      BY <1>2, <3>1 DEF Sound
    <3>3. /\ enrollment' = (IF m.input.do = "enroll" /\ m.had # Nothing THEN enrollment ELSE m.e)
          /\ certificate' = (certificate \/ m.mints)
          /\ UNCHANGED <<courseRow, outbox>>
      BY <2>1, <2>6 DEF Commit
    <3>4. QuizTries(enrollment') = QuizTries(enrollment)
                                    + IF m.input.do = "quiz" THEN 1 ELSE 0
      <4>1. m.e # Nothing /\ m.e.attempts \in Nat
            /\ (enrollment # Nothing => enrollment.attempts \in Nat)
        BY <3>2, PilotRecordsAssumption DEF Follows, Enrollments, PilotTypeOK
      <4>2. QuizTries(enrollment) \in Nat
        BY <4>1 DEF QuizTries
      <4> QED
        BY <3>2, <3>3, <4>1, <4>2 DEF Follows, QuizTries
    <3>5. certificate' => Earned(enrollment')
      BY <2>2, <3>2, <3>3 DEF Follows, StoryInv
    <3>6. QuizTries(enrollment') = before' + Cardinality(Quizzed')
      <4>1. QuizTries(enrollment) = before + Cardinality(Quizzed)
        BY DEF StoryInv
      <4> HIDE DEF m
      <4> QED
        BY <2>3, <2>4, <3>1, <3>4, <4>1
    <3>7. StoryInv'
      <4>1. QuizTries(enrollment)' = QuizTries(enrollment') /\ (Earned(enrollment') => Earned(enrollment)')
        BY DEF QuizTries, Earned, Complete, Satisfied
      <4> QED
        BY <2>1, <2>3, <2>6, <3>3, <3>5, <3>6, <4>1 DEF StoryInv
    <3> QED
      BY <2>6, <3>3, <3>7
  <2> QED
    BY <2>5, <2>6
<1>3. CASE w.at \in {"intend", "publish"}
  <2>1. UNCHANGED <<receipts, courseRow, outbox, commands, enrollment, certificate, site>>
    BY <1>3 DEF Lands
  <2>2. Quizzed' = Quizzed
    BY <2>1 DEF Quizzed
  <2>3. completions' \subseteq {intent'}
    <3>1. CASE w.at = "intend"
      <4>1. intent = Nothing /\ completions' = completions
        BY <3>1 DEF Sound, Lands
      <4>2. completions = {}
        BY <4>1, HandlersAssumption DEF StoryInv, PilotTypeOK
      <4> QED
        BY <4>1, <4>2
    <3>2. CASE w.at = "publish"
      BY <3>2 DEF Sound, Lands, StoryInv
    <3> QED
      BY <1>3, <3>1, <3>2
  <2> QED
    BY <1>3, <2>1, <2>2, <2>3 DEF StoryInv, QuizTries, Earned
<1>4. CASE w.at \in {"course", "lesson", "sections"}
  <2>1. UNCHANGED <<receipts, intent, courseRow, outbox, commands, enrollment, certificate,
                    completions>>
    BY <1>4 DEF Lands
  <2>2. Quizzed' = Quizzed
    BY <2>1 DEF Quizzed
  <2>3. courseRow = "pending"
    BY <1>4 DEF Sound
  <2> QED
    BY <1>4, <2>1, <2>2, <2>3 DEF StoryInv, QuizTries, Earned
<1>5. CASE w.at = "batch"
  <2>1. courseRow' = "published" /\ outbox' = "delivered"
        /\ UNCHANGED <<receipts, intent, commands, enrollment, certificate, site, completions>>
    BY <1>5 DEF Lands
  <2>2. Quizzed' = Quizzed
    BY <2>1 DEF Quizzed
  <2>3. courseRow = "pending" /\ site = [course |-> "whole", lessons |-> PilotSet]
    BY <1>5 DEF Sound, PilotTypeOK
  <2> QED
    BY <1>5, <2>1, <2>2, <2>3 DEF StoryInv, QuizTries, Earned
<1> QED
  BY <1>0, <1>1, <1>2, <1>3, <1>4, <1>5 DEF WriteSteps

LEMMA Written ==
  ASSUME PilotInv, NEW r \in Requests, WriteRecord(r)
  PROVE  PilotInv'
<1> DEFINE w == WriteOf(r)
<1>1. step[r] \in WriteSteps /\ Active(r) /\ ~Refused(w) /\ Lands(w) /\ Onward(r)
      /\ courses' = Indexed(r) /\ UNCHANGED <<connected, adrift, pilotNotes, breaks>>
  BY DEF WriteRecord, Active, WriteSteps
<1>2. /\ mem[r] \in PilotMemory /\ Fits(step[r], mem[r])
      /\ late \/ Sound(step[r], mem[r])
  BY <1>1, TaskKnows
<1>3. w \in PilotWrites /\ w.at = step[r] /\ w.with = mem[r]
  BY <1>1, <1>2 DEF WriteOf, PilotWrites
<1>4. told' = told /\ before' = before /\ late' = late
  BY <1>1 DEF pilotNotes
<1> HIDE DEF w
<1>5. /\ requests' \in [CommandKeys -> Inputs \union {Nothing}]
      /\ receipts' = receipts
      /\ intent' \in Requests \union {Nothing}
      /\ courseRow' \in {"none", "pending", "published"}
      /\ outbox' \in {"none", "due", "delivered"}
      /\ commands' \in [CommandKeys \union {Founding} -> Receipt \union {Nothing}]
      /\ enrollment' \in Enrollments \union {Nothing}
      /\ certificate' \in BOOLEAN
      /\ site' \in [course : {"none", "bare", "whole"}, lessons : SUBSET PilotSet]
      /\ completions' \subseteq Requests
      /\ ToldInv'
  BY <1>1, <1>2, <1>3, <1>4, LandsWell DEF PilotInv
<1>6. late \/ StoryInv'
  BY <1>1, <1>2, <1>3, <1>4, LandsSoundly DEF PilotInv
<1>7. late \/ IndexInv'
  <2> SUFFICES ASSUME ~late PROVE IndexInv'
    OBVIOUS
  <2>1. \/ courseRow' = courseRow /\ (step[r] = "commit" => mem[r].key # Founding)
        \/ courseRow = "none" /\ courseRow' = "pending" /\ step[r] = "commit"
           /\ mem[r].key = Founding
        \/ courseRow = "pending" /\ courseRow' = "published" /\ step[r] = "batch"
    BY <1>1, <1>2, <1>3, <1>4, LandsSoundly DEF PilotInv
  <2>2. CASE step[r] = "batch"
    BY <1>1, <1>3, <2>2 DEF Indexed, IndexInv, Lands
  <2>3. CASE step[r] # "batch"
    BY <1>1, <2>1, <2>3 DEF Indexed, IndexInv, PilotInv
  <2> QED
    BY <2>2, <2>3
<1>8. courses' \in {"none", "pending", "published"}
  BY <1>1 DEF Indexed, PilotInv, PilotTypeOK
<1>9. PICK to, m :
        /\ to \in PilotSteps \ {"free"}
        /\ GoesWith(r, to, m) /\ (to = "done" \/ Holds(to, m)')
  <2>1. CASE step[r] = "ask"
    <3>1. GoesWith(r, "prior", mem[r])
      BY <1>1, <2>1 DEF Onward, Goes
    <3>2. \A m : m = mem[r] => Holds("prior", m)'
      BY <1>2, <2>1 DEF Holds, Fits, Recalls, Sound
    <3> QED
      BY <3>1, <3>2 DEF PilotSteps
  <2>2. CASE step[r] = "commit"
    <3>1. GoesWith(r, "deliver", mem[r])
      BY <1>1, <2>2 DEF Onward, Goes
    <3>2. commands'[mem[r].key] # Nothing /\ commands'[mem[r].key].e = mem[r].e
      <4>1. Commit(mem[r]) /\ commands[mem[r].key] = Nothing
        BY <1>1, <1>3, <2>2 DEF Lands, Refused
      <4>2. mem[r].input \in Inputs \union {Creation}
        BY <1>2, <2>2 DEF Fits
      <4> QED
        BY <1>2, <4>1, <4>2, CommitCounts DEF PilotInv
    <3>3. \A m : m = mem[r] => Holds("deliver", m)'
      BY <1>2, <2>2, <3>2 DEF Holds, Fits, Recalls, Sound
    <3> QED
      BY <3>1, <3>3 DEF PilotSteps
  <2>3. CASE step[r] = "intend"
    <3>1. GoesWith(r, "publish", mem[r])
      BY <1>1, <2>3 DEF Onward, Goes
    <3>2. intent' = mem[r].tid
      BY <1>1, <1>3, <2>3 DEF Lands
    <3>3. \A m : m = mem[r] => Holds("publish", m)'
      BY <1>2, <2>3, <3>2 DEF Holds, Fits, Recalls, Sound
    <3> QED
      BY <3>1, <3>3 DEF PilotSteps, WriteSteps
  <2>4. CASE step[r] \in {"course", "lesson"} /\ mem[r].n < PilotLessons
    <3>2. mem[r].n \in 0..PilotLessons /\ PilotLessons \in Nat
      BY <1>2, PilotAssumption DEF PilotMemory
    <3>0. ~(step[r] = "lesson" /\ mem[r].n = PilotLessons)
      BY <2>4, <3>2
    <3>1. GoesWith(r, "lesson", [mem[r] EXCEPT !.n = @ + 1])
      BY <1>1, <2>4, <3>0 DEF Onward
    <3>3. mem[r].n + 1 \in PilotSet /\ mem[r].n + 1 \in 0..PilotLessons
      BY <2>4, <3>2 DEF PilotSet
    <3>4. courseRow' = courseRow /\ site' = Announced(w)
      BY <1>1, <1>3, <2>4 DEF Lands
    <3>5. \A l \in PilotSet : l < mem[r].n + 1 => late \/ l \in site'.lessons
      <4> SUFFICES ASSUME NEW l \in PilotSet, l < mem[r].n + 1, ~late
                   PROVE  l \in site'.lessons
        OBVIOUS
      <4>1. CASE step[r] = "course"
        BY <1>2, <3>2, <4>1 DEF Fits, PilotSet
      <4>2. CASE step[r] = "lesson"
        <5>1. site'.lessons = site.lessons \union {mem[r].n}
          BY <1>3, <3>4, <4>2 DEF Announced, PilotInv, PilotTypeOK
        <5>2. l < mem[r].n \/ l = mem[r].n
          BY <3>2 DEF PilotSet
        <5>3. l < mem[r].n => l \in site.lessons
          BY <1>2, <4>2 DEF Sound
        <5> QED
          BY <5>1, <5>2, <5>3
      <4> QED
        BY <2>4, <4>1, <4>2
    <3>6. \A m : m = [mem[r] EXCEPT !.n = @ + 1] =>
            m \in PilotMemory /\ m.n = mem[r].n + 1 /\ m.key = mem[r].key
            /\ m.input = mem[r].input
      BY <1>2, <3>3 DEF PilotMemory
    <3>7. late \/ courseRow' = "pending"
      BY <1>2, <2>4, <3>4 DEF Sound
    <3>8. \A m : m = [mem[r] EXCEPT !.n = @ + 1] => Holds("lesson", m)'
      BY <1>2, <1>4, <3>3, <3>5, <3>6, <3>7 DEF Holds, Fits, Recalls, Sound
    <3> QED
      BY <3>1, <3>8 DEF PilotSteps, WriteSteps
  <2>5. CASE step[r] = "lesson" /\ mem[r].n = PilotLessons
    <3>1. GoesWith(r, "sections", mem[r])
      BY <1>1, <2>5, PilotAssumption DEF Onward, Goes
    <3>2. courseRow' = courseRow /\ site' = Announced(w)
      BY <1>1, <1>3, <2>5 DEF Lands
    <3>3. late \/ site'.lessons = PilotSet
      <4> SUFFICES ASSUME ~late PROVE site'.lessons = PilotSet
        OBVIOUS
      <4>1. site'.lessons = site.lessons \union {mem[r].n} /\ site.lessons \subseteq PilotSet
        BY <1>3, <2>5, <3>2 DEF Announced, PilotInv, PilotTypeOK
      <4>2. \A l \in PilotSet : l < mem[r].n => l \in site.lessons
        BY <1>2, <2>5 DEF Sound
      <4>3. \A l \in PilotSet : l < mem[r].n \/ l = mem[r].n
        BY <2>5, PilotAssumption DEF PilotSet
      <4>4. mem[r].n \in PilotSet
        BY <1>2, <2>5 DEF Fits
      <4> QED
        BY <4>1, <4>2, <4>3, <4>4
    <3>4. late \/ courseRow' = "pending"
      BY <1>2, <2>5, <3>2 DEF Sound
    <3>5. \A m : m = mem[r] => Holds("sections", m)'
      BY <1>2, <1>4, <2>5, <3>3, <3>4 DEF Holds, Fits, Recalls, Sound
    <3> QED
      BY <3>1, <3>5 DEF PilotSteps, WriteSteps
  <2>6. CASE step[r] = "sections"
    <3>1. GoesWith(r, "batch", mem[r])
      BY <1>1, <2>6 DEF Onward, Goes
    <3>2. courseRow' = courseRow /\ site' = [site EXCEPT !.course = "whole"]
      BY <1>1, <1>3, <2>6 DEF Lands, Announced
    <3>3. site'.course = "whole" /\ site'.lessons = site.lessons
      BY <3>2 DEF PilotInv, PilotTypeOK
    <3>4. late \/ (courseRow' = "pending" /\ site'.lessons = PilotSet)
      BY <1>2, <2>6, <3>2, <3>3 DEF Sound
    <3>5. \A m : m = mem[r] => Holds("batch", m)'
      BY <1>2, <1>4, <2>6, <3>3, <3>4 DEF Holds, Fits, Recalls, Sound
    <3> QED
      BY <3>1, <3>5 DEF PilotSteps, WriteSteps
  <2>7. CASE step[r] \in {"publish", "batch"}
    BY <1>1, <2>7 DEF Onward, Goes, PilotSteps
  <2>8. step[r] = "course" => mem[r].n < PilotLessons
    BY <1>2, PilotAssumption DEF Fits
  <2>9. step[r] = "lesson" => mem[r].n < PilotLessons \/ mem[r].n = PilotLessons
    BY <1>2, PilotAssumption DEF Fits, PilotSet
  <2> QED
    BY <1>1, <2>1, <2>2, <2>3, <2>4, <2>5, <2>6, <2>7, <2>8, <2>9 DEF WriteSteps
<1>10. /\ QueueInv' /\ DriftInv'
       /\ step' \in [Requests -> PilotSteps]
       /\ \A q \in Requests : step'[q] \notin {"free", "done"} => mem'[q] \in PilotMemory
  BY <1>1, <1>9, TaskGoes DEF PilotInv
<1>11. PilotTypeOK'
  BY <1>1, <1>4, <1>5, <1>8, <1>10 DEF PilotInv, PilotTypeOK
<1> QED
  BY <1>4, <1>5, <1>6, <1>7, <1>10, <1>11 DEF PilotInv

-----------------------------------------------------------------------------
\* Beginnings and ends.

\* A new task knows nothing yet, and from now on what is adrift is late.
LEMMA Begun ==
  ASSUME PilotInv, NEW r \in Requests, Begin(r)
  PROVE  PilotInv'
<1>1. /\ \A q \in Requests : ~Active(q)
      /\ adrift' = {[w EXCEPT !.crossed = TRUE] : w \in adrift}
      /\ UNCHANGED <<spaces, connected, courses, pilotNotes, breaks>>
  BY DEF Begin, Served, AtRest, Active
<1>2. PICK key \in CommandKeys \union {Founding},
           input \in Inputs \union {Creation} \union Errands :
        /\ input \in Inputs <=> key \in CommandKeys
        /\ GoesWith(r, FirstStep(input),
            [key |-> key, input |-> input, had |-> Nothing, e |-> Nothing,
             mints |-> FALSE, n |-> 0, seen |-> "none", tid |-> r])
  BY DEF Begin
<1>3. PICK to, m :
        /\ to = FirstStep(input)
        /\ m = [key |-> key, input |-> input, had |-> Nothing, e |-> Nothing,
                mints |-> FALSE, n |-> 0, seen |-> "none", tid |-> r]
  OBVIOUS
<1>4. /\ to \in {"request", "prior", "snapshot", "enrollment"}
      /\ to = "request" <=> input \in Inputs
      /\ to = "prior" => input = Creation
  <2>1. Creation \notin Inputs /\ Creation.do = "create"
    BY DEF Creation, Inputs
  <2>2. \A i \in Errands : i \notin Inputs /\ i # Creation
                           /\ i.do \in {"connect", "rebuild", "flush", "complete"}
    BY DEF Errands, Inputs, Creation
  <2>0. \A i \in Inputs : i.do \notin {"connect", "rebuild", "flush", "complete"}
    BY DEF Inputs
  <2>3. CASE input \in Inputs
    BY <1>3, <2>3, <2>0, <2>1 DEF FirstStep
  <2>4. CASE input = Creation
    BY <1>3, <2>4, <2>1 DEF FirstStep
  <2>5. CASE input \in Errands
    BY <1>3, <2>5, <2>2 DEF FirstStep
  <2> QED
    BY <2>3, <2>4, <2>5
<1>5. m \in PilotMemory
  BY <1>3, PilotAssumption DEF PilotMemory
<1>6. Fits(to, m)
  BY <1>2, <1>3, <1>4 DEF Fits
<1>7. Holds(to, m)'
  BY <1>4, <1>5, <1>6 DEF Holds, Fits, Recalls, Sound
<1>8. to \in PilotSteps \ {"free", "done"}
  BY <1>4 DEF PilotSteps
<1>9. step' = [step EXCEPT ![r] = to] /\ mem' = [mem EXCEPT ![r] = m]
  BY <1>2, <1>3, <1>4 DEF GoesWith
<1>10. step \in [Requests -> PilotSteps] /\ mem \in [Requests -> PilotMemory \union {Nothing}]
  BY DEF PilotInv, PilotTypeOK, QueueInv
<1>11. /\ step' \in [Requests -> PilotSteps] /\ mem' \in [Requests -> PilotMemory \union {Nothing}]
       /\ step'[r] = to /\ mem'[r] = m
       /\ \A q \in Requests : q # r => step'[q] = step[q]
  BY <1>5, <1>8, <1>9, <1>10
<1>12. \A q \in Requests : Active(q)' => q = r
  BY <1>1, <1>11 DEF Active
<1>13. QueueInv'
  <2>1. \A q \in Requests : Active(q)' => Holds(step[q], mem[q])'
    <3> SUFFICES ASSUME NEW q \in Requests, Active(q)' PROVE Holds(step[q], mem[q])'
      OBVIOUS
    <3>1. step'[q] = to /\ mem'[q] = m
      BY <1>11, <1>12
    <3> QED
      BY <1>7, <3>1 DEF Holds, Fits, Recalls, Sound
  <2> QED
    BY <1>11, <1>12, <2>1 DEF QueueInv
<1>14. \A w \in adrift' : w \in PilotWrites /\ Fits(w.at, w.with) /\ w.crossed
  <2> SUFFICES ASSUME NEW v \in adrift
               PROVE  LET w == [v EXCEPT !.crossed = TRUE]
                      IN w \in PilotWrites /\ Fits(w.at, w.with) /\ w.crossed
    BY <1>1
  <2>1. v \in PilotWrites /\ Fits(v.at, v.with)
    BY DEF PilotInv, PilotTypeOK, DriftInv
  <2> QED
    BY <2>1 DEF PilotWrites
<1>15. DriftInv'
  BY <1>14 DEF DriftInv, Fits
<1>16. PilotTypeOK'
  BY <1>1, <1>11, <1>12, <1>5, <1>14 DEF PilotInv, PilotTypeOK, spaces, pilotNotes, Active
<1>17. Quizzed' = Quizzed
  BY <1>1 DEF Quizzed, spaces
<1>18. ToldInv'
  BY <1>1, <1>17 DEF PilotInv, ToldInv, spaces, pilotNotes
<1>19. late' \/ (StoryInv' /\ IndexInv')
  BY <1>1, <1>17 DEF PilotInv, StoryInv, IndexInv, QuizTries, Earned, spaces, pilotNotes
<1> QED
  BY <1>13, <1>15, <1>16, <1>18, <1>19 DEF PilotInv

\* A task that fails, or is refused a write, leaves nothing behind.
LEMMA TaskFails ==
  ASSUME PilotInv, NEW r \in Requests, PilotReadFails(r) \/ WriteRefused(r)
  PROVE  PilotInv'
<1>1. Active(r) /\ GoesWith(r, "done", mem[r]) /\ breaks \in 0..MaxBreaks
      /\ UNCHANGED <<spaces, runtime, adrift, pilotNotes>>
  BY DEF PilotReadFails, WriteRefused, Goes, Active, WriteSteps, PilotInv, PilotTypeOK
<1>2. breaks' \in 0..MaxBreaks
  BY <1>1, HandlersAssumption DEF PilotReadFails, WriteRefused
<1> QED
  BY <1>1, <1>2, TaskReads DEF PilotSteps

\* No task is left, but perhaps a write of the one there was.
LEMMA TaskLeavesWrite ==
  ASSUME PilotInv, breaks' \in 0..MaxBreaks,
         step' \in [Requests -> {"free", "done"}],
         mem' \in [Requests -> PilotMemory \union {Nothing}],
         adrift' = adrift \union {WriteOf(q) : q \in {p \in Requests : step[p] \in WriteSteps}},
         UNCHANGED <<spaces, pilotNotes>>, connected' \in BOOLEAN,
         courses' = courses \/ courses' = "none"
  PROVE  PilotInv'
<1> USE DEF spaces, pilotNotes
<1>1. \A q \in Requests : ~Active(q)'
  BY DEF Active
<1>2. QueueInv'
  BY <1>1 DEF QueueInv
<1>3. ASSUME NEW q \in Requests, step[q] \in WriteSteps
      PROVE  /\ WriteOf(q) \in PilotWrites /\ ~WriteOf(q).crossed
             /\ Fits(WriteOf(q).at, WriteOf(q).with)
             /\ late \/ Sound(WriteOf(q).at, WriteOf(q).with)
             /\ \A w \in adrift : w.crossed
             /\ \A p \in Requests : step[p] \in WriteSteps => p = q
  <2>1. Active(q)
    BY <1>3 DEF Active, WriteSteps
  <2>2. mem[q] \in PilotMemory /\ Fits(step[q], mem[q]) /\ (late \/ Sound(step[q], mem[q]))
    BY <2>1, TaskKnows
  <2>3. \A p \in Requests : step[p] \in WriteSteps => p = q
    BY <2>1 DEF PilotInv, QueueInv, Active, WriteSteps
  <2>4. \A w \in adrift : w.crossed
    BY <2>1 DEF PilotInv, DriftInv
  <2> QED
    BY <1>3, <2>2, <2>3, <2>4 DEF WriteOf, PilotWrites
<1>4. \A w \in adrift : w \in PilotWrites
  BY DEF PilotInv, PilotTypeOK
<1>5. \A w \in adrift' : w \in PilotWrites
  BY <1>3, <1>4
<1>6. ASSUME NEW w \in adrift'
      PROVE  /\ Fits(w.at, w.with)
             /\ ~w.crossed => /\ \A v \in adrift' : ~v.crossed => v = w
                              /\ late \/ Sound(w.at, w.with)
  <2>1. CASE w \in adrift
    <3>1. /\ Fits(w.at, w.with)
          /\ ~w.crossed => /\ \A v \in adrift : ~v.crossed => v = w
                           /\ late \/ Sound(w.at, w.with)
      BY <2>1 DEF PilotInv, DriftInv
    <3>2. ~w.crossed => adrift' = adrift
      BY <1>3, <2>1
    <3> QED
      BY <3>1, <3>2
  <2>2. CASE w \notin adrift
    <3>1. PICK q \in Requests : step[q] \in WriteSteps /\ w = WriteOf(q)
      BY <2>2
    <3>2. \A v \in adrift' : v \in adrift \/ v = w
      BY <1>3, <3>1
    <3> QED
      BY <1>3, <3>1, <3>2
  <2> QED
    BY <2>1, <2>2
<1>7. DriftInv'
  <2>1. \A w : (late \/ Sound(w.at, w.with)) => (late \/ Sound(w.at, w.with))'
    BY DEF Sound, Follows, QuizTries, Earned
  <2> QED
    BY <1>1, <1>6, <2>1 DEF DriftInv, Fits
<1>8. PilotTypeOK'
  <2>1. step' \in [Requests -> PilotSteps]
        /\ \A q \in Requests : step'[q] \in {"free", "done"}
    BY DEF PilotSteps
  <2> QED
    BY <1>5, <2>1 DEF PilotInv, PilotTypeOK
<1>9. Quizzed' = Quizzed
  BY DEF Quizzed
<1>10. ToldInv'
  BY <1>9 DEF PilotInv, ToldInv
<1>11. late' \/ (StoryInv' /\ IndexInv')
  BY <1>9 DEF PilotInv, StoryInv, IndexInv, QuizTries, Earned
<1> QED
  BY <1>2, <1>7, <1>8, <1>10, <1>11 DEF PilotInv

LEMMA Abandoned ==
  ASSUME PilotInv, (\E r \in Requests : GiveUp(r)) \/ Restart
  PROVE  PilotInv'
<1>0. step \in [Requests -> PilotSteps] /\ mem \in [Requests -> PilotMemory \union {Nothing}]
      /\ breaks \in 0..MaxBreaks /\ connected \in BOOLEAN
  BY DEF PilotInv, PilotTypeOK, QueueInv
<1>1. ASSUME NEW r \in Requests, GiveUp(r) PROVE PilotInv'
  <2>1. step[r] \in WriteSteps /\ Active(r) /\ GoesWith(r, "done", mem[r])
        /\ adrift' = adrift \union {WriteOf(r)} /\ UNCHANGED <<spaces, runtime, pilotNotes>>
    BY <1>1 DEF GiveUp, Goes, Active, WriteSteps
  <2>2. \A q \in Requests : Active(q) => q = r
    BY <2>1 DEF PilotInv, QueueInv
  <2>3. {p \in Requests : step[p] \in WriteSteps} = {r}
    BY <2>1, <2>2 DEF Active, WriteSteps
  <2>4. step' \in [Requests -> {"free", "done"}]
    BY <1>0, <2>1, <2>2 DEF GoesWith, Active
  <2>5. mem' \in [Requests -> PilotMemory \union {Nothing}]
    BY <1>0, <2>1 DEF GoesWith
  <2>6. breaks' \in 0..MaxBreaks
    BY <1>0, <1>1, HandlersAssumption DEF GiveUp
  <2>7. {WriteOf(q) : q \in {p \in Requests : step[p] \in WriteSteps}} = {WriteOf(r)}
    BY <2>3
  <2> QED
    BY <1>0, <2>1, <2>4, <2>5, <2>6, <2>7, TaskLeavesWrite DEF runtime
<1>2. CASE Restart
  <2>1. step' \in [Requests -> {"free", "done"}] /\ mem' \in [Requests -> PilotMemory \union {Nothing}]
    BY <1>2 DEF Restart
  <2>2. breaks' \in 0..MaxBreaks
    BY <1>0, <1>2, HandlersAssumption DEF Restart
  <2> QED
    BY <1>2, <2>1, <2>2, TaskLeavesWrite DEF Restart
<1> QED
  BY <1>1, <1>2

\* A write that was adrift lands, or is refused.
LEMMA Landed ==
  ASSUME PilotInv, NEW w \in adrift, Land(w)
  PROVE  PilotInv'
<1>1. adrift' = adrift \ {w} /\ UNCHANGED <<runtime, before, told, handlers>>
  BY DEF Land
<1>2. w \in PilotWrites /\ Fits(w.at, w.with)
  BY DEF PilotInv, PilotTypeOK, DriftInv
<1>3. CASE Refused(w)
  <2>1. UNCHANGED <<spaces, late>>
    BY <1>3 DEF Land
  <2> USE <1>1, <2>1 DEF spaces, runtime, handlers
  <2>2. Quizzed' = Quizzed
    BY DEF Quizzed
  <2>3. QueueInv'
    BY DEF PilotInv, QueueInv, Holds, Fits, Recalls, Sound, Follows, QuizTries, Earned, Active
  <2>4. DriftInv'
    BY DEF PilotInv, DriftInv, Fits, Sound, Follows, QuizTries, Earned, Active
  <2>5. PilotTypeOK'
    BY DEF PilotInv, PilotTypeOK
  <2>6. ToldInv' /\ (late' \/ (StoryInv' /\ IndexInv'))
    BY <2>2 DEF PilotInv, ToldInv, StoryInv, IndexInv, QuizTries, Earned
  <2> QED
    BY <2>3, <2>4, <2>5, <2>6 DEF PilotInv
<1>4. CASE ~Refused(w)
  <2>1. Lands(w) /\ late' = (late \/ w.crossed) /\ courses' = courses /\ connected' = connected
        /\ step' = step /\ mem' = mem /\ breaks' = breaks /\ told' = told /\ before' = before
    BY <1>1, <1>4 DEF Land, runtime, handlers
  <2>2. /\ requests' \in [CommandKeys -> Inputs \union {Nothing}]
        /\ receipts' = receipts
        /\ intent' \in Requests \union {Nothing}
        /\ courseRow' \in {"none", "pending", "published"}
        /\ outbox' \in {"none", "due", "delivered"}
        /\ commands' \in [CommandKeys \union {Founding} -> Receipt \union {Nothing}]
        /\ enrollment' \in Enrollments \union {Nothing}
        /\ certificate' \in BOOLEAN
        /\ site' \in [course : {"none", "bare", "whole"}, lessons : SUBSET PilotSet]
        /\ completions' \subseteq Requests
        /\ ToldInv'
    BY <1>2, <1>4, <2>1, LandsWell DEF PilotInv
  <2>3. late' \in BOOLEAN
    BY <1>2, <2>1 DEF PilotInv, PilotTypeOK, PilotWrites
  <2>4. PilotTypeOK'
    BY <1>1, <2>1, <2>2, <2>3 DEF PilotInv, PilotTypeOK
  <2>5. ~late' => ~late /\ ~w.crossed
    BY <2>1
  <2>6. ~w.crossed => (\A q \in Requests : ~Active(q)) /\ \A v \in adrift' : v.crossed
    BY <1>1 DEF PilotInv, DriftInv
  <2>7. ASSUME NEW q \in Requests, Active(q) PROVE Holds(step[q], mem[q])'
    <3>1. late'
      BY <2>5, <2>6, <2>7
    <3>2. Holds(step[q], mem[q])
      BY <2>7 DEF PilotInv, QueueInv
    <3>3. mem[q].key \in CommandKeys \union {Founding}
      BY <3>2 DEF Holds, PilotMemory
    <3>4. \A k \in CommandKeys \union {Founding} :
            commands[k] # Nothing => commands'[k] = commands[k]
      <4>1. CASE w.at = "commit"
        <5>1. Commit(w.with) /\ commands[w.with.key] = Nothing
          BY <1>4, <2>1, <4>1 DEF Lands, Refused
        <5>2. w.with.input \in Inputs \union {Creation} /\ w.with \in PilotMemory
          BY <1>2, <4>1 DEF Fits, PilotWrites
        <5> QED
          BY <5>1, <5>2, CommitCounts DEF PilotInv
      <4>2. CASE w.at # "commit"
        BY <2>1, <4>2 DEF Lands
      <4> QED
        BY <4>1, <4>2
    <3>5. Founding \in CommandKeys \union {Founding}
      OBVIOUS
    <3>6. Recalls(step[q], mem[q])'
      BY <2>1, <3>2, <3>3, <3>4, <3>5 DEF Holds, Recalls
    <3> QED
      BY <2>1, <3>1, <3>2, <3>6 DEF Holds, Fits
  <2>8. QueueInv'
    BY <2>1, <2>7 DEF PilotInv, QueueInv, Active
  <2>9. DriftInv'
    <3> SUFFICES ASSUME NEW v \in adrift'
                 PROVE  /\ Fits(v.at, v.with)
                        /\ ~v.crossed =>
                             /\ \A r \in Requests : ~Active(r)
                             /\ \A u \in adrift' : ~u.crossed => u = v
                             /\ late' \/ Sound(v.at, v.with)'
      BY <2>1 DEF DriftInv, Fits, Active
    <3>1. v \in adrift /\ v # w
      BY <1>1
    <3>2. ~v.crossed => w.crossed
      BY <3>1 DEF PilotInv, DriftInv
    <3> QED
      BY <1>1, <2>1, <3>1, <3>2 DEF PilotInv, DriftInv
  <2>10. ASSUME ~late' PROVE StoryInv' /\ IndexInv'
    <3>1. Sound(w.at, w.with) /\ StoryInv /\ IndexInv
      BY <2>5, <2>10 DEF PilotInv, DriftInv
    <3>2. StoryInv' /\ (\/ courseRow' = courseRow
                        \/ courseRow = "none" /\ courseRow' = "pending"
                        \/ courseRow = "pending" /\ courseRow' = "published")
      BY <1>2, <1>4, <2>1, <3>1, LandsSoundly DEF PilotInv
    <3> QED
      BY <2>1, <3>1, <3>2 DEF IndexInv
  <2> QED
    BY <2>2, <2>4, <2>8, <2>9, <2>10 DEF PilotInv
<1> QED
  BY <1>3, <1>4

LEMMA PilotInvStutter == PilotInv /\ UNCHANGED pilotVars => PilotInv'
BY DEF PilotInv, PilotTypeOK, QueueInv, DriftInv, ToldInv, StoryInv, IndexInv, Quizzed, Active,
       Holds, Fits, Recalls, Sound, Follows, QuizTries, Earned, pilotVars, spaces, runtime,
       pilotNotes, handlers

LEMMA PilotInvNext == PilotInv /\ [PilotNext]_pilotVars => PilotInv'
<1> SUFFICES ASSUME PilotInv, [PilotNext]_pilotVars PROVE PilotInv'
  OBVIOUS
<1>1. ASSUME NEW r \in Requests, PilotTask(r) PROVE PilotInv'
  BY <1>1, Begun, TaskFails, RequestRead, CommandRead, Answers, EnrollmentRead,
     CertificateRead, SpaceRead, IndexRebuilt, CompletionRead, Written, Abandoned
  DEF PilotTask
<1>2. ASSUME NEW w \in adrift, Land(w) PROVE PilotInv'
  BY <1>2, Landed
<1>3. CASE Restart
  BY <1>3, Abandoned
<1>4. CASE RestPilot \/ UNCHANGED pilotVars
  BY <1>4, PilotInvStutter DEF RestPilot
<1> QED
  BY <1>1, <1>2, <1>3, <1>4 DEF PilotNext

LEMMA PilotSafe == PilotSpec => []PilotInv
<1> QED
  BY PilotInvInit, PilotInvNext, PTL DEF PilotSpec

\* The records of every space, the index and the tasks keep their types (the
\* collections of learning.mjs), for any keys, lessons, tasks and failures.
THEOREM PilotTypeCorrect == PilotSpec => []PilotTypeOK
<1>1. PilotInv => PilotTypeOK
  BY DEF PilotInv
<1> QED
  BY <1>1, PilotSafe, PTL

\* However commands are retried, given up on and landed, and wherever the
\* process dies: outcomes are applied once, answers are what was recorded, what
\* is published is public, and the learner has one record of the completion
\* (Learning.execute, flushOutbox, publishCompletion).
THEOREM PilotTellsOneStory == PilotSpec => []PilotIsConsistent
<1>1. PilotInv => PilotIsConsistent
  <2> SUFFICES ASSUME PilotInv PROVE PilotIsConsistent
    OBVIOUS
  <2>1. ASSUME ~late PROVE Cardinality(completions) <= 1
    <3>1. completions = {} \/ completions = {intent}
      BY <2>1 DEF PilotInv, StoryInv
    <3>2. Cardinality({}) = 0 /\ Cardinality({intent}) = 1
      BY FS_EmptySet, FS_Singleton
    <3> QED
      BY <3>1, <3>2
  <2>2. CommandsApplyOnce
    BY DEF PilotInv, ToldInv, StoryInv, QuizTries, Earned, Quizzed, CommandsApplyOnce
  <2>3. PublishedIsPublic
    BY DEF PilotInv, StoryInv, IndexInv, PublishedIsPublic
  <2> QED
    BY <2>1, <2>2, <2>3 DEF PilotIsConsistent, OneCompletionRecord
<1> QED
  BY <1>1, PilotSafe, PTL
==============================================================================
