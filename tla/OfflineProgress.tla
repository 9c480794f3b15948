--------------------------- MODULE OfflineProgress ---------------------------
(***************************************************************************)
(* The mobile app's queue of progress made offline (offlineProgressQueue)  *)
(* and the effect that drains it when the network is back                  *)
(* (useOfflineProgress).  No screen uses them yet: what is modelled is the *)
(* module, called as its comments and its tests do.                        *)
(*                                                                         *)
(* Each request is one item and the call of queueProgress that queues it.  *)
(* AsyncStorage is external: it does one write after the other.            *)
(***************************************************************************)
EXTENDS Handlers, Sequences

VARIABLES
  queued,      \* the module's `queue`
  loaded,      \* the module's `loaded`
  stored,      \* the queue in AsyncStorage, Nothing before the first write
  writes,      \* queues that setItem has yet to write
  online,      \* the network
  wasOffline,  \* the hook's ref
  drain,       \* the effect's function: where it is, its items, the one it replays
  delivered    \* items that the server has

\* History.
VARIABLES
  gone,        \* items lost: with the app, by a second load or a read that failed
  unsaved      \* since the app runs: a read or write failed, or there was a second load

offlineQueue == <<queued, loaded, stored, writes>>
offlineVars == <<offlineQueue, online, wasOffline, drain, delivered, gone, unsaved, handlers>>

Items == SUBSET Requests

\* What storage without a queue has is not a queue.
ASSUME OfflineAssumption == \A s \in Items : s # Nothing

Stored == IF stored = Nothing THEN {} ELSE stored
Held == IF loaded THEN queued ELSE Stored
Idle == [at |-> "idle", items |-> {}, item |-> Nothing]

OfflineTypeOK ==
  /\ queued \in Items /\ delivered \in Items /\ gone \in Items
  /\ stored \in Items \union {Nothing}
  /\ \A i \in DOMAIN writes : writes[i] \in Items
  /\ loaded \in BOOLEAN /\ online \in BOOLEAN /\ wasOffline \in BOOLEAN /\ unsaved \in BOOLEAN
  /\ drain \in [at : {"idle", "load", "got", "take", "next", "again"},
                items : Items, item : Requests \union {Nothing}]
  /\ step \in [Requests -> {"free", "load", "got", "push", "done"}]
  /\ breaks \in 0..MaxBreaks

\* ensureLoaded reads the storage, and then overwrites the queue.
Load(read) ==
  /\ queued' = IF read = Nothing THEN queued ELSE read
  /\ gone' = gone \union ((Held \ queued') \ delivered)
  /\ unsaved' = (unsaved \/ loaded)
  /\ loaded' = TRUE

\* push, and setItem of the queue as it is now.
Push(items) ==
  /\ queued' = queued \union items
  /\ writes' = Append(writes, queued \union items)

-----------------------------------------------------------------------------
\* enqueueProgress.
QueueProgress(r) ==
  /\ step[r] = "free"
  /\ Goes(r, IF loaded THEN "push" ELSE "load")
  /\ UNCHANGED <<offlineQueue, online, wasOffline, drain, delivered, gone, unsaved, breaks>>

\* A read that fails gives an empty queue.
ReadFails == breaks < MaxBreaks /\ breaks' = breaks + 1 /\ unsaved' = TRUE

ReadQueue(r) ==
  /\ step[r] = "load"
  /\ \/ GoesWith(r, "got", stored) /\ UNCHANGED <<unsaved, breaks>>
     \/ GoesWith(r, "got", {}) /\ ReadFails
  /\ UNCHANGED <<offlineQueue, online, wasOffline, drain, delivered, gone>>

LoadQueue(r) ==
  /\ step[r] = "got"
  /\ Load(mem[r])
  /\ Goes(r, "push")
  /\ UNCHANGED <<stored, writes, online, wasOffline, drain, delivered, breaks>>

PushItem(r) ==
  /\ step[r] = "push"
  /\ Push({r})
  /\ Goes(r, "done")
  /\ UNCHANGED <<loaded, stored, online, wasOffline, drain, delivered, gone, unsaved, breaks>>

\* The storage writes, or fails to, which persist() does not tell.
Persist ==
  /\ writes # <<>> /\ writes' = Tail(writes)
  /\ \/ stored' = Head(writes) /\ UNCHANGED <<unsaved, breaks>>
     \/ /\ breaks < MaxBreaks /\ breaks' = breaks + 1
        /\ unsaved' = TRUE /\ UNCHANGED stored
  /\ UNCHANGED <<queued, loaded, online, wasOffline, drain, delivered, gone, step, mem>>

-----------------------------------------------------------------------------
\* The network goes, and comes back; the effect runs.
Offline ==
  /\ online /\ online' = FALSE /\ wasOffline' = TRUE
  /\ UNCHANGED <<offlineQueue, drain, delivered, gone, unsaved, handlers>>

Online ==
  /\ ~online /\ online' = TRUE
  /\ IF wasOffline /\ drain = Idle
     THEN /\ wasOffline' = FALSE
          /\ drain' = [Idle EXCEPT !.at = IF loaded THEN "take" ELSE "load"]
     ELSE UNCHANGED <<wasOffline, drain>>
  /\ UNCHANGED <<offlineQueue, delivered, gone, unsaved, handlers>>

DrainReads ==
  /\ drain.at = "load"
  /\ \/ stored = Nothing /\ drain' = [drain EXCEPT !.at = "take"] /\ loaded' = TRUE
        /\ unsaved' = (unsaved \/ loaded) /\ UNCHANGED breaks
     \/ stored # Nothing /\ drain' = [drain EXCEPT !.at = "got", !.items = stored]
        /\ UNCHANGED <<loaded, unsaved, breaks>>
     \/ ReadFails /\ drain' = [drain EXCEPT !.at = "got"] /\ UNCHANGED loaded
  /\ UNCHANGED <<queued, stored, writes, online, wasOffline, delivered, gone, step, mem>>

DrainLoads ==
  /\ drain.at = "got"
  /\ Load(drain.items)
  /\ drain' = [Idle EXCEPT !.at = "take"]
  /\ UNCHANGED <<stored, writes, online, wasOffline, delivered, handlers>>

\* drainProgressQueue: the queue is emptied, before its items are replayed.
Take ==
  /\ drain.at = "take"
  /\ queued' = {} /\ writes' = Append(writes, {})
  /\ drain' = IF queued = {} THEN Idle ELSE [Idle EXCEPT !.at = "next", !.items = queued]
  /\ UNCHANGED <<loaded, stored, online, wasOffline, delivered, gone, unsaved, handlers>>

\* Mutant of Requeued: an item that could not be replayed is given up.
RequeuedNot(r) == drain' = [drain EXCEPT !.items = @ \ {r}]

\* An item that could not be replayed goes back to the queue.
Requeued(r) == drain' = [drain EXCEPT !.at = "again", !.items = @ \ {r}, !.item = r]

\* onReplay of an item: the server has it, or not, and the app knows, or not.
ReplayItem(r) ==
  /\ drain.at = "next" /\ r \in drain.items /\ writes = <<>>
  /\ \/ /\ delivered' = delivered \union {r} /\ UNCHANGED breaks
        /\ drain' = IF drain.items = {r} THEN Idle ELSE [drain EXCEPT !.items = @ \ {r}]
     \/ /\ ~online \/ breaks < MaxBreaks
        /\ breaks' = IF online THEN breaks + 1 ELSE breaks
        /\ Requeued(r)
        /\ delivered' \in {delivered, delivered \union {r}}
  /\ UNCHANGED <<offlineQueue, online, wasOffline, gone, unsaved, step, mem>>

PushAgain ==
  /\ drain.at = "again"
  /\ Push({drain.item})
  /\ drain' = IF drain.items = {} THEN Idle ELSE [drain EXCEPT !.at = "next", !.item = Nothing]
  /\ UNCHANGED <<loaded, stored, online, wasOffline, delivered, gone, unsaved, handlers>>

\* The app is killed: the storage is what is left.
Kill ==
  LET had  == queued \union drain.items \union {drain.item}
                \union {r \in Requests : step[r] \in {"load", "got", "push"}}
      safe == delivered \union Stored
  IN
  /\ breaks < MaxBreaks /\ breaks' = breaks + 1
  /\ gone' = gone \union ((had \intersect Requests) \ safe)
  /\ queued' = {} /\ loaded' = FALSE /\ writes' = <<>> /\ drain' = Idle /\ unsaved' = FALSE
  /\ wasOffline' = ~online
  /\ step' = [r \in Requests |-> IF step[r] = "free" THEN "free" ELSE "done"]
  /\ mem' = [r \in Requests |-> Nothing]
  /\ UNCHANGED <<stored, online, delivered>>

-----------------------------------------------------------------------------
RestOffline == AtRest /\ UNCHANGED offlineVars

OfflineNext ==
  \/ \E r \in Requests :
       QueueProgress(r) \/ ReadQueue(r) \/ LoadQueue(r) \/ PushItem(r) \/ ReplayItem(r)
  \/ Persist \/ Offline \/ Online \/ DrainReads \/ DrainLoads \/ Take \/ PushAgain \/ Kill
  \/ RestOffline

OfflineInit ==
  /\ queued = {} /\ loaded = FALSE /\ stored = Nothing /\ writes = <<>>
  /\ online \in BOOLEAN /\ wasOffline = ~online
  /\ drain = Idle /\ delivered = {} /\ gone = {} /\ unsaved = FALSE
  /\ step = [r \in Requests |-> "free"] /\ mem = [r \in Requests |-> Nothing] /\ breaks = 0

OfflineSpec == OfflineInit /\ [][OfflineNext]_offlineVars

-----------------------------------------------------------------------------
\* Properties.

\* An item that was queued is queued still, or is being replayed, or the server
\* has it, unless the app was killed before it was stored, or a second call or
\* a failed read put another queue in its place; with no write to come, the
\* storage has the queue (offlineProgressQueue).
QueuedIsKept ==
  /\ \A r \in Requests : step[r] = "done" =>
       r \in Held \union drain.items \union {drain.item} \union delivered \union gone
  /\ (loaded /\ writes = <<>> /\ ~unsaved) => Stored = queued
=============================================================================
