----------------------------- MODULE EventCache -----------------------------
(***************************************************************************)
(* server-c's event cache: EventQueryService fills it on a miss            *)
(* (cache-aside), EventCacheRefresher writes the IN_PROGRESS events again  *)
(* on every interval (refresh-ahead), and Redis drops an entry its TTL     *)
(* after it was last written.                                              *)
(*                                                                         *)
(* Both read the database, wait, and write Redis: what they write may have *)
(* been overtaken.  Time passes in units of the refresh interval.  An      *)
(* event is its status; administrators change it, no code of server-c.     *)
(***************************************************************************)
EXTENDS Naturals, FiniteSets

CONSTANTS Events,
          NoEvent,
          Readers,    \* GET /events/{eventId} requests that may be open at a time
          Refresher,
          Ttl,        \* EVENT_CACHE_TTL_SECONDS / EVENT_CACHE_REFRESH_MS: 5
          MaxHold,    \* intervals a request or a refresh cycle may extend over
          MaxFaults   \* bound: crashes, failed commands and queries, evictions

ASSUME EventCacheAssumption ==
    /\ NoEvent \notin Events
    /\ Refresher \notin Readers
    /\ Ttl \in Nat /\ MaxHold \in Nat
    /\ Ttl > 2 * MaxHold + 1
    /\ MaxFaults \in Nat

VARIABLES
    db,        \* the status of each event in the database
    replaced,  \* units since the event left a status, Long if it never had it
    steady,    \* units since its status changed or anything failed, capped
    cache,     \* the status of the EventView in Redis
    life,      \* units it has left to live
    asks,      \* the event a request that missed the cache is after
    view,      \* the status it has read from the database
    at,        \* what the refresher does next
    running,   \* its re-entrance guard
    todo,      \* the events, read as IN_PROGRESS, it has still to put
    held,      \* units since a request or a cycle began
    due,       \* the interval's timer has still to fire in this unit
    faults

database == <<db, replaced>>
redis    == <<cache, life>>
reading  == <<asks, view>>
cycle    == <<at, running, todo>>
vars     == <<database, steady, redis, reading, cycle, held, due, faults>>
-----------------------------------------------------------------------------
Statuses   == {"CREATED", "IN_PROGRESS", "ENDED", "CANCELLED"}
Activities == Readers \union {Refresher}
Long       == Ttl + MaxHold + 1

TypeOK ==
    /\ db \in [Events -> Statuses \union {"none"}]
    /\ replaced \in [Events -> [Statuses -> 0 .. Long]]
    /\ steady \in [Events -> 0 .. Ttl]
    /\ cache \in [Events -> Statuses \union {"none"}]
    /\ life \in [Events -> 0 .. Ttl]
    /\ asks \in [Readers -> Events \union {NoEvent}]
    /\ view \in [Readers -> Statuses \union {"none"}]
    /\ at \in {"down", "idle", "find", "put"}
    /\ running \in BOOLEAN
    /\ todo \subseteq Events
    /\ held \in [Activities -> 0 .. MaxHold]
    /\ due \in BOOLEAN
    /\ faults \in 0 .. MaxFaults

Init ==
    /\ db = [e \in Events |-> "none"]
    /\ replaced = [e \in Events |-> [s \in Statuses |-> Long]]
    /\ steady = [e \in Events |-> 0]
    /\ cache = [e \in Events |-> "none"]
    /\ life = [e \in Events |-> 0]
    /\ asks = [r \in Readers |-> NoEvent]
    /\ view = [r \in Readers |-> "none"]
    /\ at = "down"
    /\ running = FALSE
    /\ todo = {}
    /\ held = [p \in Activities |-> 0]
    /\ due = FALSE
    /\ faults = 0

Fault ==
    /\ faults < MaxFaults
    /\ faults' = faults + 1
    /\ steady' = [e \in Events |-> 0]

NoFault == UNCHANGED <<steady, faults>>

\* Faulty variant: seconds taken for something else.
PutTwiceAsLong(e, s) ==
    /\ cache' = [cache EXCEPT ![e] = s]
    /\ life' = [life EXCEPT ![e] = 2 * Ttl]

\* SET event:{id} EX ttl.
Put(e, s) ==
    /\ cache' = [cache EXCEPT ![e] = s]
    /\ life' = [life EXCEPT ![e] = Ttl]
-----------------------------------------------------------------------------
(* EventQueryService.findById.                                             *)

\* Faulty variant: sliding expiration.
HitRenews(r, e) ==
    /\ at # "down"
    /\ asks[r] = NoEvent
    /\ cache[e] # "none"
    /\ life' = [life EXCEPT ![e] = Ttl]
    /\ UNCHANGED <<database, steady, cache, reading, cycle, held, due, faults>>

\* A hit is the answer.
Hit(r, e) ==
    /\ at # "down"
    /\ asks[r] = NoEvent
    /\ cache[e] # "none"
    /\ UNCHANGED vars

\* No entry; or Redis does not answer, or the entry is malformed: as a miss.
Miss(r, e) ==
    /\ at # "down"
    /\ asks[r] = NoEvent
    /\ asks' = [asks EXCEPT ![r] = e]
    /\ held' = [held EXCEPT ![r] = 0]
    /\ UNCHANGED <<database, redis, view, cycle, due>>
    /\ NoFault

\* The request is answered, with a view or with an error.
Answered(r) ==
    /\ asks' = [asks EXCEPT ![r] = NoEvent]
    /\ view' = [view EXCEPT ![r] = "none"]
    /\ held' = [held EXCEPT ![r] = 0]

FindById(r) ==
    /\ asks[r] # NoEvent
    /\ view[r] = "none"
    /\ db[asks[r]] # "none"
    /\ view' = [view EXCEPT ![r] = db[asks[r]]]
    /\ UNCHANGED <<database, redis, asks, cycle, held, due>>
    /\ NoFault

\* 404 EVENT_NOT_FOUND, which is not cached; or the query fails.
NotFound(r) ==
    /\ asks[r] # NoEvent
    /\ view[r] = "none"
    /\ Answered(r)
    /\ UNCHANGED <<database, redis, cycle, due>>
    /\ NoFault

PutRead(r) ==
    /\ view[r] # "none"
    /\ Put(asks[r], view[r])
    /\ Answered(r)
    /\ UNCHANGED <<database, cycle, due>>
    /\ NoFault

\* put() swallows the failure of Redis.
PutReadFails(r) ==
    /\ view[r] # "none"
    /\ Answered(r)
    /\ UNCHANGED <<database, redis, cycle, due>>
    /\ NoFault
-----------------------------------------------------------------------------
(* EventCacheRefresher.refreshActiveEvents.                                *)

\* A cycle begins unless one is open.
Begin ==
    IF running
      THEN UNCHANGED <<at, running, held>>
      ELSE /\ at' = "find"
           /\ running' = TRUE
           /\ held' = [held EXCEPT ![Refresher] = 0]

\* onApplicationBootstrap: the first cycle does not wait for the interval.
Boot ==
    /\ at = "down"
    /\ Begin
    /\ UNCHANGED <<database, redis, reading, todo, due>>
    /\ NoFault

Fire ==
    /\ due
    /\ due' = FALSE
    /\ Begin
    /\ UNCHANGED <<database, redis, reading, todo>>
    /\ NoFault

\* findByStatus(IN_PROGRESS).
FindActive ==
    /\ at = "find"
    /\ todo' = {e \in Events : db[e] = "IN_PROGRESS"}
    /\ at' = "put"
    /\ UNCHANGED <<database, redis, reading, running, held, due>>
    /\ NoFault

\* Faulty variant: SET NX.
PutActiveIfAbsent(e) ==
    /\ e \in todo
    /\ todo' = todo \ {e}
    /\ IF cache[e] = "none" THEN Put(e, "IN_PROGRESS") ELSE UNCHANGED redis
    /\ UNCHANGED <<database, reading, at, running, held, due>>
    /\ NoFault

PutActive(e) ==
    /\ e \in todo
    /\ todo' = todo \ {e}
    /\ Put(e, "IN_PROGRESS")
    /\ UNCHANGED <<database, reading, at, running, held, due>>
    /\ NoFault

PutActiveFails(e) ==
    /\ e \in todo
    /\ Fault
    /\ todo' = todo \ {e}
    /\ UNCHANGED <<database, redis, reading, at, running, held, due>>

\* finally: the guard is reset.
Finally ==
    /\ at' = "idle"
    /\ running' = FALSE
    /\ held' = [held EXCEPT ![Refresher] = 0]

CycleEnds ==
    /\ at = "put"
    /\ todo = {}
    /\ Finally
    /\ UNCHANGED <<database, redis, reading, todo, due>>
    /\ NoFault

\* Faulty variant: no finally.
FindFailsStuck ==
    /\ at = "find"
    /\ Fault
    /\ at' = "idle"
    /\ held' = [held EXCEPT ![Refresher] = 0]
    /\ UNCHANGED <<database, redis, reading, running, todo, due>>

FindFails ==
    /\ at = "find"
    /\ Fault
    /\ Finally
    /\ UNCHANGED <<database, redis, reading, todo, due>>
-----------------------------------------------------------------------------
(* Administrators, Redis, the process and the clock.                       *)

\* CREATED -> IN_PROGRESS -> ENDED; CANCELLED from anywhere.
Successors(s) ==
    CASE s = "none"        -> {"CREATED"}
      [] s = "CREATED"     -> {"IN_PROGRESS", "CANCELLED"}
      [] s = "IN_PROGRESS" -> {"ENDED", "CANCELLED"}
      [] s = "ENDED"       -> {"CANCELLED"}
      [] OTHER             -> {}

ChangeStatus(e) ==
    /\ \E s \in Successors(db[e]) : db' = [db EXCEPT ![e] = s]
    /\ replaced' = [replaced EXCEPT ![e] =
                      [s \in Statuses |-> IF s = db[e] THEN 0 ELSE @[s]]]
    /\ steady' = [steady EXCEPT ![e] = 0]
    /\ UNCHANGED <<redis, reading, cycle, held, due, faults>>

Drop(e) ==
    /\ cache[e] # "none"
    /\ cache' = [cache EXCEPT ![e] = "none"]
    /\ life' = [life EXCEPT ![e] = 0]

\* The TTL runs out: not before Ttl units, not after Ttl + 1.
Expire(e) ==
    /\ life[e] = 0
    /\ Drop(e)
    /\ UNCHANGED <<database, reading, cycle, held, due>>
    /\ NoFault

\* Redis restarts empty, or evicts the key.
Evict(e) ==
    /\ Fault
    /\ Drop(e)
    /\ UNCHANGED <<database, reading, cycle, held, due>>

\* server-c dies: every request and the cycle are lost.
Crash ==
    /\ at # "down"
    /\ Fault
    /\ at' = "down"
    /\ running' = FALSE
    /\ todo' = {}
    /\ asks' = [r \in Readers |-> NoEvent]
    /\ view' = [r \in Readers |-> "none"]
    /\ held' = [p \in Activities |-> 0]
    /\ due' = FALSE
    /\ UNCHANGED <<database, redis>>

Busy(p) == IF p = Refresher THEN at \in {"find", "put"} ELSE asks[p] # NoEvent

OneMore(n, most) == IF n < most THEN n + 1 ELSE n

\* A unit of time passes.
Tick ==
    /\ ~ due
    /\ \A p \in Activities : Busy(p) => held[p] < MaxHold
    /\ \A e \in Events : cache[e] # "none" => life[e] > 0
    /\ replaced' = [e \in Events |-> [s \in Statuses |-> OneMore(replaced[e][s], Long)]]
    /\ steady' = [e \in Events |-> IF at = "down" THEN 0 ELSE OneMore(steady[e], Ttl)]
    /\ life' = [e \in Events |-> IF cache[e] = "none" THEN 0 ELSE life[e] - 1]
    /\ held' = [p \in Activities |-> IF Busy(p) THEN held[p] + 1 ELSE 0]
    /\ due' = (at # "down")
    /\ UNCHANGED <<db, cache, reading, cycle, faults>>

ReaderStep(r)   == FindById(r) \/ NotFound(r) \/ PutRead(r) \/ PutReadFails(r)
RefresherStep   == FindActive \/ CycleEnds \/ \E e \in Events : PutActive(e)

Next ==
    \/ \E r \in Readers : ReaderStep(r) \/ \E e \in Events : Hit(r, e) \/ Miss(r, e)
    \/ Boot \/ Fire \/ RefresherStep \/ FindFails \/ Crash \/ Tick
    \/ \E e \in Events : PutActiveFails(e) \/ ChangeStatus(e) \/ Expire(e) \/ Evict(e)

Spec == Init /\ [][Next]_vars

\* The process comes up, its timer fires, its awaits end, Redis expires what
\* is due, and time passes.  Readers may never come.
FairSpec ==
    /\ Spec
    /\ WF_vars(Boot) /\ WF_vars(Fire) /\ WF_vars(RefresherStep) /\ WF_vars(Tick)
    /\ \A r \in Readers : WF_vars(ReaderStep(r))
    /\ \A e \in Events : WF_vars(Expire(e))
-----------------------------------------------------------------------------
(* A status an event has left is shown for its TTL at most, and for as     *)
(* long as the reader or the cycle that put it there had held it: a fill   *)
(* overtaken by the change, or by a fresher put, does not last.            *)
StalenessBounded ==
    \A e \in Events : cache[e] \notin {"none", db[e]} =>
                         replaced[e][cache[e]] <= Ttl + MaxHold

(* The TTL of a running event's entry never runs out, unless something     *)
(* failed or the event changed in the last Ttl units: the guard and the    *)
(* skipped firings never let two refreshes be further apart.               *)
RefreshAhead ==
    [][\A e \in Events :
          Expire(e) => ~ (db[e] = "IN_PROGRESS" /\ steady[e] = Ttl)]_vars

(* An event that stays IN_PROGRESS comes to be in the cache for good, with *)
(* no reader's help and through crashes, failed cycles and evictions.      *)
ActiveEventsStayCached ==
    <>[](\A e \in Events : db[e] = "IN_PROGRESS" => cache[e] = "IN_PROGRESS")
=============================================================================
