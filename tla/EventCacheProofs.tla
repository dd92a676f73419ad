-------------------------- MODULE EventCacheProofs --------------------------
(***************************************************************************)
(* TypeOK, StalenessBounded and RefreshAhead, for any events, readers,     *)
(* TTL, faults and hold times with Ttl > 2 * MaxHold + 1.                  *)
(***************************************************************************)
EXTENDS EventCache, TLAPS

-----------------------------------------------------------------------------
(* The inductive invariant.                                                *)

\* The guard is set while a cycle is open, and only then.
Guarded ==
    /\ running <=> at \in {"find", "put"}
    /\ todo # {} => at = "put"

\* An outdated entry was written by somebody who had held it MaxHold units.
EntriesFollow ==
    \A e \in Events : cache[e] \notin {"none", db[e]} =>
                         replaced[e][cache[e]] <= (Ttl - life[e]) + MaxHold

\* What a reader holds went out of date after it began ...
ViewsFollow ==
    \A r \in Readers : view[r] # "none" =>
       /\ asks[r] \in Events
       /\ view[r] # db[asks[r]] => replaced[asks[r]][view[r]] <= held[r]

\* ... and so did what the refresher holds.
CycleFollows ==
    \A e \in todo : db[e] # "IN_PROGRESS" => replaced[e]["IN_PROGRESS"] <= held[Refresher]

\* The last n units hold a write of the entry, or trouble.
Recent(e, n) == Ttl - life[e] <= n \/ steady[e] <= n

\* How long the entry of a running event can have waited for the refresher.
RefreshDue ==
    \A e \in Events :
       /\ at = "down" => steady[e] = 0
       /\ db[e] = "IN_PROGRESS" /\ cache[e] # "none" =>
            /\ at = "idle" /\ ~ due => Recent(e, MaxHold)
            /\ at = "idle" /\ due => Recent(e, MaxHold + 1)
            /\ at = "find" => Recent(e, MaxHold + 1 + held[Refresher])
            /\ at = "put" /\ e \in todo => Recent(e, MaxHold + 1 + held[Refresher])
            /\ at = "put" /\ e \notin todo => Recent(e, held[Refresher])

IInv ==
    /\ TypeOK
    /\ Guarded
    /\ EntriesFollow
    /\ ViewsFollow
    /\ CycleFollows
    /\ RefreshDue
-----------------------------------------------------------------------------
(* The initial states.                                                     *)

\* Nothing is in the database, in Redis, or in hand at first.
LEMMA InvInit == Init => IInv
  <1> SUFFICES ASSUME Init PROVE IInv
    OBVIOUS
  <1>1. 0 \in 0 .. Ttl /\ 0 \in 0 .. MaxHold /\ 0 \in 0 .. MaxFaults /\ Long \in 0 .. Long
    BY EventCacheAssumption DEF Long
  <1>2. running \in BOOLEAN /\ due \in BOOLEAN
    BY DEF Init
  <1>3. TypeOK
    BY <1>1, <1>2 DEF Init, TypeOK
  <1>4. Guarded /\ EntriesFollow /\ ViewsFollow /\ CycleFollows /\ RefreshDue
    BY DEF Init, Guarded, EntriesFollow, ViewsFollow, CycleFollows, RefreshDue
  <1> QED BY <1>3, <1>4 DEF IInv
-----------------------------------------------------------------------------
(* The steps.                                                              *)

\* A fault is counted and resets the calm.
LEMMA FaultType ==
    ASSUME TypeOK, Fault
    PROVE  faults' \in 0 .. MaxFaults /\ steady' \in [Events -> 0 .. Ttl]
  BY EventCacheAssumption DEF TypeOK, Fault

\* Every action keeps every variable in its type.
LEMMA TypeStep == TypeOK /\ [Next]_vars => TypeOK'
  <1> SUFFICES ASSUME TypeOK, [Next]_vars PROVE TypeOK'
    OBVIOUS
  <1>0. /\ 0 \in 0 .. Long /\ 0 \in 0 .. MaxHold /\ 0 \in 0 .. Ttl /\ Ttl \in 0 .. Ttl
        /\ Refresher \in Activities /\ Readers \subseteq Activities
        /\ "IN_PROGRESS" \in Statuses
        /\ \A s \in Statuses \union {"none"} : Successors(s) \subseteq Statuses
    BY EventCacheAssumption DEF Long, Activities, Statuses, Successors
  <1> USE <1>0 DEF TypeOK, database, redis, reading, cycle, NoFault, Answered, Begin, Finally, Put, Drop
  <1>1. CASE UNCHANGED vars
    BY <1>1 DEF vars, database, redis, reading, cycle
  <1>2. ASSUME NEW r \in Readers, ReaderStep(r) PROVE TypeOK'
    <2>1. CASE FindById(r)
      BY <2>1 DEF FindById
    <2>2. CASE NotFound(r)
      BY <2>2 DEF NotFound
    <2>3. CASE PutRead(r)
      BY <2>3 DEF PutRead
    <2>4. CASE PutReadFails(r)
      BY <2>4 DEF PutReadFails
    <2> QED BY <1>2, <2>1, <2>2, <2>3, <2>4 DEF ReaderStep
  <1>3. ASSUME NEW r \in Readers, NEW e \in Events, Hit(r, e) \/ Miss(r, e) PROVE TypeOK'
    <2>1. CASE Hit(r, e)
      BY <2>1 DEF Hit, vars, database, redis, reading, cycle
    <2>2. CASE Miss(r, e)
      BY <2>2 DEF Miss
    <2> QED BY <1>3, <2>1, <2>2
  <1>4. CASE Boot
    BY <1>4 DEF Boot
  <1>5. CASE Fire
    BY <1>5 DEF Fire
  <1>6. CASE FindActive
    BY <1>6 DEF FindActive
  <1>7. CASE CycleEnds
    BY <1>7 DEF CycleEnds
  <1>8. CASE FindFails
    BY <1>8, FaultType DEF FindFails
  <1>9. CASE Crash
    BY <1>9, FaultType DEF Crash
  <1>10. CASE Tick
    <2>1. replaced' \in [Events -> [Statuses -> 0 .. Long]]
      <3>1. \A n \in 0 .. Long : OneMore(n, Long) \in 0 .. Long
        BY EventCacheAssumption DEF OneMore, Long
      <3> QED BY <1>10, <3>1 DEF Tick
    <2>2. steady' \in [Events -> 0 .. Ttl]
      <3>1. \A n \in 0 .. Ttl : OneMore(n, Ttl) \in 0 .. Ttl
        BY EventCacheAssumption DEF OneMore
      <3> QED BY <1>10, <3>1 DEF Tick
    <2>3. life' \in [Events -> 0 .. Ttl]
      BY <1>10, EventCacheAssumption DEF Tick
    <2>4. held' \in [Activities -> 0 .. MaxHold]
      BY <1>10, EventCacheAssumption DEF Tick
    <2>5. due' \in BOOLEAN
      BY <1>10 DEF Tick
    <2> QED BY <1>10, <2>1, <2>2, <2>3, <2>4, <2>5 DEF Tick
  <1>11. ASSUME NEW e \in Events, PutActive(e) PROVE TypeOK'
    BY <1>11 DEF PutActive
  <1>12. ASSUME NEW e \in Events, PutActiveFails(e) PROVE TypeOK'
    BY <1>12, FaultType DEF PutActiveFails
  <1>13. ASSUME NEW e \in Events, ChangeStatus(e) PROVE TypeOK'
    BY <1>13 DEF ChangeStatus
  <1>14. ASSUME NEW e \in Events, Expire(e) PROVE TypeOK'
    BY <1>14 DEF Expire
  <1>15. ASSUME NEW e \in Events, Evict(e) PROVE TypeOK'
    BY <1>15, FaultType DEF Evict
  <1> QED BY <1>1, <1>2, <1>3, <1>4, <1>5, <1>6, <1>7, <1>8, <1>9, <1>10, <1>11, <1>12, <1>13, <1>14, <1>15
         DEF Next, RefresherStep

\* A cycle opens with the guard and closes with it.
LEMMA GuardStep == TypeOK /\ Guarded /\ [Next]_vars => Guarded'
  <1> SUFFICES ASSUME TypeOK /\ Guarded, [Next]_vars PROVE Guarded'
    OBVIOUS
  <1> USE EventCacheAssumption DEF Guarded, TypeOK, database, redis, reading, cycle, Fault, NoFault, Answered, Begin, Finally, Put, Drop, Busy, OneMore
  <1>1. CASE UNCHANGED vars
    BY <1>1 DEF vars, database, redis, reading, cycle
  <1>2. ASSUME NEW r \in Readers, ReaderStep(r) PROVE Guarded'
    <2>1. CASE FindById(r)
      BY <2>1 DEF FindById
    <2>2. CASE NotFound(r)
      BY <2>2 DEF NotFound
    <2>3. CASE PutRead(r)
      BY <2>3 DEF PutRead
    <2>4. CASE PutReadFails(r)
      BY <2>4 DEF PutReadFails
    <2> QED BY <1>2, <2>1, <2>2, <2>3, <2>4 DEF ReaderStep
  <1>3. ASSUME NEW r \in Readers, NEW e \in Events, Hit(r, e) \/ Miss(r, e) PROVE Guarded'
    <2>1. CASE Hit(r, e)
      BY <2>1 DEF Hit, vars, database, redis, reading, cycle
    <2>2. CASE Miss(r, e)
      BY <2>2 DEF Miss
    <2> QED BY <1>3, <2>1, <2>2
  <1>4. CASE Boot
    BY <1>4 DEF Boot
  <1>5. CASE Fire
    BY <1>5 DEF Fire
  <1>6. CASE FindActive
    BY <1>6 DEF FindActive
  <1>7. CASE CycleEnds
    BY <1>7 DEF CycleEnds
  <1>8. CASE FindFails
    BY <1>8 DEF FindFails
  <1>9. CASE Crash
    BY <1>9 DEF Crash
  <1>10. CASE Tick
    BY <1>10 DEF Tick
  <1>11. ASSUME NEW e \in Events, PutActive(e) PROVE Guarded'
    BY <1>11 DEF PutActive
  <1>12. ASSUME NEW e \in Events, PutActiveFails(e) PROVE Guarded'
    BY <1>12 DEF PutActiveFails
  <1>13. ASSUME NEW e \in Events, ChangeStatus(e) PROVE Guarded'
    BY <1>13 DEF ChangeStatus
  <1>14. ASSUME NEW e \in Events, Expire(e) PROVE Guarded'
    BY <1>14 DEF Expire
  <1>15. ASSUME NEW e \in Events, Evict(e) PROVE Guarded'
    BY <1>15 DEF Evict
  <1> QED BY <1>1, <1>2, <1>3, <1>4, <1>5, <1>6, <1>7, <1>8, <1>9, <1>10, <1>11, <1>12, <1>13, <1>14, <1>15
         DEF Next, RefresherStep

\* An entry is at most as far behind as whoever writes it.
LEMMA EntriesStep == IInv /\ [Next]_vars => EntriesFollow'
  <1> SUFFICES ASSUME IInv, [Next]_vars PROVE EntriesFollow'
    OBVIOUS
  <1> USE EventCacheAssumption DEF IInv, TypeOK, Guarded, EntriesFollow, ViewsFollow, CycleFollows, Long, Statuses, Activities, database, redis, reading, cycle, Fault, NoFault, Answered, Begin, Finally, Put, Drop, Busy, OneMore
  <1>1. CASE UNCHANGED vars
    BY <1>1 DEF vars, database, redis, reading, cycle
  <1>2. ASSUME NEW r \in Readers, ReaderStep(r) PROVE EntriesFollow'
    <2>1. CASE FindById(r)
      BY <2>1 DEF FindById
    <2>2. CASE NotFound(r)
      BY <2>2 DEF NotFound
    <2>3. CASE PutRead(r)
      BY <2>3 DEF PutRead
    <2>4. CASE PutReadFails(r)
      BY <2>4 DEF PutReadFails
    <2> QED BY <1>2, <2>1, <2>2, <2>3, <2>4 DEF ReaderStep
  <1>3. ASSUME NEW r \in Readers, NEW e \in Events, Hit(r, e) \/ Miss(r, e) PROVE EntriesFollow'
    <2>1. CASE Hit(r, e)
      BY <2>1 DEF Hit, vars, database, redis, reading, cycle
    <2>2. CASE Miss(r, e)
      BY <2>2 DEF Miss
    <2> QED BY <1>3, <2>1, <2>2
  <1>4. CASE Boot
    BY <1>4 DEF Boot
  <1>5. CASE Fire
    BY <1>5 DEF Fire
  <1>6. CASE FindActive
    BY <1>6 DEF FindActive
  <1>7. CASE CycleEnds
    BY <1>7 DEF CycleEnds
  <1>8. CASE FindFails
    BY <1>8 DEF FindFails
  <1>9. CASE Crash
    BY <1>9 DEF Crash
  <1>10. CASE Tick
    BY <1>10 DEF Tick
  <1>11. ASSUME NEW e \in Events, PutActive(e) PROVE EntriesFollow'
    BY <1>11 DEF PutActive
  <1>12. ASSUME NEW e \in Events, PutActiveFails(e) PROVE EntriesFollow'
    BY <1>12 DEF PutActiveFails
  <1>13. ASSUME NEW e \in Events, ChangeStatus(e) PROVE EntriesFollow'
    BY <1>13 DEF ChangeStatus
  <1>14. ASSUME NEW e \in Events, Expire(e) PROVE EntriesFollow'
    BY <1>14 DEF Expire
  <1>15. ASSUME NEW e \in Events, Evict(e) PROVE EntriesFollow'
    BY <1>15 DEF Evict
  <1> QED BY <1>1, <1>2, <1>3, <1>4, <1>5, <1>6, <1>7, <1>8, <1>9, <1>10, <1>11, <1>12, <1>13, <1>14, <1>15
         DEF Next, RefresherStep

\* A reader's view goes out of date no sooner than it is read.
LEMMA ViewsStep == IInv /\ [Next]_vars => ViewsFollow'
  <1> SUFFICES ASSUME IInv, [Next]_vars PROVE ViewsFollow'
    OBVIOUS
  <1> USE EventCacheAssumption DEF IInv, TypeOK, ViewsFollow, Long, Statuses, Activities, database, redis, reading, cycle, Fault, NoFault, Answered, Begin, Finally, Put, Drop, Busy, OneMore
  <1>1. CASE UNCHANGED vars
    BY <1>1 DEF vars, database, redis, reading, cycle
  <1>2. ASSUME NEW r \in Readers, ReaderStep(r) PROVE ViewsFollow'
    <2>1. CASE FindById(r)
      BY <2>1 DEF FindById
    <2>2. CASE NotFound(r)
      BY <2>2 DEF NotFound
    <2>3. CASE PutRead(r)
      BY <2>3 DEF PutRead
    <2>4. CASE PutReadFails(r)
      BY <2>4 DEF PutReadFails
    <2> QED BY <1>2, <2>1, <2>2, <2>3, <2>4 DEF ReaderStep
  <1>3. ASSUME NEW r \in Readers, NEW e \in Events, Hit(r, e) \/ Miss(r, e) PROVE ViewsFollow'
    <2>1. CASE Hit(r, e)
      BY <2>1 DEF Hit, vars, database, redis, reading, cycle
    <2>2. CASE Miss(r, e)
      BY <2>2 DEF Miss
    <2> QED BY <1>3, <2>1, <2>2
  <1>4. CASE Boot
    BY <1>4 DEF Boot
  <1>5. CASE Fire
    BY <1>5 DEF Fire
  <1>6. CASE FindActive
    BY <1>6 DEF FindActive
  <1>7. CASE CycleEnds
    BY <1>7 DEF CycleEnds
  <1>8. CASE FindFails
    BY <1>8 DEF FindFails
  <1>9. CASE Crash
    BY <1>9 DEF Crash
  <1>10. CASE Tick
    BY <1>10 DEF Tick
  <1>11. ASSUME NEW e \in Events, PutActive(e) PROVE ViewsFollow'
    BY <1>11 DEF PutActive
  <1>12. ASSUME NEW e \in Events, PutActiveFails(e) PROVE ViewsFollow'
    BY <1>12 DEF PutActiveFails
  <1>13. ASSUME NEW e \in Events, ChangeStatus(e) PROVE ViewsFollow'
    BY <1>13 DEF ChangeStatus
  <1>14. ASSUME NEW e \in Events, Expire(e) PROVE ViewsFollow'
    BY <1>14 DEF Expire
  <1>15. ASSUME NEW e \in Events, Evict(e) PROVE ViewsFollow'
    BY <1>15 DEF Evict
  <1> QED BY <1>1, <1>2, <1>3, <1>4, <1>5, <1>6, <1>7, <1>8, <1>9, <1>10, <1>11, <1>12, <1>13, <1>14, <1>15
         DEF Next, RefresherStep

\* So do the events of a cycle.
LEMMA CycleStep == IInv /\ [Next]_vars => CycleFollows'
  <1> SUFFICES ASSUME IInv, [Next]_vars PROVE CycleFollows'
    OBVIOUS
  <1> USE EventCacheAssumption DEF IInv, TypeOK, Guarded, CycleFollows, Long, Statuses, Activities, database, redis, reading, cycle, Fault, NoFault, Answered, Begin, Finally, Put, Drop, Busy, OneMore
  <1>1. CASE UNCHANGED vars
    BY <1>1 DEF vars, database, redis, reading, cycle
  <1>2. ASSUME NEW r \in Readers, ReaderStep(r) PROVE CycleFollows'
    <2>1. CASE FindById(r)
      BY <2>1 DEF FindById
    <2>2. CASE NotFound(r)
      BY <2>2 DEF NotFound
    <2>3. CASE PutRead(r)
      BY <2>3 DEF PutRead
    <2>4. CASE PutReadFails(r)
      BY <2>4 DEF PutReadFails
    <2> QED BY <1>2, <2>1, <2>2, <2>3, <2>4 DEF ReaderStep
  <1>3. ASSUME NEW r \in Readers, NEW e \in Events, Hit(r, e) \/ Miss(r, e) PROVE CycleFollows'
    <2>1. CASE Hit(r, e)
      BY <2>1 DEF Hit, vars, database, redis, reading, cycle
    <2>2. CASE Miss(r, e)
      BY <2>2 DEF Miss
    <2> QED BY <1>3, <2>1, <2>2
  <1>4. CASE Boot
    BY <1>4 DEF Boot
  <1>5. CASE Fire
    BY <1>5 DEF Fire
  <1>6. CASE FindActive
    BY <1>6 DEF FindActive
  <1>7. CASE CycleEnds
    BY <1>7 DEF CycleEnds
  <1>8. CASE FindFails
    BY <1>8 DEF FindFails
  <1>9. CASE Crash
    BY <1>9 DEF Crash
  <1>10. CASE Tick
    BY <1>10 DEF Tick
  <1>11. ASSUME NEW e \in Events, PutActive(e) PROVE CycleFollows'
    BY <1>11 DEF PutActive
  <1>12. ASSUME NEW e \in Events, PutActiveFails(e) PROVE CycleFollows'
    BY <1>12 DEF PutActiveFails
  <1>13. ASSUME NEW e \in Events, ChangeStatus(e) PROVE CycleFollows'
    BY <1>13 DEF ChangeStatus
  <1>14. ASSUME NEW e \in Events, Expire(e) PROVE CycleFollows'
    BY <1>14 DEF Expire
  <1>15. ASSUME NEW e \in Events, Evict(e) PROVE CycleFollows'
    BY <1>15 DEF Evict
  <1> QED BY <1>1, <1>2, <1>3, <1>4, <1>5, <1>6, <1>7, <1>8, <1>9, <1>10, <1>11, <1>12, <1>13, <1>14, <1>15
         DEF Next, RefresherStep

\* No two refreshes are further apart than two cycles and an interval.
LEMMA RefreshStep == IInv /\ [Next]_vars => RefreshDue'
  <1> SUFFICES ASSUME IInv, [Next]_vars PROVE RefreshDue'
    OBVIOUS
  <1> USE EventCacheAssumption DEF IInv, TypeOK, Guarded, RefreshDue, Recent, Long, Statuses, Activities, database, redis, reading, cycle, Fault, NoFault, Answered, Begin, Finally, Put, Drop, Busy, OneMore
  <1>1. CASE UNCHANGED vars
    BY <1>1 DEF vars, database, redis, reading, cycle
  <1>2. ASSUME NEW r \in Readers, ReaderStep(r) PROVE RefreshDue'
    <2>1. CASE FindById(r)
      BY <2>1 DEF FindById
    <2>2. CASE NotFound(r)
      BY <2>2 DEF NotFound
    <2>3. CASE PutRead(r)
      BY <2>3 DEF PutRead
    <2>4. CASE PutReadFails(r)
      BY <2>4 DEF PutReadFails
    <2> QED BY <1>2, <2>1, <2>2, <2>3, <2>4 DEF ReaderStep
  <1>3. ASSUME NEW r \in Readers, NEW e \in Events, Hit(r, e) \/ Miss(r, e) PROVE RefreshDue'
    <2>1. CASE Hit(r, e)
      BY <2>1 DEF Hit, vars, database, redis, reading, cycle
    <2>2. CASE Miss(r, e)
      BY <2>2 DEF Miss
    <2> QED BY <1>3, <2>1, <2>2
  <1>4. CASE Boot
    BY <1>4 DEF Boot
  <1>5. CASE Fire
    BY <1>5 DEF Fire
  <1>6. CASE FindActive
    BY <1>6 DEF FindActive
  <1>7. CASE CycleEnds
    BY <1>7 DEF CycleEnds
  <1>8. CASE FindFails
    BY <1>8 DEF FindFails
  <1>9. CASE Crash
    BY <1>9 DEF Crash
  <1>10. CASE Tick
    <2> SUFFICES ASSUME NEW e \in Events
                 PROVE  /\ at' = "down" => steady'[e] = 0
                        /\ db'[e] = "IN_PROGRESS" /\ cache'[e] # "none" =>
                             /\ at' = "idle" /\ ~ due' => Recent(e, MaxHold)'
                             /\ at' = "idle" /\ due' => Recent(e, MaxHold + 1)'
                             /\ at' = "find" => Recent(e, MaxHold + 1 + held[Refresher])'
                             /\ at' = "put" /\ e \in todo' =>
                                  Recent(e, MaxHold + 1 + held[Refresher])'
                             /\ at' = "put" /\ e \notin todo' => Recent(e, held[Refresher])'
      OBVIOUS
    <2>1. /\ at' = at /\ db' = db /\ cache' = cache /\ todo' = todo /\ ~ due
          /\ due' = (at # "down")
      BY <1>10 DEF Tick
    <2>2. at = "down" => steady'[e] = 0
      BY <1>10 DEF Tick
    <2>3. cache[e] # "none" => life'[e] = life[e] - 1
      BY <1>10 DEF Tick
    <2>4. steady'[e] <= steady[e] + 1
      BY <1>10 DEF Tick
    <2>5. steady[e] \in Nat /\ steady'[e] \in Nat /\ life[e] \in Nat /\ held[Refresher] \in Nat
      BY <1>10 DEF Tick
    <2>6. at \in {"find", "put"} => held'[Refresher] = held[Refresher] + 1
      BY <1>10 DEF Tick
    <2>7. ASSUME NEW n \in Nat, cache[e] # "none", Recent(e, n)
          PROVE  Ttl - life'[e] <= n + 1 \/ steady'[e] <= n + 1
      BY <2>3, <2>4, <2>5, <2>7
    <2>8. CASE at = "idle"
      BY <2>1, <2>7, <2>8
    <2>9. CASE at = "find" \/ (at = "put" /\ e \in todo)
      <3>1. MaxHold + 1 + held[Refresher] \in Nat
        BY <2>5
      <3>2. held'[Refresher] = held[Refresher] + 1
        BY <2>6, <2>9
      <3>3. MaxHold + 1 + (held[Refresher] + 1) = (MaxHold + 1 + held[Refresher]) + 1
        BY <2>5, EventCacheAssumption
      <3>4. cache[e] # "none" /\ db[e] = "IN_PROGRESS" =>
              Recent(e, MaxHold + 1 + held[Refresher])
        BY <2>9
      <3> QED BY <2>1, <2>7, <2>9, <3>1, <3>2, <3>3, <3>4
    <2>10. CASE at = "put" /\ e \notin todo
      BY <2>1, <2>5, <2>6, <2>7, <2>10
    <2> QED BY <2>1, <2>2, <2>8, <2>9, <2>10
  <1>11. ASSUME NEW e \in Events, PutActive(e) PROVE RefreshDue'
    BY <1>11 DEF PutActive
  <1>12. ASSUME NEW e \in Events, PutActiveFails(e) PROVE RefreshDue'
    BY <1>12 DEF PutActiveFails
  <1>13. ASSUME NEW e \in Events, ChangeStatus(e) PROVE RefreshDue'
    BY <1>13 DEF ChangeStatus
  <1>14. ASSUME NEW e \in Events, Expire(e) PROVE RefreshDue'
    BY <1>14 DEF Expire
  <1>15. ASSUME NEW e \in Events, Evict(e) PROVE RefreshDue'
    BY <1>15 DEF Evict
  <1> QED BY <1>1, <1>2, <1>3, <1>4, <1>5, <1>6, <1>7, <1>8, <1>9, <1>10, <1>11, <1>12, <1>13, <1>14, <1>15
         DEF Next, RefresherStep

\* The inductive invariant holds in every reachable state.
THEOREM EventCacheInvariant == Spec => []IInv
  <1>1. IInv /\ [Next]_vars => IInv'
    BY TypeStep, GuardStep, EntriesStep, ViewsStep, CycleStep, RefreshStep DEF IInv
  <1> QED BY InvInit, <1>1, PTL DEF Spec
-----------------------------------------------------------------------------
(* What it is good for.                                                    *)

\* Type correctness.
THEOREM TypeCorrect == Spec => []TypeOK
  <1>1. IInv => TypeOK
    BY DEF IInv
  <1> QED BY EventCacheInvariant, <1>1, PTL

\* No fill and no refresh, however late, leaves an outdated entry for longer
\* than the TTL and a hold.
THEOREM StalenessIsBounded == Spec => []StalenessBounded
  <1>1. IInv => StalenessBounded
    <2> SUFFICES ASSUME IInv, NEW e \in Events, cache[e] \notin {"none", db[e]}
                 PROVE  replaced[e][cache[e]] <= Ttl + MaxHold
      BY DEF StalenessBounded
    <2>1. life[e] \in 0 .. Ttl /\ replaced[e][cache[e]] \in Nat
      BY EventCacheAssumption DEF IInv, TypeOK, Long
    <2>2. replaced[e][cache[e]] <= (Ttl - life[e]) + MaxHold
      BY DEF IInv, EntriesFollow
    <2> QED BY <2>1, <2>2, EventCacheAssumption
  <1> QED BY EventCacheInvariant, <1>1, PTL

\* The entry of a running event does not expire while nothing goes wrong.
THEOREM RefreshIsAhead == Spec => RefreshAhead
  <1>1. ASSUME IInv, NEW e \in Events, Expire(e)
        PROVE  ~ (db[e] = "IN_PROGRESS" /\ steady[e] = Ttl)
    <2> SUFFICES ASSUME db[e] = "IN_PROGRESS", steady[e] = Ttl PROVE FALSE
      OBVIOUS
    <2>1. life[e] = 0 /\ cache[e] # "none"
      BY <1>1 DEF Expire, Drop
    <2>2. held[Refresher] \in 0 .. MaxHold /\ at \in {"down", "idle", "find", "put"}
          /\ due \in BOOLEAN
      BY <1>1 DEF IInv, TypeOK, Activities
    <2>3. at # "down"
      BY <1>1, EventCacheAssumption DEF IInv, RefreshDue
    <2>4. \E n \in Nat : n <= 2 * MaxHold + 1 /\ Recent(e, n)
      <3>1. CASE at = "idle"
        BY <1>1, <2>1, <2>2, <3>1, EventCacheAssumption DEF IInv, RefreshDue
      <3>2. CASE at = "find" \/ (at = "put" /\ e \in todo)
        BY <1>1, <2>1, <2>2, <3>2, EventCacheAssumption DEF IInv, RefreshDue
      <3>3. CASE at = "put" /\ e \notin todo
        BY <1>1, <2>1, <2>2, <3>3, EventCacheAssumption DEF IInv, RefreshDue
      <3> QED BY <2>2, <2>3, <3>1, <3>2, <3>3
    <2> QED BY <2>1, <2>4, EventCacheAssumption DEF Recent
  <1>2. IInv => (\A e \in Events : Expire(e) => ~ (db[e] = "IN_PROGRESS" /\ steady[e] = Ttl))
    BY <1>1
  <1> QED BY EventCacheInvariant, <1>2, PTL DEF RefreshAhead
=============================================================================
