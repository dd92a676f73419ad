------------------------ MODULE RecordConsumerProofs ------------------------
(***************************************************************************)
(* NothingSkipped, RepeatsPaidFor, and that RecordConsumer implements      *)
(* RecordDelivery, for any members, records, throttle, commit threshold    *)
(* and faults.                                                             *)
(***************************************************************************)
EXTENDS RecordConsumer, FiniteSetTheorems, TLAPS

-----------------------------------------------------------------------------
(* The inductive invariant.                                                *)

\* Whatever a member or the group is past has been handed over.
PastServed ==
    /\ 0 .. (committed - 1) \subseteq delivered
    /\ \A m \in Members : 0 .. (position[m] - 1) \subseteq delivered

\* The member that has the partition is not behind the group.
OwnerAhead ==
    \A m \in Members : owner = m =>
       /\ committed <= position[m]
       /\ at[m] \in {"fetch", "loop", "commit", "beat", "ended", "failed"}

IInv == TypeOK /\ PastServed /\ OwnerAhead
-----------------------------------------------------------------------------
(* Its steps.                                                              *)

\* Nothing is produced, read or committed at first.
LEMMA InvInit == Init => IInv
  <1> SUFFICES ASSUME Init PROVE IInv
    OBVIOUS
  <1>1. 0 \in 0 .. MaxRecords /\ 0 \in 0 .. 0 /\ 0 \in 0 .. MaxRecordsPerBatch
        /\ 0 \in 0 .. MaxFaults /\ 0 \in 0 .. MaxStops /\ 0 .. (0 - 1) = {}
    BY ConsumerAssumption
  <1>2. up \in BOOLEAN /\ topic \in BOOLEAN
    BY DEF Init
  <1>3. TypeOK
    BY <1>1, <1>2 DEF Init, TypeOK, Stages
  <1>4. PastServed /\ OwnerAhead
    BY <1>1, ConsumerAssumption DEF Init, PastServed, OwnerAhead
  <1> QED BY <1>3, <1>4 DEF IInv

\* Every action keeps every variable in its type.
LEMMA TypeStep == TypeOK /\ [Next]_vars => TypeOK'
  <1> SUFFICES ASSUME TypeOK, [Next]_vars PROVE TypeOK'
    OBVIOUS
  <1> USE ConsumerAssumption DEF TypeOK, Stages, GoTo, Forget, Return, Disown, More,
          Commit, CommitFails, Gone, broker, group, process, reading, history, Fault
  <1>1. CASE UNCHANGED vars
    BY <1>1 DEF vars
  <1>2. ASSUME NEW m \in Members, MemberStep(m) \/ Poll(m) \/ EnsureTopics(m) \/ Assign(m)
                 \/ HeartbeatThrows(m) \/ Stop(m) \/ Crash(m) \/ Expel(m)
        PROVE  TypeOK'
    <2>1. CASE Boot(m)
      BY <2>1 DEF Boot
    <2>2. CASE EnsureTopics(m)
      BY <2>2 DEF EnsureTopics
    <2>3. CASE Start(m)
      BY <2>3 DEF Start
    <2>4. CASE StartAgain(m)
      BY <2>4 DEF StartAgain
    <2>5. CASE Assign(m)
      BY <2>5 DEF Assign
    <2>6. CASE Fetch(m)
      BY <2>6 DEF Fetch
    <2>7. CASE Deliver(m)
      <3>1. position[m] \in 0 .. end /\ last[m] \in 0 .. end /\ end \in Nat
        OBVIOUS
      <3>2. position[m] < last[m]
        BY <2>7 DEF Deliver
      <3>3. position[m] + 1 \in 0 .. end /\ position[m] \in 0 .. (end - 1)
        BY <3>1, <3>2
      <3>4. position' \in [Members -> 0 .. end']
        BY <2>7, <3>3 DEF Deliver
      <3>5. delivered' \subseteq 0 .. (end' - 1) /\ repeats' \in Nat
        <4>1. repeats' \in Nat
          BY <2>7 DEF Deliver
        <4>2. end' = end /\ delivered' = delivered \union {position[m]}
          BY <2>7 DEF Deliver
        <4> QED BY <3>3, <4>1, <4>2
      <3>6. processed' \in [Members -> 0 .. MaxRecordsPerBatch]
            /\ uncommitted' \in [Members -> Nat]
        BY <2>7 DEF Deliver
      <3>7. at' \in [Members -> Stages]
        BY <2>7 DEF Deliver
      <3> QED BY <2>7, <3>4, <3>5, <3>6, <3>7 DEF Deliver
    <2>8. CASE CommitIfNecessary(m)
      BY <2>8 DEF CommitIfNecessary
    <2>9. CASE CommitThrows(m)
      BY <2>9 DEF CommitThrows
    <2>10. CASE Heartbeat(m)
      BY <2>10 DEF Heartbeat
    <2>11. CASE HeartbeatThrows(m)
      BY <2>11 DEF HeartbeatThrows
    <2>12. CASE LoopEnds(m)
      BY <2>12 DEF LoopEnds
    <2>13. CASE BatchEnds(m)
      BY <2>13 DEF BatchEnds
    <2>14. CASE BatchEndThrows(m)
      BY <2>14 DEF BatchEndThrows
    <2>15. CASE Recover(m)
      BY <2>15 DEF Recover
    <2>16. CASE Stop(m)
      BY <2>16 DEF Stop
    <2>17. CASE Leave(m)
      BY <2>17 DEF Leave
    <2>18. CASE Crash(m)
      BY <2>18 DEF Crash
    <2>19. CASE Expel(m)
      BY <2>19 DEF Expel
    <2>20. CASE Poll(m)
      BY <2>20 DEF Poll, vars
    <2> QED BY <1>2, <2>1, <2>2, <2>3, <2>4, <2>5, <2>6, <2>7, <2>8, <2>9,
            <2>10, <2>11, <2>12, <2>13, <2>14, <2>15, <2>16, <2>17, <2>18, <2>19, <2>20
            DEF MemberStep
  <1>3. CASE GoesDown
    <2>1. up' \in BOOLEAN
      BY <1>3 DEF GoesDown
    <2>2. faults' \in 0 .. MaxFaults
      BY <1>3 DEF GoesDown
    <2> QED BY <1>3, <2>1, <2>2 DEF GoesDown
  <1>4. CASE ComesUp
    BY <1>4 DEF ComesUp
  <1>5. CASE Produce
    BY <1>5 DEF Produce
  <1> QED BY <1>1, <1>2, <1>3, <1>4, <1>5 DEF Next

\* A position moves over the record just handed over, or to the group's.
LEMMA PastStep == IInv /\ [Next]_vars => PastServed'
  <1> SUFFICES ASSUME IInv, [Next]_vars PROVE PastServed'
    OBVIOUS
  <1> USE ConsumerAssumption DEF IInv, PastServed, TypeOK, Stages, GoTo, Forget,
          Return, Disown, More, Commit, CommitFails, Gone, broker, group, process,
          reading, history
  <1>1. CASE UNCHANGED vars
    BY <1>1 DEF vars
  <1>2. ASSUME NEW m \in Members, MemberStep(m) \/ Poll(m) \/ EnsureTopics(m) \/ Assign(m)
                 \/ HeartbeatThrows(m) \/ Stop(m) \/ Crash(m) \/ Expel(m)
        PROVE  PastServed'
    <2>1. CASE Boot(m)
      BY <2>1 DEF Boot
    <2>2. CASE EnsureTopics(m)
      BY <2>2 DEF EnsureTopics
    <2>3. CASE Start(m)
      BY <2>3 DEF Start
    <2>4. CASE StartAgain(m)
      BY <2>4 DEF StartAgain
    <2>5. CASE Assign(m)
      BY <2>5 DEF Assign
    <2>6. CASE Fetch(m)
      BY <2>6 DEF Fetch
    <2>7. CASE Deliver(m)
      BY <2>7 DEF Deliver
    <2>8. CASE CommitIfNecessary(m)
      BY <2>8 DEF CommitIfNecessary
    <2>9. CASE CommitThrows(m)
      BY <2>9 DEF CommitThrows
    <2>10. CASE Heartbeat(m)
      BY <2>10 DEF Heartbeat
    <2>11. CASE HeartbeatThrows(m)
      BY <2>11 DEF HeartbeatThrows
    <2>12. CASE LoopEnds(m)
      BY <2>12 DEF LoopEnds
    <2>13. CASE BatchEnds(m)
      BY <2>13 DEF BatchEnds
    <2>14. CASE BatchEndThrows(m)
      BY <2>14 DEF BatchEndThrows
    <2>15. CASE Recover(m)
      BY <2>15 DEF Recover
    <2>16. CASE Stop(m)
      BY <2>16 DEF Stop
    <2>17. CASE Leave(m)
      BY <2>17 DEF Leave
    <2>18. CASE Crash(m)
      BY <2>18 DEF Crash
    <2>19. CASE Expel(m)
      BY <2>19 DEF Expel
    <2>20. CASE Poll(m)
      BY <2>20 DEF Poll, vars
    <2> QED BY <1>2, <2>1, <2>2, <2>3, <2>4, <2>5, <2>6, <2>7, <2>8, <2>9,
            <2>10, <2>11, <2>12, <2>13, <2>14, <2>15, <2>16, <2>17, <2>18, <2>19, <2>20
            DEF MemberStep
  <1>3. CASE GoesDown
    BY <1>3 DEF GoesDown
  <1>4. CASE ComesUp
    BY <1>4 DEF ComesUp
  <1>5. CASE Produce
    BY <1>5 DEF Produce
  <1> QED BY <1>1, <1>2, <1>3, <1>4, <1>5 DEF Next

\* The group moves to its owner's position, and an owner starts at the group's.
LEMMA OwnerStep == IInv /\ [Next]_vars => OwnerAhead'
  <1> SUFFICES ASSUME IInv, [Next]_vars PROVE OwnerAhead'
    OBVIOUS
  <1> USE ConsumerAssumption DEF IInv, OwnerAhead, TypeOK, Stages, GoTo, Forget,
          Return, Disown, More, Commit, CommitFails, Gone, broker, group, process,
          reading, history
  <1>1. CASE UNCHANGED vars
    BY <1>1 DEF vars
  <1>2. ASSUME NEW m \in Members, MemberStep(m) \/ Poll(m) \/ EnsureTopics(m) \/ Assign(m)
                 \/ HeartbeatThrows(m) \/ Stop(m) \/ Crash(m) \/ Expel(m)
        PROVE  OwnerAhead'
    <2>1. CASE Boot(m)
      BY <2>1 DEF Boot
    <2>2. CASE EnsureTopics(m)
      BY <2>2 DEF EnsureTopics
    <2>3. CASE Start(m)
      BY <2>3 DEF Start
    <2>4. CASE StartAgain(m)
      BY <2>4 DEF StartAgain
    <2>5. CASE Assign(m)
      BY <2>5 DEF Assign
    <2>6. CASE Fetch(m)
      BY <2>6 DEF Fetch
    <2>7. CASE Deliver(m)
      BY <2>7 DEF Deliver
    <2>8. CASE CommitIfNecessary(m)
      BY <2>8 DEF CommitIfNecessary
    <2>9. CASE CommitThrows(m)
      BY <2>9 DEF CommitThrows
    <2>10. CASE Heartbeat(m)
      BY <2>10 DEF Heartbeat
    <2>11. CASE HeartbeatThrows(m)
      BY <2>11 DEF HeartbeatThrows
    <2>12. CASE LoopEnds(m)
      BY <2>12 DEF LoopEnds
    <2>13. CASE BatchEnds(m)
      BY <2>13 DEF BatchEnds
    <2>14. CASE BatchEndThrows(m)
      BY <2>14 DEF BatchEndThrows
    <2>15. CASE Recover(m)
      BY <2>15 DEF Recover
    <2>16. CASE Stop(m)
      BY <2>16 DEF Stop
    <2>17. CASE Leave(m)
      BY <2>17 DEF Leave
    <2>18. CASE Crash(m)
      BY <2>18 DEF Crash
    <2>19. CASE Expel(m)
      BY <2>19 DEF Expel
    <2>20. CASE Poll(m)
      BY <2>20 DEF Poll, vars
    <2> QED BY <1>2, <2>1, <2>2, <2>3, <2>4, <2>5, <2>6, <2>7, <2>8, <2>9,
            <2>10, <2>11, <2>12, <2>13, <2>14, <2>15, <2>16, <2>17, <2>18, <2>19, <2>20
            DEF MemberStep
  <1>3. CASE GoesDown
    BY <1>3 DEF GoesDown
  <1>4. CASE ComesUp
    BY <1>4 DEF ComesUp
  <1>5. CASE Produce
    BY <1>5 DEF Produce
  <1> QED BY <1>1, <1>2, <1>3, <1>4, <1>5 DEF Next

\* The inductive invariant holds in every reachable state.
THEOREM ConsumerInvariant == Spec => []IInv
  <1>1. IInv /\ [Next]_vars => IInv'
    BY TypeStep, PastStep, OwnerStep DEF IInv
  <1> QED BY InvInit, <1>1, PTL DEF Spec
-----------------------------------------------------------------------------
(* What it is good for.                                                    *)

\* Type correctness.
THEOREM TypeCorrect == Spec => []TypeOK
  <1>1. IInv => TypeOK
    BY DEF IInv
  <1> QED BY ConsumerInvariant, <1>1, PTL

\* No committed record has been passed over.
THEOREM NoneSkipped == Spec => []NothingSkipped
  <1>1. IInv => NothingSkipped
    BY ConsumerAssumption DEF IInv, TypeOK, PastServed, NothingSkipped
  <1> QED BY ConsumerInvariant, <1>1, PTL
-----------------------------------------------------------------------------
(* The refinement.                                                         *)

\* The group's position moves on to its owner's.
LEMMA CommitAdvances ==
    ASSUME IInv, NEW m \in Members, Commit(m), UNCHANGED <<end, delivered>>
    PROVE  Delivery!Advance(position[m]) /\ position[m] \in 0 .. end
  BY DEF IInv, TypeOK, PastServed, OwnerAhead, Commit, Delivery!Advance, Delivery!Before

\* A record is handed over after those ahead of it.
LEMMA DeliverHandsOver ==
    ASSUME IInv, NEW m \in Members, Deliver(m)
    PROVE  Delivery!HandOver(position[m]) /\ position[m] \in 0 .. end
  <1>1. position[m] \in 0 .. end /\ last[m] \in 0 .. end /\ end \in Nat
        /\ position[m] < last[m]
    BY DEF IInv, TypeOK, Deliver, More
  <1>2. position[m] < end
    BY <1>1
  <1>3. 0 .. (position[m] - 1) \subseteq delivered
    BY DEF IInv, PastServed
  <1>4. end' = end /\ committed' = committed
        /\ delivered' = delivered \union {position[m]}
    BY DEF Deliver, broker, group
  <1> QED BY <1>1, <1>2, <1>3, <1>4 DEF Delivery!HandOver, Delivery!Before

\* Every step is a step of RecordDelivery, or leaves its variables alone.
LEMMA StepRefines == IInv /\ [Next]_vars => [Delivery!Next]_Delivery!vars
  <1> SUFFICES ASSUME IInv, [Next]_vars PROVE [Delivery!Next]_Delivery!vars
    OBVIOUS
  <1> USE DEF Delivery!vars, broker, group, history
  <1>1. CASE UNCHANGED vars
    BY <1>1 DEF vars
  <1>2. ASSUME NEW m \in Members, MemberStep(m) \/ Poll(m) \/ EnsureTopics(m) \/ Assign(m)
                 \/ HeartbeatThrows(m) \/ Stop(m) \/ Crash(m) \/ Expel(m)
        PROVE  [Delivery!Next]_Delivery!vars
    <2>1. CASE Deliver(m)
      BY <2>1, DeliverHandsOver DEF Delivery!Next
    <2>2. CASE CommitIfNecessary(m)
      <3>1. CASE uncommitted[m] < CommitThreshold
        BY <2>2, <3>1 DEF CommitIfNecessary
      <3>2. CASE ~ (uncommitted[m] < CommitThreshold)
        <4>1. Commit(m) /\ UNCHANGED <<end, delivered>>
          BY <2>2, <3>2 DEF CommitIfNecessary
        <4> QED BY <4>1, CommitAdvances DEF Delivery!Next
      <3> QED BY <3>1, <3>2
    <2>3. CASE BatchEnds(m)
      <3>1. Commit(m) /\ UNCHANGED <<end, delivered>>
        BY <2>3 DEF BatchEnds
      <3> QED BY <3>1, CommitAdvances DEF Delivery!Next
    <2>4. CASE Recover(m)
      <3>1. UNCHANGED <<end, delivered>>
        BY <2>4 DEF Recover
      <3>2. CASE up /\ owner = m
        <4>1. committed' = position[m]
          BY <2>4, <3>2 DEF Recover
        <4>2. committed <= position[m] /\ position[m] \in 0 .. end
              /\ 0 .. (position[m] - 1) \subseteq delivered
          BY <3>2 DEF IInv, TypeOK, OwnerAhead, PastServed
        <4>3. Delivery!Advance(position[m])
          BY <3>1, <4>1, <4>2 DEF Delivery!Advance, Delivery!Before, IInv, TypeOK
        <4> QED BY <4>2, <4>3 DEF Delivery!Next
      <3>3. CASE ~ (up /\ owner = m)
        <4>1. committed' = committed
          BY <2>4, <3>3 DEF Recover
        <4> QED BY <3>1, <4>1
      <3> QED BY <3>2, <3>3
    <2>5. CASE Boot(m) \/ Start(m) \/ StartAgain(m) \/ Fetch(m) \/ CommitThrows(m)
                 \/ Heartbeat(m) \/ LoopEnds(m) \/ BatchEndThrows(m)
      BY <2>5 DEF Boot, Start, StartAgain, Fetch, CommitThrows, Heartbeat, LoopEnds,
                  BatchEndThrows
    <2>6. CASE Leave(m) \/ Poll(m) \/ EnsureTopics(m) \/ Assign(m) \/ HeartbeatThrows(m)
                 \/ Stop(m) \/ Crash(m) \/ Expel(m)
      BY <2>6 DEF Leave, Poll, EnsureTopics, Assign, HeartbeatThrows, Stop, Crash, Expel, vars
    <2> QED BY <1>2, <2>1, <2>2, <2>3, <2>4, <2>5, <2>6 DEF MemberStep
  <1>3. CASE GoesDown
    BY <1>3 DEF GoesDown
  <1>4. CASE ComesUp
    BY <1>4 DEF ComesUp
  <1>5. CASE Produce
    BY <1>5 DEF Produce, Delivery!Next, Delivery!Produce
  <1> QED BY <1>1, <1>2, <1>3, <1>4, <1>5 DEF Next

\* A consumer group keeps RecordDelivery's promise.
THEOREM DeliveryImplemented == Spec => ImplementsRecordDelivery
  <1>1. Init => Delivery!Init
    BY DEF Init, Delivery!Init
  <1> QED BY <1>1, StepRefines, ConsumerInvariant, PTL
         DEF Spec, Delivery!Spec, ImplementsRecordDelivery
-----------------------------------------------------------------------------
(* Repeats are paid for: what each member may still hand over in vain is   *)
(* kept within what the faults so far have paid for.  o is the owner, s    *)
(* the stage of member m, u its uncommitted.                               *)

\* What a member the group has expelled may yet hand over: its next commit is
\* refused.
Slack(o, m, s, u) ==
    IF o = m THEN 0
    ELSE IF s \in {"loop", "commit", "beat"} /\ u < CommitThreshold THEN CommitThreshold - u
    ELSE IF s = "loop" THEN 1 ELSE 0

\* The most an owner can lose with no further fault: in an outage what the next
\* commit would have covered, between batches what an earlier outage left.
Exposed(s, u) == u + IF s \in {"loop", "beat"} THEN 1 ELSE 0
Need(live, s, u) ==
    IF s = "fetch" THEN u
    ELSE IF live
      THEN IF Exposed(s, u) < CommitThreshold THEN 0 ELSE Exposed(s, u) - CommitThreshold
    ELSE IF s \in {"loop", "commit", "beat"} /\ Exposed(s, u) < CommitThreshold
      THEN CommitThreshold
    ELSE Exposed(s, u)

\* What has been handed over and not committed is either the owner's or lost.
Account(o, live, m, s, u) == IF o = m THEN Need(live, s, u) - u ELSE Slack(o, m, s, u)
Debt(m) == Account(owner, up, m, at[m], uncommitted[m])

\* One unit for each of the f[m] of every m: the sum is their number.
Units(f) == {w \in Members \X (1 .. CommitThreshold) : w[2] <= f[w[1]]}
Slacks(o, a, u) == [m \in Members |-> Slack(o, m, a[m], u[m])]
WasteOf(o, a, u) == Cardinality(Units(Slacks(o, a, u)))
Waste   == WasteOf(owner, at, uncommitted)
Size(s) == Cardinality(s)
PaidFor(f) == CommitThreshold * f

Balance ==
    /\ owner = Nobody => repeats + Size(delivered) + Waste <= committed + PaidFor(faults)
    /\ \A m \in Members : owner = m =>
         repeats + Size(delivered) + Waste + Debt(m) <= committed + PaidFor(faults)

\* Who counts what: an owner is ahead of the group by what it has not committed,
\* and a member with no part in the group has nothing.
Counted ==
    \A m \in Members :
       /\ at[m] \in {"down", "starting", "backoff", "joining", "spare"} => uncommitted[m] = 0
       /\ at[m] = "fetch" => owner = m
       /\ at[m] = "beat" => uncommitted[m] < CommitThreshold
       /\ owner = m => position[m] = committed + uncommitted[m]

\* There are finitely many units.
LEMMA FiniteUnits == IsFiniteSet(Members \X (1 .. CommitThreshold))
  <1>1. IsFiniteSet(1 .. CommitThreshold)
    <2>1. 1 \in Int /\ CommitThreshold \in Int
      BY ConsumerAssumption
    <2> QED BY <2>1, FS_Interval
  <1>2. IsFiniteSet(Members)
    BY ConsumerAssumption
  <1> QED BY <1>1, <1>2, FS_Product

\* The units of one member are as many as it has, beside those of the others.
LEMMA UnitsSplit ==
    ASSUME NEW f \in [Members -> 0 .. CommitThreshold], NEW m \in Members
    PROVE  LET rest == {w \in Members \X (1 .. CommitThreshold) : w[1] # m /\ w[2] <= f[w[1]]}
           IN  /\ Cardinality(rest) \in Nat
               /\ Cardinality(Units(f)) = Cardinality(rest) + f[m]
  <1> DEFINE all == Members \X (1 .. CommitThreshold)
             rest == {w \in all : w[1] # m /\ w[2] <= f[w[1]]}
             own == {m} \X (1 .. f[m])
  <1>1. IsFiniteSet(rest) /\ Cardinality(rest) \in Nat
    BY FiniteUnits, FS_Subset, FS_CardinalityType
  <1>2. f[m] \in Nat /\ f[m] <= CommitThreshold
    BY ConsumerAssumption
  <1>3. IsFiniteSet(own) /\ Cardinality(own) = f[m]
    <2>1. IsFiniteSet(1 .. f[m]) /\ Cardinality(1 .. f[m]) = f[m]
      BY <1>2, FS_Interval
    <2>2. IsFiniteSet({m}) /\ Cardinality({m}) = 1
      BY FS_Singleton
    <2> QED BY <1>2, <2>1, <2>2, FS_Product
  <1>4. rest \cap own = {}
    OBVIOUS
  <1>5. Units(f) = rest \cup own
    <2>1. ASSUME NEW w \in Units(f) PROVE w \in rest \cup own
      <3>1. PICK n \in Members, i \in 1 .. CommitThreshold : w = <<n, i>>
        BY <2>1 DEF Units
      <3>2. i <= f[n]
        BY <3>1 DEF Units
      <3> QED BY <3>1, <3>2, <1>2
    <2>2. ASSUME NEW w \in own PROVE w \in Units(f)
      <3>1. PICK i \in 1 .. f[m] : w = <<m, i>>
        BY <2>2
      <3>2. i \in 1 .. CommitThreshold
        BY <1>2, ConsumerAssumption
      <3> QED BY <1>2, <3>1, <3>2 DEF Units
    <2>3. rest \subseteq Units(f)
      BY DEF Units
    <2> QED BY <2>1, <2>2, <2>3
  <1>6. Cardinality(Units(f)) = Cardinality(rest) + Cardinality(own) - Cardinality({})
    BY <1>1, <1>3, <1>4, <1>5, FS_Union
  <1> QED BY <1>1, <1>2, <1>3, <1>6, FS_EmptySet

\* One member's slack moves the sum by as much.
LEMMA UnitsMove ==
    ASSUME NEW f \in [Members -> 0 .. CommitThreshold],
           NEW g \in [Members -> 0 .. CommitThreshold],
           NEW m \in Members, \A n \in Members : n # m => f[n] = g[n]
    PROVE  /\ Cardinality(Units(f)) \in Nat /\ Cardinality(Units(g)) \in Nat
           /\ Cardinality(Units(g)) + f[m] = Cardinality(Units(f)) + g[m]
  <1> DEFINE rest(h) == {w \in Members \X (1 .. CommitThreshold) : w[1] # m /\ w[2] <= h[w[1]]}
  <1>1. rest(f) = rest(g)
    OBVIOUS
  <1>2. /\ Cardinality(rest(f)) \in Nat
        /\ Cardinality(Units(f)) = Cardinality(rest(f)) + f[m]
    BY UnitsSplit
  <1>3. Cardinality(Units(g)) = Cardinality(rest(g)) + g[m]
    BY UnitsSplit
  <1>4. f[m] \in Nat /\ g[m] \in Nat
    BY ConsumerAssumption
  <1> HIDE DEF rest
  <1> QED BY <1>1, <1>2, <1>3, <1>4

\* A member's slack and account are numbers.
LEMMA Amounts ==
    ASSUME NEW o, NEW live \in BOOLEAN, NEW m, NEW s, NEW u \in Nat
    PROVE  Slack(o, m, s, u) \in 0 .. CommitThreshold /\ Account(o, live, m, s, u) \in Int
  BY ConsumerAssumption DEF Slack, Account, Need, Exposed

\* So are the sums.
LEMMA SumsAre ==
    ASSUME NEW o, NEW a, NEW u \in [Members -> Nat]
    PROVE  /\ Slacks(o, a, u) \in [Members -> 0 .. CommitThreshold]
           /\ WasteOf(o, a, u) \in Nat
  <1>1. \A m \in Members : Slack(o, m, a[m], u[m]) \in 0 .. CommitThreshold
    BY Amounts
  <1>2. WasteOf(o, a, u) \in Nat
    BY FiniteUnits, FS_Subset, FS_CardinalityType DEF WasteOf, Units
  <1> QED BY <1>1, <1>2 DEF Slacks

\* And the records handed over.
LEMMA SizeIs ==
    ASSUME NEW e \in Nat, NEW d \in SUBSET (0 .. (e - 1))
    PROVE  IsFiniteSet(d) /\ Size(d) \in Nat
  <1>1. IsFiniteSet(0 .. (e - 1))
    BY FS_Interval
  <1> QED BY <1>1, FS_Subset, FS_CardinalityType DEF Size

\* A fault pays for a commit interval.
LEMMA Fees ==
    ASSUME NEW f \in Nat
    PROVE  PaidFor(f) \in Nat /\ PaidFor(f + 1) = PaidFor(f) + CommitThreshold
  BY ConsumerAssumption DEF PaidFor

\* What the inequalities below are about.
LEMMA Quantities ==
    ASSUME TypeOK, TypeOK'
    PROVE  /\ Waste \in Nat /\ Size(delivered) \in Nat /\ PaidFor(faults) \in Nat
           /\ WasteOf(owner', at', uncommitted') \in Nat /\ Size(delivered') \in Nat
           /\ PaidFor(faults') \in Nat
           /\ repeats \in Nat /\ committed \in Nat /\ repeats' \in Nat /\ committed' \in Nat
           /\ owner \in Members \cup {Nobody} /\ owner' \in Members \cup {Nobody}
           /\ Nobody \notin Members
  <1>1. /\ uncommitted \in [Members -> Nat] /\ uncommitted' \in [Members -> Nat]
        /\ end \in Nat /\ end' \in Nat /\ faults \in Nat /\ faults' \in Nat
        /\ delivered \subseteq 0 .. (end - 1) /\ delivered' \subseteq 0 .. (end' - 1)
    <2>1. end \in Nat /\ end' \in Nat /\ faults \in Nat /\ faults' \in Nat
      BY ConsumerAssumption DEF TypeOK
    <2>2. /\ uncommitted \in [Members -> Nat] /\ uncommitted' \in [Members -> Nat]
          /\ delivered \subseteq 0 .. (end - 1) /\ delivered' \subseteq 0 .. (end' - 1)
      BY DEF TypeOK
    <2> QED BY <2>1, <2>2
  <1>2. Waste \in Nat /\ WasteOf(owner', at', uncommitted') \in Nat
    BY <1>1, SumsAre DEF Waste
  <1>3. Size(delivered) \in Nat /\ Size(delivered') \in Nat
    BY <1>1, SizeIs
  <1>4. PaidFor(faults) \in Nat /\ PaidFor(faults') \in Nat
    BY <1>1, Fees
  <1> QED BY <1>2, <1>3, <1>4, ConsumerAssumption DEF TypeOK

\* A step of one member keeps the balance if it does so in that member's account.
LEMMA BalanceKept ==
    ASSUME TypeOK, TypeOK', Balance, NEW m \in Members,
           \A n \in Members : n # m =>
              /\ owner' = n <=> owner = n
              /\ Slack(owner', n, at'[n], uncommitted'[n]) = Slack(owner, n, at[n], uncommitted[n])
              /\ owner = n => Account(owner', up', n, at'[n], uncommitted'[n])
                                 = Account(owner, up, n, at[n], uncommitted[n]),
           repeats' + Size(delivered') + Account(owner', up', m, at'[m], uncommitted'[m])
             + committed + PaidFor(faults)
           <= repeats + Size(delivered) + Account(owner, up, m, at[m], uncommitted[m])
             + committed' + PaidFor(faults')
    PROVE  Balance'
  <1> DEFINE w  == WasteOf(owner, at, uncommitted)
             w1 == WasteOf(owner', at', uncommitted')
             s  == Slack(owner, m, at[m], uncommitted[m])
             s1 == Slack(owner', m, at'[m], uncommitted'[m])
             d  == Account(owner, up, m, at[m], uncommitted[m])
             d1 == Account(owner', up', m, at'[m], uncommitted'[m])
             p  == PaidFor(faults)
             p1 == PaidFor(faults')
             z  == Size(delivered)
             z1 == Size(delivered')
             h  == repeats
             h1 == repeats'
             c  == committed
             c1 == committed'
  <1>1. /\ w \in Nat /\ w1 \in Nat /\ p \in Nat /\ p1 \in Nat /\ z \in Nat /\ z1 \in Nat
        /\ h \in Nat /\ c \in Nat /\ h1 \in Nat /\ c1 \in Nat
        /\ owner \in Members \cup {Nobody} /\ owner' \in Members \cup {Nobody}
        /\ Nobody \notin Members
    BY Quantities DEF Waste
  <1>2. /\ uncommitted \in [Members -> Nat] /\ uncommitted' \in [Members -> Nat]
        /\ up \in BOOLEAN /\ up' \in BOOLEAN
    BY DEF TypeOK
  <1>3. s \in Nat /\ s1 \in Nat /\ d \in Int /\ d1 \in Int
    BY <1>2, Amounts
  <1>4. w1 + s = w + s1
    <2> DEFINE f == Slacks(owner, at, uncommitted)
               g == Slacks(owner', at', uncommitted')
    <2>1. f \in [Members -> 0 .. CommitThreshold] /\ g \in [Members -> 0 .. CommitThreshold]
      BY <1>2, SumsAre
    <2>2. \A n \in Members : n # m => f[n] = g[n]
      BY DEF Slacks
    <2>3. f[m] = s /\ g[m] = s1
      BY DEF Slacks
    <2> HIDE DEF f, g, s, s1
    <2>4. Cardinality(Units(g)) + f[m] = Cardinality(Units(f)) + g[m]
      BY <2>1, <2>2, UnitsMove
    <2> QED BY <2>3, <2>4 DEF WasteOf, f, g
  <1>5. /\ owner # m => d = s
        /\ owner' # m => d1 = s1
        /\ owner = m => s = 0
        /\ owner' = m => s1 = 0
    BY DEF Account, Slack
  <1>6. h1 + z1 + d1 + c + p <= h + z + d + c1 + p1
    OBVIOUS
  <1>7. /\ owner = Nobody => h + z + w <= c + p
        /\ \A n \in Members : owner = n =>
             h + z + w + Account(owner, up, n, at[n], uncommitted[n]) <= c + p
    BY DEF Balance, Debt, Waste
  <1>8. SUFFICES
        /\ owner' = Nobody => h1 + z1 + w1 <= c1 + p1
        /\ \A n \in Members : owner' = n =>
             h1 + z1 + w1 + Account(owner', up', n, at'[n], uncommitted'[n])
               <= c1 + p1
    BY DEF Balance, Debt, Waste
  <1>9. CASE owner = m
    <2>1. h + z + w + d <= c + p
      BY <1>7, <1>9
    <2> HIDE DEF w, w1, s, s1, d, d1, p, p1, z, z1, h, h1, c, c1
    <2>2. CASE owner' = m
      <3>0. s = 0 /\ s1 = 0
        BY <1>1, <1>5, <1>9, <2>2
      <3>1. h1 + z1 + w1 + d1 <= c1 + p1
        BY <1>1, <1>3, <1>4, <1>6, <2>1, <3>0
      <3> QED BY <1>1, <2>2, <3>1 DEF d1
    <2>3. CASE owner' = Nobody
      <3>0. s = 0 /\ d1 = s1
        BY <1>1, <1>5, <1>9, <2>3
      <3>1. h1 + z1 + w1 <= c1 + p1
        BY <1>1, <1>3, <1>4, <1>6, <2>1, <3>0
      <3> QED BY <1>1, <2>3, <3>1
    <2> QED BY <1>1, <1>9, <2>2, <2>3
  <1>10. CASE owner = Nobody
    <2>1. h + z + w <= c + p
      BY <1>7, <1>10
    <2> HIDE DEF w, w1, s, s1, d, d1, p, p1, z, z1, h, h1, c, c1
    <2>2. CASE owner' = m
      <3>0. d = s /\ s1 = 0
        BY <1>1, <1>5, <1>10, <2>2
      <3>1. h1 + z1 + w1 + d1 <= c1 + p1
        BY <1>1, <1>3, <1>4, <1>6, <2>1, <3>0
      <3> QED BY <1>1, <2>2, <3>1 DEF d1
    <2>3. CASE owner' = Nobody
      <3>0. d = s /\ d1 = s1
        BY <1>1, <1>5, <1>10, <2>3
      <3>1. h1 + z1 + w1 <= c1 + p1
        BY <1>1, <1>3, <1>4, <1>6, <2>1, <3>0
      <3> QED BY <1>1, <2>3, <3>1
    <2> QED BY <1>1, <1>10, <2>2, <2>3
  <1>11. ASSUME NEW o \in Members, o # m, owner = o
         PROVE  /\ owner' = o
                /\ h1 + z1 + w1 + Account(owner', up', o, at'[o], uncommitted'[o])
                     <= c1 + p1
    <2> DEFINE r  == Account(owner, up, o, at[o], uncommitted[o])
               r1 == Account(owner', up', o, at'[o], uncommitted'[o])
    <2>1. owner' = o /\ r1 = r /\ r \in Int
      BY <1>2, <1>11, Amounts
    <2>2. h + z + w + r <= c + p
      BY <1>7, <1>11
    <2> HIDE DEF w, w1, s, s1, d, d1, p, p1, z, z1, h, h1, c, c1, r, r1
    <2>3. h1 + z1 + w1 + r1 <= c1 + p1
      BY <1>1, <1>3, <1>4, <1>5, <1>6, <1>11, <2>1, <2>2
    <2> QED BY <2>1, <2>3 DEF r1
  <1> QED BY <1>1, <1>9, <1>10, <1>11

\* So does one that leaves all accounts alone.
LEMMA BalanceUntouched ==
    ASSUME Balance, UNCHANGED <<up, owner, at, uncommitted, committed, faults, delivered, repeats>>
    PROVE  Balance'
  BY DEF Balance, Debt, Waste

\* So does a step of one member that hands nothing over, when its account grows by
\* no more than the g records it commits and the k that a fault pays for.
LEMMA Settled ==
    ASSUME TypeOK, TypeOK', Balance, NEW m \in Members,
           UNCHANGED <<up, repeats, delivered>>,
           \A n \in Members : n # m => /\ at'[n] = at[n] /\ uncommitted'[n] = uncommitted[n]
                                       /\ owner' = n <=> owner = n,
           NEW g \in Nat, committed' = committed + g,
           NEW k \in Nat, PaidFor(faults') = PaidFor(faults) + k,
           Account(owner', up, m, at'[m], uncommitted'[m])
             <= Account(owner, up, m, at[m], uncommitted[m]) + g + k
    PROVE  Balance'
  <1> DEFINE a  == Account(owner, up, m, at[m], uncommitted[m])
             a1 == Account(owner', up, m, at'[m], uncommitted'[m])
             r  == repeats + Size(delivered)
             p  == PaidFor(faults)
  <1>1. /\ uncommitted \in [Members -> Nat] /\ uncommitted' \in [Members -> Nat]
        /\ up \in BOOLEAN
    BY DEF TypeOK
  <1>2. a \in Int /\ a1 \in Int
    BY <1>1, Amounts
  <1>3. r \in Nat /\ p \in Nat /\ committed \in Nat
    BY Quantities
  <1>4. a1 <= a + g + k
    OBVIOUS
  <1>5. r + a1 + committed + p <= r + a + (committed + g) + (p + k)
    <2> HIDE DEF a, a1, r, p
    <2> QED BY <1>2, <1>3, <1>4
  <1>6. repeats' + Size(delivered') + a1 + committed + p
          <= repeats + Size(delivered) + a + committed' + PaidFor(faults')
    BY <1>5
  <1>7. \A n \in Members : n # m =>
          /\ owner' = n <=> owner = n
          /\ Slack(owner', n, at'[n], uncommitted'[n]) = Slack(owner, n, at[n], uncommitted[n])
          /\ owner = n => Account(owner', up', n, at'[n], uncommitted'[n])
                             = Account(owner, up, n, at[n], uncommitted[n])
    BY DEF Slack, Account
  <1> QED BY <1>6, <1>7, BalanceKept

\* A fault that is counted pays for a commit interval.
LEMMA FaultPays ==
    ASSUME TypeOK, Fault
    PROVE  PaidFor(faults') = PaidFor(faults) + CommitThreshold
  <1>1. faults \in Nat /\ faults' = faults + 1
    BY ConsumerAssumption DEF TypeOK, Fault
  <1> QED BY <1>1, Fees


\* Positions and counts move together, and stages say what is counted.
LEMMA CountedStep == IInv /\ Counted /\ [Next]_vars => Counted'
  <1> SUFFICES ASSUME IInv, Counted, [Next]_vars PROVE Counted'
    OBVIOUS
  <1> USE ConsumerAssumption DEF IInv, Counted, OwnerAhead, TypeOK, Stages, GoTo,
          Forget, Return, Disown, More, Commit, CommitFails, Gone, broker, group,
          process, reading, history
  <1>1. CASE UNCHANGED vars
    BY <1>1 DEF vars
  <1>2. ASSUME NEW m \in Members, MemberStep(m) \/ Poll(m) \/ EnsureTopics(m) \/ Assign(m)
                 \/ HeartbeatThrows(m) \/ Stop(m) \/ Crash(m) \/ Expel(m)
        PROVE  Counted'
    <2>1. CASE Boot(m)
      BY <2>1 DEF Boot
    <2>2. CASE EnsureTopics(m)
      BY <2>2 DEF EnsureTopics
    <2>3. CASE Start(m)
      BY <2>3 DEF Start
    <2>4. CASE StartAgain(m)
      BY <2>4 DEF StartAgain
    <2>5. CASE Assign(m)
      BY <2>5 DEF Assign
    <2>6. CASE Fetch(m)
      BY <2>6 DEF Fetch
    <2>7. CASE Deliver(m)
      BY <2>7 DEF Deliver
    <2>8. CASE CommitIfNecessary(m)
      BY <2>8 DEF CommitIfNecessary
    <2>9. CASE CommitThrows(m)
      BY <2>9 DEF CommitThrows
    <2>10. CASE Heartbeat(m)
      BY <2>10 DEF Heartbeat
    <2>11. CASE HeartbeatThrows(m)
      BY <2>11 DEF HeartbeatThrows
    <2>12. CASE LoopEnds(m)
      BY <2>12 DEF LoopEnds
    <2>13. CASE BatchEnds(m)
      BY <2>13 DEF BatchEnds
    <2>14. CASE BatchEndThrows(m)
      BY <2>14 DEF BatchEndThrows
    <2>15. CASE Recover(m)
      BY <2>15 DEF Recover
    <2>16. CASE Stop(m)
      BY <2>16 DEF Stop
    <2>17. CASE Leave(m)
      BY <2>17 DEF Leave
    <2>18. CASE Crash(m)
      BY <2>18 DEF Crash
    <2>19. CASE Expel(m)
      BY <2>19 DEF Expel
    <2>20. CASE Poll(m)
      BY <2>20 DEF Poll, vars
    <2> QED BY <1>2, <2>1, <2>2, <2>3, <2>4, <2>5, <2>6, <2>7, <2>8, <2>9, <2>10,
            <2>11, <2>12, <2>13, <2>14, <2>15, <2>16, <2>17, <2>18, <2>19, <2>20
            DEF MemberStep
  <1>3. CASE GoesDown
    BY <1>3 DEF GoesDown
  <1>4. CASE ComesUp
    BY <1>4 DEF ComesUp
  <1>5. CASE Produce
    BY <1>5 DEF Produce
  <1> QED BY <1>1, <1>2, <1>3, <1>4, <1>5 DEF Next

\* The accounts of the steps of one member.
LEMMA MemberBalance ==
    ASSUME IInv, IInv', Counted, Balance, NEW m \in Members,
           MemberStep(m) \/ Poll(m) \/ EnsureTopics(m) \/ Assign(m) \/ HeartbeatThrows(m)
             \/ Stop(m) \/ Crash(m) \/ Expel(m)
    PROVE  Balance'
  <1> DEFINE u == uncommitted[m]
  <1> USE DEF broker, group, process, reading, history
  <1>1. /\ TypeOK /\ TypeOK' /\ u \in Nat /\ uncommitted \in [Members -> Nat]
        /\ at \in [Members -> Stages] /\ committed \in Nat /\ position[m] \in Nat
        /\ CommitThreshold \in Nat \ {0} /\ up \in BOOLEAN
        /\ position \in [Members -> Nat] /\ owner \in Members \cup {Nobody}
        /\ faults \in Nat /\ Nobody \notin Members
    <2>1. end \in Nat /\ up \in BOOLEAN /\ faults \in Nat
      BY ConsumerAssumption DEF IInv, TypeOK
    <2>2. TypeOK /\ TypeOK' /\ uncommitted \in [Members -> Nat] /\ at \in [Members -> Stages]
          /\ owner \in Members \cup {Nobody}
      BY DEF IInv, TypeOK
    <2>3. committed \in Nat /\ position \in [Members -> Nat]
      BY <2>1 DEF IInv, TypeOK
    <2> QED BY <2>1, <2>2, <2>3, ConsumerAssumption
  <1>2. /\ at[m] \in {"down", "starting", "backoff", "joining", "spare"} => u = 0 /\ owner # m
        /\ at[m] = "fetch" => owner = m
        /\ at[m] = "beat" => u < CommitThreshold
        /\ owner = m => position[m] = committed + u
    BY DEF Counted, IInv, OwnerAhead
  <1>3. ASSUME faults' = faults PROVE PaidFor(faults') = PaidFor(faults) + 0
    BY <1>1, <1>3, Fees
  <1>4. ASSUME Fault PROVE PaidFor(faults') = PaidFor(faults) + CommitThreshold
    BY <1>1, <1>4, FaultPays
  <1>5. CASE Boot(m) \/ Start(m) \/ StartAgain(m)
    <2>1. /\ UNCHANGED <<up, repeats, delivered, owner, uncommitted, faults>>
          /\ committed' = committed + 0
          /\ \E x \in {"starting", "joining", "backoff"} : at' = [at EXCEPT ![m] = x]
          /\ at[m] \in {"down", "starting", "backoff"}
      BY <1>1, <1>5 DEF Boot, Start, StartAgain, GoTo
    <2>2. at'[m] \in {"starting", "joining", "backoff"} /\ \A n \in Members : n # m => at'[n] = at[n]
      BY <1>1, <2>1
    <2>3. Account(owner, up, m, at'[m], u) <= Account(owner, up, m, at[m], u) + 0 + 0
      BY <1>1, <1>2, <2>1, <2>2 DEF Account, Slack
    <2> QED BY <1>1, <1>3, <2>1, <2>2, <2>3, Settled
  <1>6. CASE EnsureTopics(m) \/ Poll(m) \/ Stop(m)
    BY <1>6, BalanceUntouched DEF EnsureTopics, Poll, Stop, vars
  <1>7. CASE Assign(m)
    <2>1. /\ UNCHANGED <<up, repeats, delivered, committed, uncommitted, faults>>
          /\ owner = Nobody /\ owner' = m /\ at[m] \in {"joining", "spare"} /\ at'[m] = "fetch"
      BY <1>1, <1>7 DEF Assign
    <2>2. \A n \in Members : n # m =>
            /\ owner' = n <=> owner = n
            /\ Slack(owner', n, at'[n], uncommitted'[n]) = Slack(owner, n, at[n], uncommitted[n])
            /\ owner = n => Account(owner', up', n, at'[n], uncommitted'[n])
                               = Account(owner, up, n, at[n], uncommitted[n])
      <3>1. SUFFICES ASSUME NEW n \in Members, n # m
            PROVE  Slack(m, n, at'[n], uncommitted[n]) = Slack(Nobody, n, at[n], uncommitted[n])
        BY <1>1, <2>1
      <3>2. at'[n] = at[n] \/ (at[n] = "joining" /\ at'[n] = "spare")
        BY <1>7, <3>1 DEF Assign
      <3> QED BY <1>1, <3>1, <3>2 DEF Slack
    <2>3. /\ Account(owner', up', m, at'[m], uncommitted'[m]) = 0
          /\ Account(owner, up, m, at[m], uncommitted[m]) = 0
      BY <1>1, <1>2, <2>1 DEF Account, Slack, Need
    <2> DEFINE r == repeats + Size(delivered)
               p == PaidFor(faults)
    <2>4. r \in Nat /\ p \in Nat
      BY <1>1, Quantities
    <2>5. r + 0 + committed + p <= r + 0 + committed + p
      <3> HIDE DEF r, p
      <3> QED BY <1>1, <2>4
    <2> QED BY <1>1, <2>1, <2>2, <2>3, <2>5, BalanceKept
  <1>8. CASE Deliver(m)
    <2>1. /\ at[m] = "loop" /\ at' = [at EXCEPT ![m] = "commit"]
          /\ uncommitted' = [uncommitted EXCEPT ![m] = @ + 1]
          /\ delivered' = delivered \union {position[m]}
          /\ repeats' = IF position[m] \in delivered THEN repeats + 1 ELSE repeats
          /\ UNCHANGED <<up, owner, committed, faults>>
      BY <1>8 DEF Deliver, GoTo
    <2>2. /\ at'[m] = "commit" /\ uncommitted'[m] = u + 1
          /\ \A n \in Members : n # m => at'[n] = at[n] /\ uncommitted'[n] = uncommitted[n]
      BY <1>1, <2>1
    <2> DEFINE a  == Account(owner, up, m, "loop", u)
               a1 == Account(owner, up, m, "commit", u + 1)
               r  == repeats + Size(delivered)
               r1 == repeats' + Size(delivered')
               p  == PaidFor(faults)
    <2>3. a \in Int /\ a1 \in Int /\ a1 + 1 <= a
      <3>1. a \in Int /\ a1 \in Int
        BY <1>1, Amounts
      <3>2. a1 + 1 <= a
        <4> HIDE DEF u
        <4>1. CASE owner = m
          BY <1>1, <4>1 DEF Account, Need, Exposed
        <4>2. CASE owner # m
          BY <1>1, <4>2 DEF Account, Slack
        <4> QED BY <4>1, <4>2
      <3> QED BY <3>1, <3>2
    <2>4. r \in Nat /\ p \in Nat /\ r1 = r + 1
      <3>1. Size(delivered) \in Nat /\ repeats \in Nat /\ p \in Nat
        BY <1>1, Quantities
      <3>2. IsFiniteSet(delivered)
        <4>1. end \in Nat /\ delivered \in SUBSET (0 .. (end - 1))
          BY <1>1, ConsumerAssumption DEF TypeOK
        <4> QED BY <4>1, SizeIs
      <3>3. CASE position[m] \in delivered
        <4>1. delivered' = delivered /\ repeats' = repeats + 1
          BY <2>1, <3>3
        <4> QED BY <3>1, <4>1
      <3>4. CASE position[m] \notin delivered
        <4>1. Size(delivered \union {position[m]}) = Size(delivered) + 1
          BY <3>2, <3>4, FS_AddElement DEF Size
        <4>2. delivered' = delivered \union {position[m]} /\ repeats' = repeats
          BY <2>1, <3>4
        <4> QED BY <3>1, <4>1, <4>2
      <3> QED BY <3>3, <3>4
    <2>5. r1 + a1 + committed + p <= r + a + committed + p
      <3> HIDE DEF a, a1, r, r1, p
      <3> QED BY <1>1, <2>3, <2>4
    <2>6. \A n \in Members : n # m =>
            /\ owner' = n <=> owner = n
            /\ Slack(owner', n, at'[n], uncommitted'[n]) = Slack(owner, n, at[n], uncommitted[n])
            /\ owner = n => Account(owner', up', n, at'[n], uncommitted'[n])
                               = Account(owner, up, n, at[n], uncommitted[n])
      BY <2>1, <2>2
    <2>7. repeats' + Size(delivered') + Account(owner', up', m, at'[m], uncommitted'[m])
            + committed + PaidFor(faults)
          <= repeats + Size(delivered) + Account(owner, up, m, at[m], uncommitted[m])
            + committed' + PaidFor(faults')
      BY <2>1, <2>2, <2>5
    <2> QED BY <1>1, <2>6, <2>7, BalanceKept
  <1>9. CASE Fetch(m)
    <2>1.
          /\ UNCHANGED <<up, repeats, delivered>>
          /\ owner' = owner
          /\ uncommitted' = uncommitted
          /\ committed' = committed + 0 /\ faults' = faults
          /\ at[m] = "fetch" /\ at' = [at EXCEPT ![m] = "loop"]
          /\ up
      BY <1>1, <1>2, <1>9 DEF Fetch, GoTo
    <2>2. /\ at'[m] = "loop" /\ uncommitted'[m] = u
          /\ \A n \in Members : n # m => /\ at'[n] = at[n] /\ uncommitted'[n] = uncommitted[n]
                                      /\ owner' = n <=> owner = n
      BY <1>1, <2>1
    <2>3. Account(owner, up, m, "loop", u) <= Account(owner, up, m, at[m], u) + 0 + 0
      BY <1>1, <1>2, <2>1, <1>9 DEF Account, Slack, Need, Exposed
    <2>4. PaidFor(faults') = PaidFor(faults) + 0
      BY <2>1, <1>3
    <2>5. Account(owner', up, m, at'[m], uncommitted'[m])
            <= Account(owner, up, m, at[m], uncommitted[m]) + 0 + 0
      BY <2>1, <2>2, <2>3
    <2> QED BY <1>1, <2>1, <2>2, <2>4, <2>5, Settled
  <1>10. CASE CommitIfNecessary(m) /\ u < CommitThreshold
    <2>1.
          /\ UNCHANGED <<up, repeats, delivered>>
          /\ owner' = owner
          /\ uncommitted' = uncommitted
          /\ committed' = committed + 0 /\ faults' = faults
          /\ at[m] = "commit" /\ at' = [at EXCEPT ![m] = "beat"]
      BY <1>1, <1>2, <1>10 DEF CommitIfNecessary, GoTo
    <2>2. /\ at'[m] = "beat" /\ uncommitted'[m] = u
          /\ \A n \in Members : n # m => /\ at'[n] = at[n] /\ uncommitted'[n] = uncommitted[n]
                                      /\ owner' = n <=> owner = n
      BY <1>1, <2>1
    <2>3. Account(owner, up, m, "beat", u) <= Account(owner, up, m, at[m], u) + 0 + 0
      BY <1>1, <1>2, <2>1, <1>10 DEF Account, Slack, Need, Exposed
    <2>4. PaidFor(faults') = PaidFor(faults) + 0
      BY <2>1, <1>3
    <2>5. Account(owner', up, m, at'[m], uncommitted'[m])
            <= Account(owner, up, m, at[m], uncommitted[m]) + 0 + 0
      BY <2>1, <2>2, <2>3
    <2> QED BY <1>1, <2>1, <2>2, <2>4, <2>5, Settled
  <1>11. CASE CommitIfNecessary(m) /\ ~ u < CommitThreshold
    <2>1.
          /\ UNCHANGED <<up, repeats, delivered>>
          /\ owner' = owner
          /\ uncommitted' = [uncommitted EXCEPT ![m] = 0]
          /\ committed' = committed + u /\ faults' = faults
          /\ at[m] = "commit" /\ at' = [at EXCEPT ![m] = "beat"]
          /\ owner = m /\ up
      BY <1>1, <1>2, <1>11 DEF CommitIfNecessary, Commit, GoTo
    <2>2. /\ at'[m] = "beat" /\ uncommitted'[m] = 0
          /\ \A n \in Members : n # m => /\ at'[n] = at[n] /\ uncommitted'[n] = uncommitted[n]
                                      /\ owner' = n <=> owner = n
      BY <1>1, <2>1
    <2>3. Account(owner, up, m, "beat", 0) <= Account(owner, up, m, at[m], u) + u + 0
      BY <1>1, <1>2, <2>1, <1>11 DEF Account, Slack, Need, Exposed
    <2>4. PaidFor(faults') = PaidFor(faults) + 0
      BY <2>1, <1>3
    <2>5. Account(owner', up, m, at'[m], uncommitted'[m])
            <= Account(owner, up, m, at[m], uncommitted[m]) + u + 0
      BY <2>1, <2>2, <2>3
    <2> QED BY <1>1, <2>1, <2>2, <2>4, <2>5, Settled
  <1>12. CASE CommitThrows(m) /\ ~ Fault
    <2>1.
          /\ UNCHANGED <<up, repeats, delivered>>
          /\ owner' = owner
          /\ uncommitted' = uncommitted
          /\ committed' = committed + 0 /\ faults' = faults
          /\ at[m] = "commit" /\ at' = [at EXCEPT ![m] = "failed"]
          /\ u >= CommitThreshold /\ (owner # m \/ ~ up)
      BY <1>1, <1>2, <1>12 DEF CommitThrows, CommitFails, GoTo
    <2>2. /\ at'[m] = "failed" /\ uncommitted'[m] = u
          /\ \A n \in Members : n # m => /\ at'[n] = at[n] /\ uncommitted'[n] = uncommitted[n]
                                      /\ owner' = n <=> owner = n
      BY <1>1, <2>1
    <2>3. Account(owner, up, m, "failed", u) <= Account(owner, up, m, at[m], u) + 0 + 0
      BY <1>1, <1>2, <2>1, <1>12 DEF Account, Slack, Need, Exposed
    <2>4. PaidFor(faults') = PaidFor(faults) + 0
      BY <2>1, <1>3
    <2>5. Account(owner', up, m, at'[m], uncommitted'[m])
            <= Account(owner, up, m, at[m], uncommitted[m]) + 0 + 0
      BY <2>1, <2>2, <2>3
    <2> QED BY <1>1, <2>1, <2>2, <2>4, <2>5, Settled
  <1>13. CASE CommitThrows(m) /\ Fault
    <2>1.
          /\ UNCHANGED <<up, repeats, delivered>>
          /\ owner' = owner
          /\ uncommitted' = uncommitted
          /\ committed' = committed + 0 /\ Fault
          /\ at[m] = "commit" /\ at' = [at EXCEPT ![m] = "failed"]
          /\ u >= CommitThreshold
      BY <1>1, <1>2, <1>13 DEF CommitThrows, CommitFails, GoTo
    <2>2. /\ at'[m] = "failed" /\ uncommitted'[m] = u
          /\ \A n \in Members : n # m => /\ at'[n] = at[n] /\ uncommitted'[n] = uncommitted[n]
                                      /\ owner' = n <=> owner = n
      BY <1>1, <2>1
    <2>3. Account(owner, up, m, "failed", u) <= Account(owner, up, m, at[m], u) + 0 + CommitThreshold
      BY <1>1, <1>2, <2>1, <1>13 DEF Account, Slack, Need, Exposed
    <2>4. PaidFor(faults') = PaidFor(faults) + CommitThreshold
      BY <2>1, <1>4
    <2>5. Account(owner', up, m, at'[m], uncommitted'[m])
            <= Account(owner, up, m, at[m], uncommitted[m]) + 0 + CommitThreshold
      BY <2>1, <2>2, <2>3
    <2> QED BY <1>1, <2>1, <2>2, <2>4, <2>5, Settled
  <1>14. CASE Heartbeat(m)
    <2>1.
          /\ UNCHANGED <<up, repeats, delivered>>
          /\ owner' = owner
          /\ uncommitted' = uncommitted
          /\ committed' = committed + 0 /\ faults' = faults
          /\ at[m] = "beat" /\ at' = [at EXCEPT ![m] = "loop"]
      BY <1>1, <1>2, <1>14 DEF Heartbeat, GoTo
    <2>2. /\ at'[m] = "loop" /\ uncommitted'[m] = u
          /\ \A n \in Members : n # m => /\ at'[n] = at[n] /\ uncommitted'[n] = uncommitted[n]
                                      /\ owner' = n <=> owner = n
      BY <1>1, <2>1
    <2>3. Account(owner, up, m, "loop", u) <= Account(owner, up, m, at[m], u) + 0 + 0
      BY <1>1, <1>2, <2>1, <1>14 DEF Account, Slack, Need, Exposed
    <2>4. PaidFor(faults') = PaidFor(faults) + 0
      BY <2>1, <1>3
    <2>5. Account(owner', up, m, at'[m], uncommitted'[m])
            <= Account(owner, up, m, at[m], uncommitted[m]) + 0 + 0
      BY <2>1, <2>2, <2>3
    <2> QED BY <1>1, <2>1, <2>2, <2>4, <2>5, Settled
  <1>15. CASE HeartbeatThrows(m)
    <2>1.
          /\ UNCHANGED <<up, repeats, delivered>>
          /\ owner' = owner
          /\ uncommitted' = uncommitted
          /\ committed' = committed + 0 /\ faults' = faults
          /\ at[m] \in {"beat", "fetch"} /\ at' = [at EXCEPT ![m] = "failed"]
          /\ up
      BY <1>1, <1>2, <1>15 DEF HeartbeatThrows, GoTo
    <2>2. /\ at'[m] = "failed" /\ uncommitted'[m] = u
          /\ \A n \in Members : n # m => /\ at'[n] = at[n] /\ uncommitted'[n] = uncommitted[n]
                                      /\ owner' = n <=> owner = n
      BY <1>1, <2>1
    <2>3. Account(owner, up, m, "failed", u) <= Account(owner, up, m, at[m], u) + 0 + 0
      BY <1>1, <1>2, <2>1, <1>15 DEF Account, Slack, Need, Exposed
    <2>4. PaidFor(faults') = PaidFor(faults) + 0
      BY <2>1, <1>3
    <2>5. Account(owner', up, m, at'[m], uncommitted'[m])
            <= Account(owner, up, m, at[m], uncommitted[m]) + 0 + 0
      BY <2>1, <2>2, <2>3
    <2> QED BY <1>1, <2>1, <2>2, <2>4, <2>5, Settled
  <1>16. CASE LoopEnds(m)
    <2>1.
          /\ UNCHANGED <<up, repeats, delivered>>
          /\ owner' = owner
          /\ uncommitted' = uncommitted
          /\ committed' = committed + 0 /\ faults' = faults
          /\ at[m] = "loop" /\ at' = [at EXCEPT ![m] = "ended"]
      BY <1>1, <1>2, <1>16 DEF LoopEnds, GoTo
    <2>2. /\ at'[m] = "ended" /\ uncommitted'[m] = u
          /\ \A n \in Members : n # m => /\ at'[n] = at[n] /\ uncommitted'[n] = uncommitted[n]
                                      /\ owner' = n <=> owner = n
      BY <1>1, <2>1
    <2>3. Account(owner, up, m, "ended", u) <= Account(owner, up, m, at[m], u) + 0 + 0
      BY <1>1, <1>2, <2>1, <1>16 DEF Account, Slack, Need, Exposed
    <2>4. PaidFor(faults') = PaidFor(faults) + 0
      BY <2>1, <1>3
    <2>5. Account(owner', up, m, at'[m], uncommitted'[m])
            <= Account(owner, up, m, at[m], uncommitted[m]) + 0 + 0
      BY <2>1, <2>2, <2>3
    <2> QED BY <1>1, <2>1, <2>2, <2>4, <2>5, Settled
  <1>17. CASE BatchEnds(m)
    <2>1.
          /\ UNCHANGED <<up, repeats, delivered>>
          /\ owner' = owner
          /\ uncommitted' = [uncommitted EXCEPT ![m] = 0]
          /\ committed' = committed + u /\ faults' = faults
          /\ at[m] = "ended" /\ at' = [at EXCEPT ![m] = "fetch"]
          /\ owner = m /\ up
      BY <1>1, <1>2, <1>17 DEF BatchEnds, Commit, GoTo
    <2>2. /\ at'[m] = "fetch" /\ uncommitted'[m] = 0
          /\ \A n \in Members : n # m => /\ at'[n] = at[n] /\ uncommitted'[n] = uncommitted[n]
                                      /\ owner' = n <=> owner = n
      BY <1>1, <2>1
    <2>3. Account(owner, up, m, "fetch", 0) <= Account(owner, up, m, at[m], u) + u + 0
      BY <1>1, <1>2, <2>1, <1>17 DEF Account, Slack, Need, Exposed
    <2>4. PaidFor(faults') = PaidFor(faults) + 0
      BY <2>1, <1>3
    <2>5. Account(owner', up, m, at'[m], uncommitted'[m])
            <= Account(owner, up, m, at[m], uncommitted[m]) + u + 0
      BY <2>1, <2>2, <2>3
    <2> QED BY <1>1, <2>1, <2>2, <2>4, <2>5, Settled
  <1>18. CASE BatchEndThrows(m) /\ ~ Fault
    <2>1.
          /\ UNCHANGED <<up, repeats, delivered>>
          /\ owner' = owner
          /\ uncommitted' = uncommitted
          /\ committed' = committed + 0 /\ faults' = faults
          /\ at[m] = "ended" /\ at' = [at EXCEPT ![m] = "failed"]
          /\ owner # m \/ ~ up
      BY <1>1, <1>2, <1>18 DEF BatchEndThrows, CommitFails, GoTo
    <2>2. /\ at'[m] = "failed" /\ uncommitted'[m] = u
          /\ \A n \in Members : n # m => /\ at'[n] = at[n] /\ uncommitted'[n] = uncommitted[n]
                                      /\ owner' = n <=> owner = n
      BY <1>1, <2>1
    <2>3. Account(owner, up, m, "failed", u) <= Account(owner, up, m, at[m], u) + 0 + 0
      BY <1>1, <1>2, <2>1, <1>18 DEF Account, Slack, Need, Exposed
    <2>4. PaidFor(faults') = PaidFor(faults) + 0
      BY <2>1, <1>3
    <2>5. Account(owner', up, m, at'[m], uncommitted'[m])
            <= Account(owner, up, m, at[m], uncommitted[m]) + 0 + 0
      BY <2>1, <2>2, <2>3
    <2> QED BY <1>1, <2>1, <2>2, <2>4, <2>5, Settled
  <1>19. CASE BatchEndThrows(m) /\ Fault
    <2>1.
          /\ UNCHANGED <<up, repeats, delivered>>
          /\ owner' = owner
          /\ uncommitted' = uncommitted
          /\ committed' = committed + 0 /\ Fault
          /\ at[m] = "ended" /\ at' = [at EXCEPT ![m] = "failed"]
      BY <1>1, <1>2, <1>19 DEF BatchEndThrows, CommitFails, GoTo
    <2>2. /\ at'[m] = "failed" /\ uncommitted'[m] = u
          /\ \A n \in Members : n # m => /\ at'[n] = at[n] /\ uncommitted'[n] = uncommitted[n]
                                      /\ owner' = n <=> owner = n
      BY <1>1, <2>1
    <2>3. Account(owner, up, m, "failed", u) <= Account(owner, up, m, at[m], u) + 0 + CommitThreshold
      BY <1>1, <1>2, <2>1, <1>19 DEF Account, Slack, Need, Exposed
    <2>4. PaidFor(faults') = PaidFor(faults) + CommitThreshold
      BY <2>1, <1>4
    <2>5. Account(owner', up, m, at'[m], uncommitted'[m])
            <= Account(owner, up, m, at[m], uncommitted[m]) + 0 + CommitThreshold
      BY <2>1, <2>2, <2>3
    <2> QED BY <1>1, <2>1, <2>2, <2>4, <2>5, Settled
  <1>20. CASE Recover(m) /\ at'[m] = "joining" /\ owner = m /\ up
    <2>1.
          /\ UNCHANGED <<up, repeats, delivered>>
          /\ owner' = Nobody
          /\ uncommitted' = [uncommitted EXCEPT ![m] = 0]
          /\ committed' = committed + u /\ faults' = faults
          /\ at[m] = "failed" /\ at' = [at EXCEPT ![m] = "joining"]
          /\ owner = m
      BY <1>1, <1>2, <1>20 DEF Recover, GoTo, Disown, Forget
    <2>2. /\ at'[m] = "joining" /\ uncommitted'[m] = 0
          /\ \A n \in Members : n # m => /\ at'[n] = at[n] /\ uncommitted'[n] = uncommitted[n]
                                      /\ owner' = n <=> owner = n
      BY <1>1, <2>1
    <2>3. Account(Nobody, up, m, "joining", 0) <= Account(owner, up, m, at[m], u) + u + 0
      BY <1>1, <1>2, <2>1, <1>20 DEF Account, Slack, Need, Exposed
    <2>4. PaidFor(faults') = PaidFor(faults) + 0
      BY <2>1, <1>3
    <2>5. Account(owner', up, m, at'[m], uncommitted'[m])
            <= Account(owner, up, m, at[m], uncommitted[m]) + u + 0
      BY <2>1, <2>2, <2>3
    <2> QED BY <1>1, <2>1, <2>2, <2>4, <2>5, Settled
  <1>21. CASE Recover(m) /\ at'[m] = "joining" /\ owner = m /\ ~ up
    <2>1.
          /\ UNCHANGED <<up, repeats, delivered>>
          /\ owner' = Nobody
          /\ uncommitted' = [uncommitted EXCEPT ![m] = 0]
          /\ committed' = committed + 0 /\ faults' = faults
          /\ at[m] = "failed" /\ at' = [at EXCEPT ![m] = "joining"]
          /\ owner = m
      BY <1>1, <1>2, <1>21 DEF Recover, GoTo, Disown, Forget
    <2>2. /\ at'[m] = "joining" /\ uncommitted'[m] = 0
          /\ \A n \in Members : n # m => /\ at'[n] = at[n] /\ uncommitted'[n] = uncommitted[n]
                                      /\ owner' = n <=> owner = n
      BY <1>1, <2>1
    <2>3. Account(Nobody, up, m, "joining", 0) <= Account(owner, up, m, at[m], u) + 0 + 0
      BY <1>1, <1>2, <2>1, <1>21 DEF Account, Slack, Need, Exposed
    <2>4. PaidFor(faults') = PaidFor(faults) + 0
      BY <2>1, <1>3
    <2>5. Account(owner', up, m, at'[m], uncommitted'[m])
            <= Account(owner, up, m, at[m], uncommitted[m]) + 0 + 0
      BY <2>1, <2>2, <2>3
    <2> QED BY <1>1, <2>1, <2>2, <2>4, <2>5, Settled
  <1>22. CASE Recover(m) /\ at'[m] = "joining" /\ owner # m
    <2>1.
          /\ UNCHANGED <<up, repeats, delivered>>
          /\ owner' = owner
          /\ uncommitted' = [uncommitted EXCEPT ![m] = 0]
          /\ committed' = committed + 0 /\ faults' = faults
          /\ at[m] = "failed" /\ at' = [at EXCEPT ![m] = "joining"]
      BY <1>1, <1>2, <1>22 DEF Recover, GoTo, Disown, Forget
    <2>2. /\ at'[m] = "joining" /\ uncommitted'[m] = 0
          /\ \A n \in Members : n # m => /\ at'[n] = at[n] /\ uncommitted'[n] = uncommitted[n]
                                      /\ owner' = n <=> owner = n
      BY <1>1, <2>1
    <2>3. Account(owner, up, m, "joining", 0) <= Account(owner, up, m, at[m], u) + 0 + 0
      BY <1>1, <1>2, <2>1, <1>22 DEF Account, Slack, Need, Exposed
    <2>4. PaidFor(faults') = PaidFor(faults) + 0
      BY <2>1, <1>3
    <2>5. Account(owner', up, m, at'[m], uncommitted'[m])
            <= Account(owner, up, m, at[m], uncommitted[m]) + 0 + 0
      BY <2>1, <2>2, <2>3
    <2> QED BY <1>1, <2>1, <2>2, <2>4, <2>5, Settled
  <1>23. CASE Recover(m) /\ at'[m] # "joining" /\ up
    <2>1.
          /\ UNCHANGED <<up, repeats, delivered>>
          /\ owner' = owner
          /\ uncommitted' = [uncommitted EXCEPT ![m] = 0]
          /\ committed' = committed + u /\ faults' = faults
          /\ at[m] = "failed" /\ at' = [at EXCEPT ![m] = "fetch"]
          /\ owner = m
      BY <1>1, <1>2, <1>23 DEF Recover, GoTo
    <2>2. /\ at'[m] = "fetch" /\ uncommitted'[m] = 0
          /\ \A n \in Members : n # m => /\ at'[n] = at[n] /\ uncommitted'[n] = uncommitted[n]
                                      /\ owner' = n <=> owner = n
      BY <1>1, <2>1
    <2>3. Account(owner, up, m, "fetch", 0) <= Account(owner, up, m, at[m], u) + u + 0
      BY <1>1, <1>2, <2>1, <1>23 DEF Account, Slack, Need, Exposed
    <2>4. PaidFor(faults') = PaidFor(faults) + 0
      BY <2>1, <1>3
    <2>5. Account(owner', up, m, at'[m], uncommitted'[m])
            <= Account(owner, up, m, at[m], uncommitted[m]) + u + 0
      BY <2>1, <2>2, <2>3
    <2> QED BY <1>1, <2>1, <2>2, <2>4, <2>5, Settled
  <1>24. CASE Recover(m) /\ at'[m] # "joining" /\ ~ up
    <2>1.
          /\ UNCHANGED <<up, repeats, delivered>>
          /\ owner' = owner
          /\ uncommitted' = uncommitted
          /\ committed' = committed + 0 /\ faults' = faults
          /\ at[m] = "failed" /\ at' = [at EXCEPT ![m] = "fetch"]
          /\ owner = m
      BY <1>1, <1>2, <1>24 DEF Recover, GoTo
    <2>2. /\ at'[m] = "fetch" /\ uncommitted'[m] = u
          /\ \A n \in Members : n # m => /\ at'[n] = at[n] /\ uncommitted'[n] = uncommitted[n]
                                      /\ owner' = n <=> owner = n
      BY <1>1, <2>1
    <2>3. Account(owner, up, m, "fetch", u) <= Account(owner, up, m, at[m], u) + 0 + 0
      BY <1>1, <1>2, <2>1, <1>24 DEF Account, Slack, Need, Exposed
    <2>4. PaidFor(faults') = PaidFor(faults) + 0
      BY <2>1, <1>3
    <2>5. Account(owner', up, m, at'[m], uncommitted'[m])
            <= Account(owner, up, m, at[m], uncommitted[m]) + 0 + 0
      BY <2>1, <2>2, <2>3
    <2> QED BY <1>1, <2>1, <2>2, <2>4, <2>5, Settled
  <1>25. CASE Leave(m) /\ owner = m
    <2>1.
          /\ UNCHANGED <<up, repeats, delivered>>
          /\ owner' = Nobody
          /\ uncommitted' = [uncommitted EXCEPT ![m] = 0]
          /\ committed' = committed + 0 /\ faults' = faults
          /\ at[m] = "fetch" /\ at' = [at EXCEPT ![m] = "down"]
          /\ owner = m
      BY <1>1, <1>2, <1>25 DEF Leave, Gone, GoTo, Disown, Forget
    <2>2. /\ at'[m] = "down" /\ uncommitted'[m] = 0
          /\ \A n \in Members : n # m => /\ at'[n] = at[n] /\ uncommitted'[n] = uncommitted[n]
                                      /\ owner' = n <=> owner = n
      BY <1>1, <2>1
    <2>3. Account(Nobody, up, m, "down", 0) <= Account(owner, up, m, at[m], u) + 0 + 0
      BY <1>1, <1>2, <2>1, <1>25 DEF Account, Slack, Need, Exposed
    <2>4. PaidFor(faults') = PaidFor(faults) + 0
      BY <2>1, <1>3
    <2>5. Account(owner', up, m, at'[m], uncommitted'[m])
            <= Account(owner, up, m, at[m], uncommitted[m]) + 0 + 0
      BY <2>1, <2>2, <2>3
    <2> QED BY <1>1, <2>1, <2>2, <2>4, <2>5, Settled
  <1>26. CASE Leave(m) /\ owner # m
    <2>1.
          /\ UNCHANGED <<up, repeats, delivered>>
          /\ owner' = owner
          /\ uncommitted' = [uncommitted EXCEPT ![m] = 0]
          /\ committed' = committed + 0 /\ faults' = faults
          /\ TRUE /\ at' = [at EXCEPT ![m] = "down"]
      BY <1>1, <1>2, <1>26 DEF Leave, Gone, GoTo, Disown, Forget
    <2>2. /\ at'[m] = "down" /\ uncommitted'[m] = 0
          /\ \A n \in Members : n # m => /\ at'[n] = at[n] /\ uncommitted'[n] = uncommitted[n]
                                      /\ owner' = n <=> owner = n
      BY <1>1, <2>1
    <2>3. Account(owner, up, m, "down", 0) <= Account(owner, up, m, at[m], u) + 0 + 0
      BY <1>1, <1>2, <2>1, <1>26 DEF Account, Slack, Need, Exposed
    <2>4. PaidFor(faults') = PaidFor(faults) + 0
      BY <2>1, <1>3
    <2>5. Account(owner', up, m, at'[m], uncommitted'[m])
            <= Account(owner, up, m, at[m], uncommitted[m]) + 0 + 0
      BY <2>1, <2>2, <2>3
    <2> QED BY <1>1, <2>1, <2>2, <2>4, <2>5, Settled
  <1>27. CASE Crash(m) /\ owner = m
    <2>1.
          /\ UNCHANGED <<up, repeats, delivered>>
          /\ owner' = Nobody
          /\ uncommitted' = [uncommitted EXCEPT ![m] = 0]
          /\ committed' = committed + 0 /\ Fault
          /\ TRUE /\ at' = [at EXCEPT ![m] = "down"]
          /\ owner = m
      BY <1>1, <1>2, <1>27 DEF Crash, Gone, GoTo, Disown, Forget
    <2>2. /\ at'[m] = "down" /\ uncommitted'[m] = 0
          /\ \A n \in Members : n # m => /\ at'[n] = at[n] /\ uncommitted'[n] = uncommitted[n]
                                      /\ owner' = n <=> owner = n
      BY <1>1, <2>1
    <2>3. Account(Nobody, up, m, "down", 0) <= Account(owner, up, m, at[m], u) + 0 + CommitThreshold
      BY <1>1, <1>2, <2>1, <1>27 DEF Account, Slack, Need, Exposed
    <2>4. PaidFor(faults') = PaidFor(faults) + CommitThreshold
      BY <2>1, <1>4
    <2>5. Account(owner', up, m, at'[m], uncommitted'[m])
            <= Account(owner, up, m, at[m], uncommitted[m]) + 0 + CommitThreshold
      BY <2>1, <2>2, <2>3
    <2> QED BY <1>1, <2>1, <2>2, <2>4, <2>5, Settled
  <1>28. CASE Crash(m) /\ owner # m
    <2>1.
          /\ UNCHANGED <<up, repeats, delivered>>
          /\ owner' = owner
          /\ uncommitted' = [uncommitted EXCEPT ![m] = 0]
          /\ committed' = committed + 0 /\ Fault
          /\ TRUE /\ at' = [at EXCEPT ![m] = "down"]
      BY <1>1, <1>2, <1>28 DEF Crash, Gone, GoTo, Disown, Forget
    <2>2. /\ at'[m] = "down" /\ uncommitted'[m] = 0
          /\ \A n \in Members : n # m => /\ at'[n] = at[n] /\ uncommitted'[n] = uncommitted[n]
                                      /\ owner' = n <=> owner = n
      BY <1>1, <2>1
    <2>3. Account(owner, up, m, "down", 0) <= Account(owner, up, m, at[m], u) + 0 + CommitThreshold
      BY <1>1, <1>2, <2>1, <1>28 DEF Account, Slack, Need, Exposed
    <2>4. PaidFor(faults') = PaidFor(faults) + CommitThreshold
      BY <2>1, <1>4
    <2>5. Account(owner', up, m, at'[m], uncommitted'[m])
            <= Account(owner, up, m, at[m], uncommitted[m]) + 0 + CommitThreshold
      BY <2>1, <2>2, <2>3
    <2> QED BY <1>1, <2>1, <2>2, <2>4, <2>5, Settled
  <1>29. CASE Expel(m)
    <2>1.
          /\ UNCHANGED <<up, repeats, delivered, uncommitted, at>>
          /\ owner = m
          /\ owner' = Nobody
          /\ committed' = committed + 0 /\ Fault /\ at[m] \in {"loop", "commit"}
      BY <1>1, <1>29 DEF Expel
    <2>2. \A n \in Members : n # m => /\ at'[n] = at[n] /\ uncommitted'[n] = uncommitted[n]
                                      /\ owner' = n <=> owner = n
      BY <1>1, <2>1
    <2>3. Account(Nobody, up, m, at[m], u) <= Account(owner, up, m, at[m], u) + 0 + CommitThreshold
      BY <1>1, <1>2, <2>1 DEF Account, Slack, Need, Exposed
    <2>4. PaidFor(faults') = PaidFor(faults) + CommitThreshold
      BY <2>1, <1>4
    <2>5. Account(owner', up, m, at'[m], uncommitted'[m])
            <= Account(owner, up, m, at[m], uncommitted[m]) + 0 + CommitThreshold
      BY <2>1, <2>3
    <2> QED BY <1>1, <2>1, <2>2, <2>4, <2>5, Settled
  <1> QED BY <1>5, <1>6, <1>7, <1>8, <1>9, <1>10, <1>11, <1>12, <1>13, <1>14, <1>15,
         <1>16, <1>17, <1>18, <1>19, <1>20, <1>21, <1>22, <1>23, <1>24, <1>25, <1>26,
         <1>27, <1>28, <1>29 DEF MemberStep

\* An outage is a fault, and pays for what its owner loses by it.
LEMMA OutageBalance ==
    ASSUME IInv, IInv', Balance, GoesDown \/ ComesUp
    PROVE  Balance'
  <1> USE DEF group, process, reading, history
  <1>1. /\ TypeOK /\ TypeOK' /\ uncommitted \in [Members -> Nat] /\ faults \in Nat
        /\ up' \in BOOLEAN /\ up \in BOOLEAN
        /\ CommitThreshold \in Nat \ {0} /\ Nobody \notin Members
        /\ UNCHANGED <<owner, at, uncommitted, repeats, delivered, committed>>
    <2>1. TypeOK /\ TypeOK'
      BY DEF IInv
    <2>2. faults \in Nat
      BY <2>1, ConsumerAssumption DEF TypeOK
    <2>3. uncommitted \in [Members -> Nat] /\ up \in BOOLEAN /\ up' \in BOOLEAN
      BY <2>1 DEF TypeOK
    <2>4. UNCHANGED <<owner, at, uncommitted, repeats, delivered, committed>>
      BY DEF GoesDown, ComesUp
    <2> QED BY <2>1, <2>2, <2>3, <2>4, ConsumerAssumption
  <1> DEFINE r == repeats + Size(delivered)
             p == PaidFor(faults)
             p1 == PaidFor(faults')
  <1>2. r \in Nat /\ p \in Nat /\ p1 \in Nat /\ committed \in Nat /\ Waste \in Nat
    BY <1>1, Quantities
  <1>3. PICK k \in Nat : /\ p1 = p + k
                         /\ k = CommitThreshold \/ (k = 0 /\ up')
                         /\ k = 0 \/ up
    <2>1. CASE GoesDown
      BY <1>1, <2>1, FaultPays DEF GoesDown
    <2>2. CASE ComesUp
      BY <1>1, <1>2, <2>2 DEF ComesUp
    <2> QED BY <2>1, <2>2
  <1>4. \A m \in Members : Account(owner, up', m, at[m], uncommitted[m])
                             <= Account(owner, up, m, at[m], uncommitted[m]) + k
    <2>1. SUFFICES ASSUME NEW m \in Members, NEW u \in Nat, u = uncommitted[m]
          PROVE  Account(owner, up', m, at[m], u) <= Account(owner, up, m, at[m], u) + k
      BY <1>1
    <2>2. CASE owner = m
      <3>1. Need(up', at[m], u) <= Need(up, at[m], u) + k
        BY <1>1, <1>3 DEF Need, Exposed
      <3>2. Need(up', at[m], u) \in Int /\ Need(up, at[m], u) \in Int
        BY <1>1 DEF Need, Exposed
      <3>3. Need(up', at[m], u) - u <= (Need(up, at[m], u) - u) + k
        BY <3>1, <3>2
      <3> QED BY <2>2, <3>3 DEF Account
    <2>3. CASE owner # m
      BY <1>1, <2>3 DEF Account, Slack
    <2> QED BY <2>2, <2>3
  <1>5. CASE owner \in Members
    <2>1. PICK m \in Members : owner = m
      BY <1>5
    <2>2. \A n \in Members : n # m => /\ at'[n] = at[n] /\ uncommitted'[n] = uncommitted[n]
                                      /\ owner' = n <=> owner = n
      BY <1>1, <2>1
    <2> DEFINE a  == Account(owner, up, m, at[m], uncommitted[m])
               a1 == Account(owner, up', m, at[m], uncommitted[m])
    <2>3. a \in Int /\ a1 \in Int /\ a1 <= a + k
      BY <1>1, <1>4, Amounts
    <2>4. r + a1 + committed + p <= r + a + committed + p1
      <3> HIDE DEF r, p, p1, a, a1
      <3> QED BY <1>2, <1>3, <2>3
    <2>5. repeats' + Size(delivered') + Account(owner', up', m, at'[m], uncommitted'[m])
            + committed + PaidFor(faults)
          <= repeats + Size(delivered) + Account(owner, up, m, at[m], uncommitted[m])
            + committed' + PaidFor(faults')
      BY <1>1, <2>4
    <2>6. \A n \in Members : n # m =>
            /\ owner' = n <=> owner = n
            /\ Slack(owner', n, at'[n], uncommitted'[n]) = Slack(owner, n, at[n], uncommitted[n])
            /\ owner = n => Account(owner', up', n, at'[n], uncommitted'[n])
                               = Account(owner, up, n, at[n], uncommitted[n])
      BY <1>1, <2>1
    <2> QED BY <1>1, <2>5, <2>6, BalanceKept
  <1>6. CASE owner \notin Members
    <2>1. owner = Nobody
      BY <1>1, <1>6 DEF TypeOK
    <2>2. r + Waste <= committed + p
      BY <2>1 DEF Balance
    <2>3. r + Waste <= committed + p1
      <3> HIDE DEF r, p, p1
      <3> QED BY <1>2, <1>3, <2>2
    <2>4. repeats' + Size(delivered') + WasteOf(owner', at', uncommitted')
            <= committed' + PaidFor(faults')
      BY <1>1, <2>3 DEF Waste
    <2>5. owner' \notin Members
      BY <1>1, <1>6
    <2> QED BY <2>4, <2>5 DEF Balance, Waste
  <1> QED BY <1>5, <1>6

\* Nothing is owed at first.
LEMMA BalanceInit == Init => Counted /\ Balance
  <1> SUFFICES ASSUME Init PROVE Counted /\ Balance
    OBVIOUS
  <1>1. Counted
    BY ConsumerAssumption DEF Init, Counted
  <1> DEFINE f == Slacks(owner, at, uncommitted)
  <1>2. \A m \in Members : f[m] = 0
    BY ConsumerAssumption DEF Init, Slacks, Slack
  <1>3. Units(f) = {}
    <2> HIDE DEF f
    <2> QED BY <1>2 DEF Units
  <1>4. Waste = 0 /\ Size(delivered) = 0
    BY <1>3, FS_EmptySet DEF Waste, WasteOf, Size, Init
  <1>5. PaidFor(faults) \in Nat
    BY Fees DEF Init
  <1>6. repeats + Size(delivered) + Waste <= committed + PaidFor(faults)
    BY <1>4, <1>5 DEF Init
  <1> QED BY <1>1, <1>6, ConsumerAssumption DEF Init, Balance

\* What has been paid for covers what has been repeated.
LEMMA BalanceSuffices == IInv /\ Counted /\ Balance => RepeatsPaidFor
  <1> SUFFICES ASSUME IInv, Counted, Balance PROVE repeats <= PaidFor(faults)
    BY DEF RepeatsPaidFor, PaidFor
  <1>1. /\ TypeOK /\ end \in Nat /\ committed \in Nat /\ repeats \in Nat
        /\ uncommitted \in [Members -> Nat] /\ up \in BOOLEAN
        /\ owner \in Members \cup {Nobody} /\ faults \in Nat
        /\ delivered \in SUBSET (0 .. (end - 1))
    BY ConsumerAssumption DEF IInv, TypeOK
  <1>2. Waste \in Nat /\ PaidFor(faults) \in Nat /\ Size(delivered) \in Nat
    BY <1>1, SumsAre, SizeIs, Fees DEF Waste
  <1>3. ASSUME NEW n \in Nat, 0 .. (n - 1) \subseteq delivered PROVE n <= Size(delivered)
    <2>1. IsFiniteSet(delivered)
      BY <1>1, SizeIs
    <2>2. Cardinality(0 .. (n - 1)) = n
      BY FS_Interval
    <2> QED BY <1>3, <2>1, <2>2, FS_Subset DEF Size
  <1>4. CASE owner = Nobody
    <2>1. repeats + Size(delivered) + Waste <= committed + PaidFor(faults)
      BY <1>4 DEF Balance
    <2>2. committed <= Size(delivered)
      BY <1>1, <1>3 DEF IInv, PastServed
    <2> QED BY <1>1, <1>2, <2>1, <2>2
  <1>5. ASSUME NEW m \in Members, owner = m PROVE repeats <= PaidFor(faults)
    <2> DEFINE u == uncommitted[m]
               d == Need(up, at[m], u)
    <2>1. u \in Nat /\ position[m] = committed + u
      BY <1>1, <1>5 DEF Counted
    <2>2. d \in Nat
      BY <1>1, <2>1, ConsumerAssumption DEF Need, Exposed
    <2>3. Debt(m) = d - u
      BY <1>5 DEF Debt, Account
    <2>4. committed + u <= Size(delivered)
      <3>1. committed + u \in Nat
        BY <1>1, <2>1
      <3> QED BY <1>3, <2>1, <3>1 DEF IInv, PastServed
    <2>5. repeats + Size(delivered) + Waste + (d - u) <= committed + PaidFor(faults)
      BY <1>5, <2>3 DEF Balance
    <2> HIDE DEF u, d
    <2> QED BY <1>1, <1>2, <2>1, <2>2, <2>4, <2>5
  <1> QED BY <1>1, <1>4, <1>5

\* A record is handed over again for faults only, at a commit interval each at most.
THEOREM RepeatsBounded == Spec => []RepeatsPaidFor
  <1> DEFINE BInv == IInv /\ Counted /\ Balance
  <1>1. Init => BInv
    BY InvInit, BalanceInit
  <1>2. BInv /\ [Next]_vars => BInv'
    <2> SUFFICES ASSUME IInv, Counted, Balance, [Next]_vars PROVE IInv' /\ Counted' /\ Balance'
      OBVIOUS
    <2>1. IInv'
      BY TypeStep, PastStep, OwnerStep DEF IInv
    <2>2. Counted'
      BY CountedStep
    <2>3. ASSUME UNCHANGED vars PROVE Balance'
      <3>1. UNCHANGED <<up, owner, at, uncommitted, committed, faults, delivered, repeats>>
        BY <2>3 DEF vars, broker, group, process, reading, history
      <3> QED BY <3>1, BalanceUntouched
    <2>4. ASSUME NEW m \in Members,
                 MemberStep(m) \/ Poll(m) \/ EnsureTopics(m) \/ Assign(m)
                   \/ HeartbeatThrows(m) \/ Stop(m) \/ Crash(m) \/ Expel(m)
          PROVE  Balance'
      BY <2>1, <2>4, MemberBalance
    <2>5. ASSUME GoesDown \/ ComesUp PROVE Balance'
      BY <2>1, <2>5, OutageBalance
    <2>6. ASSUME Produce PROVE Balance'
      <3>1. UNCHANGED <<up, owner, at, uncommitted, committed, faults, delivered, repeats>>
        BY <2>6 DEF Produce, group, process, reading, history
      <3> QED BY <3>1, BalanceUntouched
    <2>7. Balance'
      BY <2>3, <2>4, <2>5, <2>6 DEF Next
    <2> QED BY <2>1, <2>2, <2>7
  <1>3. BInv => RepeatsPaidFor
    BY BalanceSuffices
  <1> QED BY <1>1, <1>2, <1>3, PTL DEF Spec
=============================================================================
