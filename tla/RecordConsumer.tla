--------------------------- MODULE RecordConsumer ---------------------------
(***************************************************************************)
(* How a partition is consumed: CouponIssueRequestConsumer of server-c and *)
(* CouponIssueResultConsumer of server-b, the same code but for topic,     *)
(* group, throttle and commit threshold, over the kafkajs consumer.        *)
(*                                                                         *)
(* A member of the group is a server process.  It fetches a batch from its *)
(* position, hands over a few records of it, commits as it goes, and       *)
(* learns only from a heartbeat or a refused commit that the broker has    *)
(* expelled it, while another member may be serving the same records.      *)
(* What deliver() makes of a record is in IssueProcessor and PendingIssue. *)
(***************************************************************************)
EXTENDS Naturals, FiniteSets

CONSTANTS Members,
          Nobody,
          MaxRecordsPerBatch, \* KAFKA_MAX_POLL_RECORDS
          CommitThreshold,    \* KAFKA_COMMIT_THRESHOLD
          MaxRecords,         \* bound: records in the partition
          MaxFaults,          \* bound: crashes, expulsions, failed requests, outages
          MaxStops            \* bound: orderly shutdowns

ASSUME ConsumerAssumption ==
    /\ IsFiniteSet(Members) /\ Nobody \notin Members
    /\ MaxRecordsPerBatch \in Nat \ {0}
    /\ CommitThreshold \in Nat \ {0}
    /\ MaxRecords \in Nat /\ MaxFaults \in Nat /\ MaxStops \in Nat

VARIABLES
    \* the broker
    up,          \* it answers
    topic,       \* the topic has been created
    end,         \* the records are 0 .. end - 1
    committed,   \* the group's committed offset
    owner,       \* the member the partition is assigned to
    \* a member
    at,          \* what it does next
    admin,       \* ensureTopics has still to run
    stopping,    \* onApplicationShutdown has been called
    position,    \* the offset after the last one resolved
    last,        \* the offset after its batch
    processed,   \* records handed over out of the batch
    uncommitted, \* records resolved since its last commit
    \* history
    delivered,   \* records that have been handed over
    repeats,     \* records handed over that had been already
    faults, stops

broker  == <<up, topic, end>>
group   == <<committed, owner>>
process == <<at, admin, stopping>>
reading == <<position, last, processed, uncommitted>>
history == <<delivered, repeats>>
vars    == <<broker, group, process, reading, history, faults, stops>>
-----------------------------------------------------------------------------
Stages == {"down", "starting", "backoff", "joining", "spare", "fetch", "loop",
           "commit", "beat", "ended", "failed"}

TypeOK ==
    /\ up \in BOOLEAN /\ topic \in BOOLEAN
    /\ end \in 0 .. MaxRecords
    /\ committed \in 0 .. end
    /\ owner \in Members \union {Nobody}
    /\ at \in [Members -> Stages]
    /\ admin \in [Members -> BOOLEAN]
    /\ stopping \in [Members -> BOOLEAN]
    /\ position \in [Members -> 0 .. end]
    /\ last \in [Members -> 0 .. end]
    /\ processed \in [Members -> 0 .. MaxRecordsPerBatch]
    /\ uncommitted \in [Members -> Nat]
    /\ delivered \subseteq 0 .. (end - 1)
    /\ repeats \in Nat
    /\ faults \in 0 .. MaxFaults /\ stops \in 0 .. MaxStops

Init ==
    /\ up = TRUE /\ topic = FALSE
    /\ end = 0 /\ committed = 0 /\ owner = Nobody
    /\ at = [m \in Members |-> "down"]
    /\ admin = [m \in Members |-> FALSE]
    /\ stopping = [m \in Members |-> FALSE]
    /\ position = [m \in Members |-> 0]
    /\ last = [m \in Members |-> 0]
    /\ processed = [m \in Members |-> 0]
    /\ uncommitted = [m \in Members |-> 0]
    /\ delivered = {} /\ repeats = 0
    /\ faults = 0 /\ stops = 0

GoTo(m, next) == at' = [at EXCEPT ![m] = next]
Fault == faults < MaxFaults /\ faults' = faults + 1

\* What a member knew of the partition is gone.
Forget(m) ==
    /\ position' = [position EXCEPT ![m] = 0]
    /\ uncommitted' = [uncommitted EXCEPT ![m] = 0]

\* The batch and the count are eachBatch's own.
Return(m) ==
    /\ last' = [last EXCEPT ![m] = 0]
    /\ processed' = [processed EXCEPT ![m] = 0]

\* The partition is taken from the member, if it has it.
Disown(m) == owner' = IF owner = m THEN Nobody ELSE owner
-----------------------------------------------------------------------------
(* The start of a process.                                                 *)

\* onModuleInit: ensureTopics and startWithRetry, neither awaited.
Boot(m) ==
    /\ at[m] = "down"
    /\ GoTo(m, "starting")
    /\ admin' = [admin EXCEPT ![m] = TRUE]
    /\ stopping' = [stopping EXCEPT ![m] = FALSE]
    /\ UNCHANGED <<broker, group, reading, history, faults, stops>>

\* ensureTopics: one attempt in the life of the process, whatever comes of it.
EnsureTopics(m) ==
    /\ admin[m]
    /\ admin' = [admin EXCEPT ![m] = FALSE]
    /\ topic' = (topic \/ up)
    /\ UNCHANGED <<up, end, group, at, stopping, reading, history, faults, stops>>

\* start(): connect, subscribe and run, or an exception.
Start(m) ==
    /\ at[m] = "starting"
    /\ ~ stopping[m]
    /\ GoTo(m, IF up /\ topic THEN "joining" ELSE "backoff")
    /\ UNCHANGED <<broker, group, admin, stopping, reading, history, faults, stops>>

\* Faulty variant: a failed start is the end of it.
StartAgainNot(m) == at[m] = "backoff" /\ UNCHANGED vars

\* The pause of startWithRetry is over.
StartAgain(m) ==
    /\ at[m] = "backoff"
    /\ GoTo(m, "starting")
    /\ UNCHANGED <<broker, group, admin, stopping, reading, history, faults, stops>>

\* Faulty variant: fromBeginning is left at its default.
AssignFromLatest(m) ==
    /\ up
    /\ owner = Nobody
    /\ at[m] \in {"joining", "spare"}
    /\ owner' = m
    /\ at' = [n \in Members |-> CASE n = m -> "fetch"
                                  [] n # m /\ at[n] = "joining" -> "spare"
                                  [] OTHER -> at[n]]
    /\ position' = [position EXCEPT ![m] = IF committed = 0 THEN end ELSE committed]
    /\ UNCHANGED <<broker, committed, admin, stopping, last, processed, uncommitted,
                   history, faults, stops>>

\* The group is balanced: the partition goes to one of the members present,
\* who resumes where the group has committed.
Assign(m) ==
    /\ up
    /\ owner = Nobody
    /\ at[m] \in {"joining", "spare"}
    /\ owner' = m
    /\ at' = [n \in Members |-> CASE n = m -> "fetch"
                                  [] n # m /\ at[n] = "joining" -> "spare"
                                  [] OTHER -> at[n]]
    /\ position' = [position EXCEPT ![m] = committed]
    /\ UNCHANGED <<broker, committed, admin, stopping, last, processed, uncommitted,
                   history, faults, stops>>
-----------------------------------------------------------------------------
(* eachBatch.                                                              *)

\* A batch is as many records from the position on as fit in its bytes.
Fetch(m) ==
    /\ at[m] = "fetch"
    /\ up
    /\ ~ stopping[m]
    /\ \E n \in position[m] + 1 .. end : last' = [last EXCEPT ![m] = n]
    /\ GoTo(m, "loop")
    /\ UNCHANGED <<broker, group, admin, stopping, position, processed, uncommitted,
                   history, faults, stops>>

\* Nothing to fetch: kafkajs asks again.
Poll(m) ==
    /\ at[m] = "fetch"
    /\ owner = m
    /\ position[m] = end
    /\ UNCHANGED vars

\* Faulty variant: no throttle.
MoreUnthrottled(m) == ~ stopping[m] /\ position[m] < last[m]

\* The loop's break conditions are all false.
More(m) ==
    /\ ~ stopping[m]
    /\ processed[m] < MaxRecordsPerBatch
    /\ position[m] < last[m]

\* deliver() returns, be the record served, skipped or given up, and its offset
\* is resolved.
Deliver(m) ==
    /\ at[m] = "loop"
    /\ More(m)
    /\ repeats' = IF position[m] \in delivered THEN repeats + 1 ELSE repeats
    /\ delivered' = delivered \union {position[m]}
    /\ position' = [position EXCEPT ![m] = @ + 1]
    /\ uncommitted' = [uncommitted EXCEPT ![m] = @ + 1]
    /\ processed' = [processed EXCEPT ![m] = @ + 1]
    /\ GoTo(m, "commit")
    /\ UNCHANGED <<broker, group, admin, stopping, last, faults, stops>>

\* Faulty variant: autoCommit is off, and commitOffsetsIfNecessary() a no-op.
CommitNot(m) ==
    /\ up /\ owner = m
    /\ uncommitted' = [uncommitted EXCEPT ![m] = 0]
    /\ UNCHANGED committed

\* The broker takes the member's position for the group's.
Commit(m) ==
    /\ up /\ owner = m
    /\ committed' = position[m]
    /\ uncommitted' = [uncommitted EXCEPT ![m] = 0]

\* The request is refused, as the member has been expelled, or fails.
CommitFails(m) ==
    \/ owner # m /\ UNCHANGED faults
    \/ ~ up /\ UNCHANGED faults
    \/ Fault

\* commitOffsetsIfNecessary.
CommitIfNecessary(m) ==
    /\ at[m] = "commit"
    /\ IF uncommitted[m] < CommitThreshold
         THEN UNCHANGED <<committed, uncommitted>>
         ELSE Commit(m)
    /\ GoTo(m, "beat")
    /\ UNCHANGED <<broker, owner, admin, stopping, position, last, processed, history,
                   faults, stops>>

CommitThrows(m) ==
    /\ at[m] = "commit"
    /\ uncommitted[m] >= CommitThreshold
    /\ CommitFails(m)
    /\ GoTo(m, "failed")
    /\ Return(m)
    /\ UNCHANGED <<broker, group, admin, stopping, position, uncommitted, history, stops>>

\* heartbeat(): not due yet, or answered.
Heartbeat(m) ==
    /\ at[m] = "beat"
    /\ GoTo(m, "loop")
    /\ UNCHANGED <<broker, group, admin, stopping, reading, history, faults, stops>>

\* The answer is that the member is unknown, or that another wants to join.
HeartbeatThrows(m) ==
    /\ at[m] \in {"beat", "fetch"}
    /\ up
    /\ owner # m \/ \E n \in Members : at[n] = "joining"
    /\ GoTo(m, "failed")
    /\ Return(m)
    /\ UNCHANGED <<broker, group, admin, stopping, position, uncommitted, history,
                   faults, stops>>

\* Faulty variant: eachBatchAutoResolve is left at its default.
LoopEndsResolved(m) ==
    /\ at[m] = "loop"
    /\ ~ More(m)
    /\ position' = [position EXCEPT ![m] = last[m]]
    /\ GoTo(m, "ended")
    /\ Return(m)
    /\ UNCHANGED <<broker, group, admin, stopping, uncommitted, history, faults, stops>>

\* eachBatch returns; what it has left of the batch is fetched again.
LoopEnds(m) ==
    /\ at[m] = "loop"
    /\ ~ More(m)
    /\ GoTo(m, "ended")
    /\ Return(m)
    /\ UNCHANGED <<broker, group, admin, stopping, position, uncommitted, history,
                   faults, stops>>

\* kafkajs commits what has been resolved after a batch, and goes on.
BatchEnds(m) ==
    /\ at[m] = "ended"
    /\ Commit(m)
    /\ GoTo(m, "fetch")
    /\ UNCHANGED <<broker, owner, admin, stopping, position, last, processed, history,
                   faults, stops>>

BatchEndThrows(m) ==
    /\ at[m] = "ended"
    /\ CommitFails(m)
    /\ GoTo(m, "failed")
    /\ UNCHANGED <<broker, group, admin, stopping, reading, history, stops>>

\* eachBatch threw: kafkajs commits what has been resolved, if it can, and then
\* joins the group again, or goes on from its position if the member is in it.
Recover(m) ==
    /\ at[m] = "failed"
    /\ IF up /\ owner = m THEN committed' = position[m] ELSE UNCHANGED committed
    /\ \/ /\ GoTo(m, "joining")
          /\ Disown(m)
          /\ Forget(m)
       \/ /\ owner = m
          /\ ~ \E n \in Members : at[n] = "joining"
          /\ GoTo(m, "fetch")
          /\ uncommitted' = [uncommitted EXCEPT ![m] = IF up THEN 0 ELSE @]
          /\ UNCHANGED <<owner, position>>
    /\ UNCHANGED <<broker, admin, stopping, last, processed, history, faults, stops>>
-----------------------------------------------------------------------------
(* The end of a process, the broker, and the producers.                    *)

\* onApplicationShutdown; a batch in hand breaks off after its record.
Stop(m) ==
    /\ at[m] # "down"
    /\ ~ stopping[m]
    /\ stops < MaxStops
    /\ stops' = stops + 1
    /\ stopping' = [stopping EXCEPT ![m] = TRUE]
    /\ UNCHANGED <<broker, group, at, admin, reading, history, faults>>

Gone(m) ==
    /\ GoTo(m, "down")
    /\ admin' = [admin EXCEPT ![m] = FALSE]
    /\ stopping' = [stopping EXCEPT ![m] = FALSE]
    /\ Disown(m)
    /\ Forget(m)
    /\ Return(m)

\* disconnect(), once no batch is open.
Leave(m) ==
    /\ stopping[m]
    /\ at[m] \in {"starting", "backoff", "joining", "spare", "fetch"}
    /\ Gone(m)
    /\ UNCHANGED <<broker, committed, history, faults, stops>>

Crash(m) ==
    /\ at[m] # "down"
    /\ Fault
    /\ Gone(m)
    /\ UNCHANGED <<broker, committed, history, stops>>

\* No heartbeat for 45 s: deliver() waits for a lock, or tries ten times.
Expel(m) ==
    /\ owner = m
    /\ at[m] \in {"loop", "commit"}
    /\ Fault
    /\ owner' = Nobody
    /\ UNCHANGED <<broker, committed, process, reading, history, stops>>

GoesDown ==
    /\ up
    /\ Fault
    /\ up' = FALSE
    /\ UNCHANGED <<topic, end, group, process, reading, history, stops>>

ComesUp ==
    /\ ~ up
    /\ up' = TRUE
    /\ UNCHANGED <<topic, end, group, process, reading, history, faults, stops>>

Produce ==
    /\ up /\ topic
    /\ end < MaxRecords
    /\ end' = end + 1
    /\ UNCHANGED <<up, topic, group, process, reading, history, faults, stops>>

MemberStep(m) ==
    \/ Boot(m) \/ Start(m) \/ StartAgain(m)
    \/ Fetch(m) \/ Deliver(m) \/ CommitIfNecessary(m) \/ CommitThrows(m)
    \/ Heartbeat(m) \/ LoopEnds(m) \/ BatchEnds(m) \/ BatchEndThrows(m)
    \/ Recover(m) \/ Leave(m)

Next ==
    \/ \E m \in Members :
         \/ MemberStep(m) \/ Poll(m) \/ EnsureTopics(m) \/ Assign(m) \/ HeartbeatThrows(m)
         \/ Stop(m) \/ Crash(m) \/ Expel(m)
    \/ GoesDown \/ ComesUp \/ Produce

Spec == Init /\ [][Next]_vars

\* Every process goes on, or is started again; an outage ends; the coordinator
\* assigns the partition and lets nobody unknown heartbeat for ever.
FairSpec ==
    /\ Spec
    /\ \A m \in Members : WF_vars(MemberStep(m)) /\ WF_vars(HeartbeatThrows(m))
    /\ WF_vars(\E m \in Members : Assign(m))
    /\ WF_vars(ComesUp)
-----------------------------------------------------------------------------
(* The group has committed no record that was not handed over: neither the *)
(* throttle, nor a batch cut short, nor a member that is no longer in the  *)
(* group makes it skip one.                                                *)
NothingSkipped == \A n \in 0 .. (MaxRecords - 1) : n < committed => n \in delivered

(* A record is handed over again for a fault only: each costs a commit     *)
(* interval at most, and an orderly shutdown or a rebalance costs nothing. *)
RepeatsPaidFor == repeats <= CommitThreshold * faults

(* Deliveries are in order and the committed offset never goes back.       *)
Delivery == INSTANCE RecordDelivery
ImplementsRecordDelivery == Delivery!Spec

(* Every record in the topic is handed over in the end, if the broker was  *)
(* away when the processes started, and whichever member dies when.        *)
EveryRecordDelivered == \A n \in 0 .. (MaxRecords - 1) : n < end ~> n \in delivered
=============================================================================
