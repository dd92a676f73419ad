---------------------------- MODULE PendingIssue ----------------------------
(***************************************************************************)
(* server-b: the reservations it keeps in Redis, and the three activities  *)
(* that write them, one Redis command per step: CouponIssueAcceptService,  *)
(* PendingIssueScheduler and CouponIssueResultConsumer.                    *)
(*                                                                         *)
(* The activities share one event loop and one Redis connection; every     *)
(* await lets the others run.  Redis is the only store of server-b.  The   *)
(* Kafka topics lose and repeat messages; server-c is reduced to what      *)
(* CouponIssuing promises: one final row per (user, coupon type), and its  *)
(* result announced at least once.                                         *)
(***************************************************************************)
EXTENDS Naturals, FiniteSets

CONSTANTS Pairs,         \* (userId, couponTypeId) pairs
          Calls,         \* calls of accept(), each making its own requestId
          NoCall,        \* stands for "no requestId"
          PairOf,        \* the pair a call is for
          Unpublishable, \* pairs assertIssueRequestPayload refuses, as userId 0
          Sweeps,        \* runs of the scheduler that may be open at a time
          Consumer,      \* the result consumer
          MaxPublishAttempts,  \* SCHEDULER_MAX_PUBLISH_ATTEMPTS
          MaxDeliveryAttempts, \* KAFKA_MAX_DELIVERY_ATTEMPTS
          BatchSize,     \* SCHEDULER_BATCH_SIZE
          MaxFaults,     \* bound: crashes, failed or resent commands, failed
                         \* lookups, repeated messages
          MaxExpiries    \* bound: hashes dropped by their TTL

ASSUME PendingAssumption ==
    /\ Pairs # {}
    /\ IsFiniteSet(Pairs)
    /\ IsFiniteSet(Calls)
    /\ NoCall \notin Calls
    /\ PairOf \in [Calls -> Pairs]
    /\ Unpublishable \subseteq Pairs
    /\ Consumer \notin Sweeps
    /\ MaxPublishAttempts \in Nat \ {0}
    /\ MaxDeliveryAttempts \in Nat \ {0}
    /\ BatchSize \in Nat \ {0}
    /\ MaxFaults \in Nat
    /\ MaxExpiries \in Nat

VARIABLES
    hash,       \* the pending hash of each pair
    zset,       \* its member of issue:pending:zset: younger or older than the cutoff
    sending,    \* requests handed to the producer and not settled
    topic,      \* requests in coupon-issue-request that server-c has not served
    row,        \* server-c's user_coupon status
    result,     \* the coupon-issue-result message of the pair
    call,       \* what each accept() does next, or its answer
    running,    \* the scheduler's re-entrance guard
    step,       \* what a sweep, or the consumer, does next
    scanning,   \* members a sweep has still to read
    batch,      \* the PendingIssue list a sweep works through
    item,       \* the pair, request and attempts in hand
    outcome,    \* the status and code markResult is writing
    tries,      \* the attempt counter of deliver()
    gaveUp,     \* pairs logged and counted as "gave up"
    faults, expiries

redis   == <<hash, zset>>
kafka   == <<sending, topic, result>>
outside == <<kafka, row>>
sweeps  == <<running, scanning, batch>>
hand    == <<item, outcome, tries>>
writers == <<step, hand>>
local   == <<call, sweeps, writers>>
bounds  == <<faults, expiries>>
vars    == <<redis, outside, local, gaveUp, bounds>>
-----------------------------------------------------------------------------
Writers  == Sweeps \union {Consumer}
Terminal == {"SUCCESS", "SOLD_OUT", "FAILED"}
Codes    == {"none", "real", "placeholder"}

\* The fields of a pending hash that matter; attempts = 0 stands for a missing
\* publishAttempts field.  NoHash is HGETALL of a missing key.
Hashes == [user : BOOLEAN, request : Calls \union {NoCall},
           status : Terminal \union {"PENDING", "none"},
           attempts : Nat, code : Codes, ttl : BOOLEAN]
NoHash == [user |-> FALSE, request |-> NoCall, status |-> "none",
           attempts |-> 0, code |-> "none", ttl |-> FALSE]

Items     == [key : Pairs, request : Calls \union {NoCall}, attempts : Nat]
NoItem    == [key |-> CHOOSE k \in Pairs : TRUE, request |-> NoCall, attempts |-> 0]
Outcomes  == [status : Terminal \union {"none"}, code : Codes]
NoOutcome == [status |-> "none", code |-> "none"]

TypeOK ==
    /\ hash \in [Pairs -> Hashes]
    /\ zset \in [Pairs -> {"out", "fresh", "stale"}]
    /\ sending \subseteq Calls /\ topic \subseteq Calls
    /\ row \in [Pairs -> Terminal \union {"none", "USED"}]
    /\ result \in [Pairs -> {"none", "due", "consumed", "skipped"}]
    /\ call \in [Calls -> {"idle", "hset", "expire", "zadd", "publish", "await",
                           "ACCEPTED", "DUPLICATE", "ERROR"}]
    /\ running \in BOOLEAN
    /\ step \in [Writers -> {"idle", "scan", "read", "lookup", "status", "code",
                             "zrem", "count", "zadd", "send"}]
    /\ scanning \in [Sweeps -> SUBSET Pairs]
    /\ batch \in [Sweeps -> SUBSET Items]
    /\ item \in [Writers -> Items]
    /\ outcome \in [Writers -> Outcomes]
    /\ tries \in 1 .. MaxDeliveryAttempts
    /\ gaveUp \subseteq Pairs
    /\ faults \in 0 .. MaxFaults /\ expiries \in 0 .. MaxExpiries

Init ==
    /\ hash = [k \in Pairs |-> NoHash]
    /\ zset = [k \in Pairs |-> "out"]
    /\ sending = {} /\ topic = {}
    /\ row = [k \in Pairs |-> "none"]
    /\ result = [k \in Pairs |-> "none"]
    /\ call = [c \in Calls |-> "idle"]
    /\ running = FALSE
    /\ step = [p \in Writers |-> "idle"]
    /\ scanning = [s \in Sweeps |-> {}]
    /\ batch = [s \in Sweeps |-> {}]
    /\ item = [p \in Writers |-> NoItem]
    /\ outcome = [p \in Writers |-> NoOutcome]
    /\ tries = 1
    /\ gaveUp = {}
    /\ faults = 0 /\ expiries = 0

GoTo(p, next)   == step' = [step EXCEPT ![p] = next]
Answer(c, next) == call' = [call EXCEPT ![c] = next]
Fault == faults < MaxFaults /\ faults' = faults + 1
-----------------------------------------------------------------------------
(* accept(): savePendingIfAbsent, then publish.                            *)

\* Faulty variant: the reservation is looked up, then written.
ReserveUnguarded(c) ==
    /\ call[c] = "idle"
    /\ hash' = [hash EXCEPT ![PairOf[c]].user = TRUE]
    /\ Answer(c, "hset")
    /\ UNCHANGED <<zset, outside, sweeps, writers, gaveUp, bounds>>

\* HSETNX userId: the first call gets the reservation, the others DUPLICATE.
Reserve(c) ==
    /\ call[c] = "idle"
    /\ IF hash[PairOf[c]].user
         THEN Answer(c, "DUPLICATE") /\ UNCHANGED hash
         ELSE /\ hash' = [hash EXCEPT ![PairOf[c]].user = TRUE]
              /\ Answer(c, "hset")
    /\ UNCHANGED <<zset, outside, sweeps, writers, gaveUp, bounds>>

\* The connection breaks before the answer and ioredis sends the HSETNX again
\* (autoResendUnfulfilledCommands): the pair is taken, the call told DUPLICATE.
ReserveTwice(c) ==
    /\ call[c] = "idle"
    /\ ~ hash[PairOf[c]].user
    /\ Fault
    /\ hash' = [hash EXCEPT ![PairOf[c]].user = TRUE]
    /\ Answer(c, "DUPLICATE")
    /\ UNCHANGED <<zset, outside, sweeps, writers, gaveUp, expiries>>

\* HSET of every field but code.
WriteFields(c) ==
    /\ call[c] = "hset"
    /\ hash' = [hash EXCEPT ![PairOf[c]].request = c, ![PairOf[c]].status = "PENDING",
                            ![PairOf[c]].attempts = 1]
    /\ Answer(c, "expire")
    /\ UNCHANGED <<zset, outside, sweeps, writers, gaveUp, bounds>>

SetTtl(c) ==
    /\ call[c] = "expire"
    /\ hash' = [hash EXCEPT ![PairOf[c]].ttl = TRUE]
    /\ Answer(c, "zadd")
    /\ UNCHANGED <<zset, outside, sweeps, writers, gaveUp, bounds>>

Enqueue(c) ==
    /\ call[c] = "zadd"
    /\ zset' = [zset EXCEPT ![PairOf[c]] = "fresh"]
    /\ Answer(c, "publish")
    /\ UNCHANGED <<hash, outside, sweeps, writers, gaveUp, bounds>>

\* assertIssueRequestPayload: an invalid payload never leaves.
Publishable(r) == PairOf[r] \notin Unpublishable

\* The sends the producer has in hand after one more publish().
Published(r) == IF Publishable(r) THEN sending \union {r} ELSE sending

Publish(c) ==
    /\ call[c] = "publish"
    /\ sending' = Published(c)
    /\ Answer(c, "await")
    /\ UNCHANGED <<redis, topic, result, row, sweeps, writers, gaveUp, bounds>>

\* Acknowledged, failed, refused or timed out: ACCEPTED all the same.
Accepted(c) ==
    /\ call[c] = "await"
    /\ Answer(c, "ACCEPTED")
    /\ UNCHANGED <<redis, outside, sweeps, writers, gaveUp, bounds>>

\* A Redis command of accept() fails, or times out having taken effect: 500.
AcceptFails(c) ==
    /\ call[c] \in {"idle", "hset", "expire", "zadd", "publish"}
    /\ Fault
    /\ Answer(c, "ERROR")
    /\ UNCHANGED <<redis, outside, sweeps, writers, gaveUp, expiries>>
-----------------------------------------------------------------------------
(* Kafka and server-c, as far as server-b can tell.                        *)

\* A send reaches the topic, be its caller still waiting or not.
SendArrives(r) ==
    /\ r \in sending
    /\ sending' = sending \ {r}
    /\ topic' = topic \union {r}
    /\ UNCHANGED <<redis, result, row, local, gaveUp, bounds>>

\* The broker stays away; no bound, an outage may last for ever.
SendLost(r) ==
    /\ r \in sending
    /\ sending' = sending \ {r}
    /\ UNCHANGED <<redis, topic, result, row, local, gaveUp, bounds>>

\* server-c concludes the pair, and its outbox announces it.
Serve(r) ==
    /\ r \in topic
    /\ row[PairOf[r]] = "none"
    /\ topic' = topic \ {r}
    /\ \E s \in Terminal : row' = [row EXCEPT ![PairOf[r]] = s]
    /\ result' = [result EXCEPT ![PairOf[r]] = "due"]
    /\ UNCHANGED <<redis, sending, local, gaveUp, bounds>>

\* The pair is concluded already: a record without effect.
ServeAgain(r) ==
    /\ r \in topic
    /\ row[PairOf[r]] # "none"
    /\ topic' = topic \ {r}
    /\ UNCHANGED <<redis, sending, result, row, local, gaveUp, bounds>>

\* server-c skips a record it cannot serve (unknown event, ten failures).
ServeGivesUp(r) ==
    /\ r \in topic
    /\ topic' = topic \ {r}
    /\ UNCHANGED <<redis, sending, result, row, local, gaveUp, bounds>>

\* The poller dies before markPublished, or the consumer before the commit.
Redeliver(k) ==
    /\ result[k] = "consumed"
    /\ Fault
    /\ result' = [result EXCEPT ![k] = "due"]
    /\ UNCHANGED <<redis, sending, topic, row, local, gaveUp, expiries>>

\* The user spends the coupon at server-c.
Redeem(k) ==
    /\ row[k] = "SUCCESS"
    /\ row' = [row EXCEPT ![k] = "USED"]
    /\ UNCHANGED <<redis, kafka, local, gaveUp, bounds>>
-----------------------------------------------------------------------------
(* markResult, by a sweep or by the consumer.                              *)

\* Faulty variant: whatever is not SOLD_OUT or FAILED passes for a success.
MapStatusLenient(s) == IF s = "SOLD_OUT" THEN s ELSE "SUCCESS"

\* server-c's status as server-b stores it.
MapStatus(s) == IF s = "USED" THEN "SUCCESS" ELSE s

\* The internal view of server-c shows the code column whatever the status ...
CodeColumn(s) == IF s \in {"SUCCESS", "USED"} THEN "real" ELSE "placeholder"
\* ... the result message has a couponCode for SUCCESS only.
CouponCode(s) == IF s \in {"SUCCESS", "USED"} THEN "real" ELSE "none"

MarkStatus(p) ==
    /\ step[p] = "status"
    /\ hash' = [hash EXCEPT ![item[p].key].status = outcome[p].status]
    /\ GoTo(p, IF outcome[p].code = "none" THEN "zrem" ELSE "code")
    /\ UNCHANGED <<zset, outside, call, sweeps, hand, gaveUp, bounds>>

\* Faulty variant: the code is dropped.
MarkCodeDropped(p) ==
    /\ step[p] = "code"
    /\ GoTo(p, "zrem")
    /\ UNCHANGED <<redis, outside, call, sweeps, hand, gaveUp, bounds>>

MarkCode(p) ==
    /\ step[p] = "code"
    /\ hash' = [hash EXCEPT ![item[p].key].code = outcome[p].code]
    /\ GoTo(p, "zrem")
    /\ UNCHANGED <<zset, outside, call, sweeps, hand, gaveUp, bounds>>

\* The writer is done with its item.
Release(p) ==
    /\ item' = [item EXCEPT ![p] = NoItem]
    /\ outcome' = [outcome EXCEPT ![p] = NoOutcome]

\* EXPIRE and ZREM, of two keys.
Conclude(p) ==
    /\ step[p] = "zrem"
    /\ hash' = [hash EXCEPT ![item[p].key].ttl = TRUE]
    /\ zset' = [zset EXCEPT ![item[p].key] = "out"]
    /\ Release(p)
-----------------------------------------------------------------------------
(* The scheduler.                                                          *)

\* Faulty variant: no re-entrance guard.
TickUnguarded(s) ==
    /\ step[s] = "idle"
    /\ running' = TRUE
    /\ GoTo(s, "scan")
    /\ UNCHANGED <<redis, outside, call, scanning, batch, hand, gaveUp, bounds>>

\* run(): a tick that finds a sweep open does nothing.
Tick(s) ==
    /\ step[s] = "idle"
    /\ ~ running
    /\ running' = TRUE
    /\ GoTo(s, "scan")
    /\ UNCHANGED <<redis, outside, call, scanning, batch, hand, gaveUp, bounds>>

Stale == {k \in Pairs : zset[k] = "stale"}

\* ZRANGEBYSCORE 0 cutoff LIMIT 0 batchSize; which are the oldest is open.
Scan(s) ==
    /\ step[s] = "scan"
    /\ \E S \in SUBSET Stale :
         /\ Cardinality(S) = IF Cardinality(Stale) < BatchSize
                               THEN Cardinality(Stale) ELSE BatchSize
         /\ scanning' = [scanning EXCEPT ![s] = S]
    /\ GoTo(s, "read")
    /\ UNCHANGED <<redis, outside, call, running, batch, hand, gaveUp, bounds>>

\* A hash with requestId, eventId, status and createdAt.
Complete(k) == hash[k].request # NoCall /\ hash[k].status # "none"

PendingOf(k) ==
    [key |-> k, request |-> hash[k].request,
     attempts |-> IF hash[k].attempts = 0 THEN 1 ELSE hash[k].attempts]

\* Faulty variant: a sweep takes the members it reads out of the zset.
ReadClaims(s, k) ==
    /\ step[s] = "read"
    /\ k \in scanning[s]
    /\ scanning' = [scanning EXCEPT ![s] = @ \ {k}]
    /\ batch' = [batch EXCEPT ![s] = IF Complete(k) THEN @ \union {PendingOf(k)} ELSE @]
    /\ zset' = [zset EXCEPT ![k] = "out"]
    /\ UNCHANGED <<hash, outside, call, running, writers, gaveUp, bounds>>

\* HGETALL of one member.  An empty hash is an orphan: ZREM, which follows on
\* the same connection before any later command of accept().  A hash with a
\* missing field is passed over.  The status is not looked at.
Read(s, k) ==
    /\ step[s] = "read"
    /\ k \in scanning[s]
    /\ scanning' = [scanning EXCEPT ![s] = @ \ {k}]
    /\ batch' = [batch EXCEPT ![s] = IF Complete(k) THEN @ \union {PendingOf(k)} ELSE @]
    /\ zset' = [zset EXCEPT ![k] = IF hash[k] = NoHash THEN "out" ELSE @]
    /\ UNCHANGED <<hash, outside, call, running, writers, gaveUp, bounds>>

ReadAll(s) ==
    /\ step[s] = "read"
    /\ scanning[s] = {}
    /\ GoTo(s, "lookup")
    /\ UNCHANGED <<redis, outside, call, sweeps, hand, gaveUp, bounds>>

\* server-c has a row of the pair: 200, else 404.
Found(k) == row[k] # "none"

\* What findOne's answer leads to: sync, republish, or give up.
NextStep(p) ==
    IF Found(p.key) \/ p.attempts >= MaxPublishAttempts THEN "status" ELSE "count"

\* GET /internal/v1/users/{userId}/coupons/{couponTypeId} for the next item.
LookUp(s, p) ==
    /\ step[s] = "lookup"
    /\ p \in batch[s]
    /\ batch' = [batch EXCEPT ![s] = @ \ {p}]
    /\ item' = [item EXCEPT ![s] = p]
    /\ outcome' = [outcome EXCEPT ![s] =
                     IF Found(p.key)
                       THEN [status |-> MapStatus(row[p.key]),
                             code |-> CodeColumn(row[p.key])]
                       ELSE [status |-> "FAILED", code |-> "none"]]
    /\ GoTo(s, NextStep(p))
    /\ UNCHANGED <<redis, outside, call, running, scanning, tries, gaveUp, bounds>>

\* server-c does not answer: the item is left for the next cycle.
LookupFails(s, p) ==
    /\ step[s] = "lookup"
    /\ p \in batch[s]
    /\ Fault
    /\ batch' = [batch EXCEPT ![s] = @ \ {p}]
    /\ UNCHANGED <<redis, outside, call, running, scanning, writers, gaveUp, expiries>>

\* Faulty variant: the member stays in the zset.
SweepMarkedKept(s) ==
    /\ step[s] = "zrem"
    /\ hash' = [hash EXCEPT ![item[s].key].ttl = TRUE]
    /\ Release(s)
    /\ GoTo(s, "lookup")
    /\ UNCHANGED <<zset, outside, call, sweeps, tries, gaveUp, bounds>>

\* markResult returned; only the give-up branch has written FAILED without a
\* code, and it is counted and logged.
SweepMarked(s) ==
    /\ Conclude(s)
    /\ GoTo(s, "lookup")
    /\ gaveUp' = IF outcome[s].code = "none" THEN gaveUp \union {item[s].key} ELSE gaveUp
    /\ UNCHANGED <<outside, call, sweeps, tries, bounds>>

\* Faulty variant: a payload that cannot be published is not counted.
CountPublishable(s) ==
    /\ step[s] = "count"
    /\ IF item[s].key \in Unpublishable
         THEN UNCHANGED hash
         ELSE hash' = [hash EXCEPT ![item[s].key].attempts = @ + 1]
    /\ GoTo(s, "zadd")
    /\ UNCHANGED <<zset, outside, call, sweeps, hand, gaveUp, bounds>>

\* recordRepublish, before the send: HINCRBY publishAttempts (and the HSET of a
\* field nobody reads, and the EXPIRE of a TTL that is there) ...
Count(s) ==
    /\ step[s] = "count"
    /\ hash' = [hash EXCEPT ![item[s].key].attempts = @ + 1]
    /\ GoTo(s, "zadd")
    /\ UNCHANGED <<zset, outside, call, sweeps, hand, gaveUp, bounds>>

\* The HINCRBY is resent, and counts twice.  (HSETNX and HINCRBY are the only
\* commands of server-b that may not be sent twice without harm.)
CountTwice(s) ==
    /\ step[s] = "count"
    /\ Fault
    /\ hash' = [hash EXCEPT ![item[s].key].attempts = @ + 2]
    /\ GoTo(s, "zadd")
    /\ UNCHANGED <<zset, outside, call, sweeps, hand, gaveUp, expiries>>

\* ... and ZADD, which puts the member back if it is gone.
Postpone(s) ==
    /\ step[s] = "zadd"
    /\ zset' = [zset EXCEPT ![item[s].key] = "fresh"]
    /\ GoTo(s, "send")
    /\ UNCHANGED <<hash, outside, call, sweeps, hand, gaveUp, bounds>>

\* publishForScheduler; its failure and its timeout are swallowed.
SendAgain(s) ==
    /\ step[s] = "send"
    /\ sending' = Published(item[s].request)
    /\ Release(s)
    /\ GoTo(s, "lookup")
    /\ UNCHANGED <<redis, topic, result, row, call, sweeps, tries, gaveUp, bounds>>

\* The sweep is over, by its end or by an exception of findPendingOlderThan.
Closed(s) ==
    /\ running' = FALSE
    /\ GoTo(s, "idle")
    /\ scanning' = [scanning EXCEPT ![s] = {}]
    /\ batch' = [batch EXCEPT ![s] = {}]

SweepEnds(s) ==
    /\ step[s] = "lookup"
    /\ batch[s] = {}
    /\ Closed(s)
    /\ UNCHANGED <<redis, outside, call, hand, gaveUp, bounds>>

ScanFails(s) ==
    /\ step[s] \in {"scan", "read"}
    /\ Fault
    /\ Closed(s)
    /\ UNCHANGED <<redis, outside, call, hand, gaveUp, expiries>>

\* A Redis command of markResult or recordRepublish fails: the next item.
ItemFails(s) ==
    /\ step[s] \in {"status", "code", "zrem", "count", "zadd"}
    /\ Fault
    /\ Release(s)
    /\ GoTo(s, "lookup")
    /\ UNCHANGED <<redis, outside, call, sweeps, tries, gaveUp, expiries>>
-----------------------------------------------------------------------------
(* The result consumer: deliver() of one message at a time.                *)
Consume(k) ==
    /\ step[Consumer] = "idle"
    /\ result[k] = "due"
    /\ item' = [item EXCEPT ![Consumer] = [NoItem EXCEPT !.key = k]]
    /\ outcome' = [outcome EXCEPT ![Consumer] =
                     [status |-> MapStatus(row[k]), code |-> CouponCode(row[k])]]
    /\ GoTo(Consumer, "status")
    /\ UNCHANGED <<redis, outside, call, sweeps, tries, gaveUp, bounds>>

\* deliver() returned: the offset is committed.
Settle(how) ==
    /\ result' = [result EXCEPT ![item[Consumer].key] = how]
    /\ GoTo(Consumer, "idle")
    /\ tries' = 1

Consumed ==
    /\ Conclude(Consumer)
    /\ Settle("consumed")
    /\ UNCHANGED <<sending, topic, row, call, sweeps, gaveUp, bounds>>

\* Faulty variant: the last attempt is counted wrong.
ConsumeFailsOffByOne ==
    /\ step[Consumer] \in {"status", "code", "zrem"}
    /\ Fault
    /\ tries <= MaxDeliveryAttempts
    /\ tries' = tries + 1
    /\ GoTo(Consumer, "status")
    /\ UNCHANGED <<redis, outside, call, sweeps, item, outcome, gaveUp, expiries>>

\* markResult failed: once more from its first command, or skip the record.
ConsumeFails ==
    /\ step[Consumer] \in {"status", "code", "zrem"}
    /\ Fault
    /\ \/ /\ tries < MaxDeliveryAttempts
          /\ tries' = tries + 1
          /\ GoTo(Consumer, "status")
          /\ UNCHANGED <<result, item, outcome>>
       \/ /\ tries = MaxDeliveryAttempts
          /\ Settle("skipped")
          /\ Release(Consumer)
    /\ UNCHANGED <<redis, sending, topic, row, call, sweeps, gaveUp, expiries>>
-----------------------------------------------------------------------------
(* The process, the clock and the TTL.                                     *)

\* server-b dies and starts again: what is in Redis and Kafka stays.
Crash ==
    /\ Fault
    /\ call' = [c \in Calls |-> IF call[c] \in {"idle", "ACCEPTED", "DUPLICATE"}
                                  THEN call[c] ELSE "ERROR"]
    /\ running' = FALSE
    /\ step' = [p \in Writers |-> "idle"]
    /\ scanning' = [s \in Sweeps |-> {}]
    /\ batch' = [s \in Sweeps |-> {}]
    /\ item' = [p \in Writers |-> NoItem]
    /\ outcome' = [p \in Writers |-> NoOutcome]
    /\ tries' = 1
    /\ UNCHANGED <<redis, outside, gaveUp, expiries>>

\* The member's score falls behind now - cutoff: 10 s, more than what is left
\* of accept() or of republish() after its ZADD (3 s and 500 ms at most).
Age(k) ==
    /\ zset[k] = "fresh"
    /\ \A c \in Calls : PairOf[c] = k => call[c] \notin {"publish", "await"}
    /\ \A s \in Sweeps : step[s] = "send" => item[s].key # k
    /\ zset' = [zset EXCEPT ![k] = "stale"]
    /\ UNCHANGED <<hash, outside, local, gaveUp, bounds>>

\* Who holds data of a pair, read or written within the last minutes: a call
\* that has reserved it, a sweep that has scanned it, whoever writes it.
Holding(c) == call[c] \in {"hset", "expire", "zadd", "publish", "await"}
Working(p) == step[p] \notin {"idle", "scan", "read", "lookup"}
Held(s, k) ==
    \/ k \in scanning[s]
    \/ \E p \in batch[s] : p.key = k
    \/ Working(s) /\ item[s].key = k
Busy(k) ==
    \/ \E c \in Calls : PairOf[c] = k /\ Holding(c)
    \/ \E s \in Sweeps : Held(s, k)
    \/ Working(Consumer) /\ item[Consumer].key = k

\* 24 hours without a write of the hash.
Expire(k) ==
    /\ hash[k].ttl
    /\ ~ Busy(k)
    /\ expiries < MaxExpiries
    /\ expiries' = expiries + 1
    /\ hash' = [hash EXCEPT ![k] = NoHash]
    /\ UNCHANGED <<zset, outside, local, gaveUp, faults>>

AcceptStep(c) ==
    Reserve(c) \/ WriteFields(c) \/ SetTtl(c) \/ Enqueue(c) \/ Publish(c) \/ Accepted(c)

SweepStep(s) ==
    \/ Scan(s) \/ ReadAll(s) \/ SweepMarked(s) \/ Count(s) \/ Postpone(s)
    \/ SendAgain(s) \/ SweepEnds(s) \/ MarkStatus(s) \/ MarkCode(s)
    \/ \E k \in Pairs : Read(s, k)
    \/ \E p \in batch[s] : LookUp(s, p)

ConsumerStep ==
    \/ MarkStatus(Consumer) \/ MarkCode(Consumer) \/ Consumed
    \/ \E k \in Pairs : Consume(k)

Environment ==
    \/ \E r \in Calls : SendArrives(r) \/ SendLost(r) \/ ServeAgain(r) \/ ServeGivesUp(r)
    \/ \E k \in Pairs : Redeliver(k) \/ Age(k) \/ Expire(k)

Failure ==
    \/ \E c \in Calls : AcceptFails(c) \/ ReserveTwice(c)
    \/ \E s \in Sweeps : ScanFails(s) \/ ItemFails(s) \/ CountTwice(s)
    \/ \E s \in Sweeps : \E p \in batch[s] : LookupFails(s, p)
    \/ ConsumeFails
    \/ Crash

\* Whatever leaves server-c's rows alone, and what concludes or spends one.
Outside ==
    \/ \E c \in Calls : AcceptStep(c)
    \/ \E s \in Sweeps : Tick(s) \/ SweepStep(s)
    \/ ConsumerStep \/ Environment \/ Failure

ServerC == \/ \E r \in Calls : Serve(r)
           \/ \E k \in Pairs : Redeem(k)

Next == Outside \/ ServerC

Spec == Init /\ [][Next]_vars

\* The event loop runs every accept() on that it started, the interval ticks and
\* an open sweep goes on (one condition, as no tick opens a sweep while another
\* is open), and time passes. Nothing is assumed of Kafka, of
\* server-c and its results, of the result consumer, or of the users.
Fairness ==
    /\ WF_vars(\E c \in Calls : call[c] # "idle" /\ AcceptStep(c))
    /\ WF_vars(\E s \in Sweeps : Tick(s) \/ SweepStep(s))
    /\ WF_vars(\E k \in Pairs : Age(k))

FairSpec == Spec /\ Fairness
-----------------------------------------------------------------------------
Concluded(k) == hash[k].status \in Terminal

\* How far a call has come, as Reservation sees it.
AnswerOf(c) == IF Holding(c) THEN "holding" ELSE call[c]

R == INSTANCE Reservation WITH
         taken     <- {k \in Pairs : hash[k].user},
         tracked   <- {k \in Pairs : zset[k] # "out"},
         shown     <- [k \in Pairs |-> hash[k].status],
         truth     <- row,
         answer    <- [c \in Calls |-> AnswerOf(c)],
         forgotten <- expiries > 0

(* The Redis commands, in any interleaving, implement the promise: one     *)
(* holder per pair, no ACCEPTED and no ZREM before the pair is tracked or  *)
(* concluded, and no result shown that server-c has not committed.         *)
ImplementsReservation == R!Spec

(* Redis never tells a user of a result server-c has not committed: a      *)
(* SUCCESS or SOLD_OUT in the hash is the row's, whoever wrote it when.    *)
ResultTruthful ==
    \A k \in Pairs :
       /\ hash[k].status = "SUCCESS" => row[k] \in {"SUCCESS", "USED"}
       /\ hash[k].status = "SOLD_OUT" => row[k] = "SOLD_OUT"

(* A SUCCESS the scheduler will not look at again has its coupon code,     *)
(* unless the message that carries it is still due or was skipped.         *)
SuccessCarriesCode ==
    \A k \in Pairs : hash[k].status = "SUCCESS" /\ zset[k] = "out" =>
                       hash[k].code = "real" \/ result[k] \in {"due", "skipped"}

(* ACCEPTED commits server-b to a conclusion: the reservation is concluded *)
(* or in the zset, where the scheduler finds it, whatever it interleaves   *)
(* with, and through crashes.  Only in the first life of a reservation:    *)
(* after an expiry, the ZREM for a late repetition of the earlier life's   *)
(* result can hit the member of the new one.                               *)
AcceptedIsTracked ==
    \A c \in Calls : call[c] = "ACCEPTED" /\ expiries = 0 =>
                        Concluded(PairOf[c]) \/ zset[PairOf[c]] # "out"

(* At most one call per pair is ACCEPTED in the life of a reservation.     *)
AcceptedOnce ==
    \A k \in Pairs :
       Cardinality({c \in Calls : PairOf[c] = k /\ call[c] = "ACCEPTED"}) <= 1 + expiries

(* A request is published at most MaxPublishAttempts times: the counter    *)
(* the scheduler read before its awaits has not been overtaken.  A resent  *)
(* HINCRBY, however many there are, may put the counter one too high.      *)
RepublishCapped ==
    \A k \in Pairs :
       hash[k].attempts <= MaxPublishAttempts + (IF faults = 0 THEN 0 ELSE 1)

(* Every ACCEPTED request is concluded, even if Kafka is down for good and *)
(* server-c never serves it: the republish counter converges.  Said of all *)
(* of them at once: again and again, no request that holds its reservation *)
(* and was ACCEPTED is still open.                                         *)
AcceptedConcludes ==
    []<>(\A c \in Calls : call[c] = "ACCEPTED" /\ hash[PairOf[c]].request = c
                             => Concluded(PairOf[c]))

(* The scheduler's work list empties for good: a member that a republish   *)
(* put back after its conclusion is taken out again.                       *)
SweepDrains == <>[](\A k \in Pairs : zset[k] = "out")

(* A reservation is always on its way or recoverable: once a pair is taken *)
(* and no call is filling it in, it is concluded or in the zset.  (The     *)
(* store's comment calls the non-atomic HSETNX, HSET, ZADD harmless.)      *)
ReservationRecoverable ==
    \A k \in Pairs :
       hash[k].user /\ (\A c \in Calls : PairOf[c] = k =>
                          call[c] \notin {"hset", "expire", "zadd"})
          => Concluded(k) \/ zset[k] # "out"

(* A pair the scheduler gave up has not been issued a coupon.  (The docs   *)
(* read the give_up counter as "concluded in time, not issued".)           *)
GaveUpMeansNotIssued == \A k \in gaveUp : row[k] \notin {"SUCCESS", "USED"}
=============================================================================
