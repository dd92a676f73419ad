# Formal model of coupon-nestjs

coupon-nestjs issues a limited number of coupons, first come first served, to a
crowd that asks all at once. It is three NestJS processes, each with a store of
its own, that talk over HTTP and Kafka and share no transaction. What it must
get right is easy to say (never a coupon too many, never two for one user, every
accepted request concluded, the user told the truth) and hard to test, because
every one of these depends on the order in which processes, retries, timers and
crashes interleave. This directory states those properties in TLA+, checks them
with TLC on small instances and proves the most important ones for all
instances with TLAPS.

Paths below are relative to the repository (`src/` of the checkout).

## 1. Inventory

### The parts, their state and how they interact

| part | code | state it keeps | operations |
|---|---|---|---|
| **server-a** gateway (:8080) | `apps/server-a` | audit row per request (MySQL-A); circuit breaker in memory | `IssueRequestService.issue`: read the sold-out key, else call server-b (1 s timeout, one retry inside a count-based circuit breaker), map the status, save the audit row |
| **server-b** accept (:8081) | `coupon-issue-accept.service.ts`, `redis-pending-issue.store.ts` | a Redis hash per (user, coupon type), 24 h TTL; one zset of unconcluded members | `accept`: HSETNX, HSET, EXPIRE, ZADD, publish, ACCEPTED or DUPLICATE |
| **server-b** scheduler | `pending-issue.scheduler.ts` | `running` flag, and the list it works through | every few seconds: read overdue members, ask server-c for each, then sync, republish or give up |
| **server-b** result consumer | `coupon-issue-result.consumer.ts` | offset in `coupon-issue-result` | `deliver`: up to ten attempts of `markResult`, then skip |
| Kafka | both `kafka.module.ts`, publishers | topics `coupon-issue-request`, `coupon-issue-result` | send with timeout, redelivery, rebalance |
| consumption of both topics | `coupon-issue-request.consumer.ts`, `coupon-issue-result.consumer.ts`, both `kafka.module.ts` | `stopped`; position and committed offset of a partition | make the topics once, start until it works, `eachBatch` with throttle, commit and heartbeat, shut down |
| **server-c** processor (:8082) | `coupon-issue.processor.ts`, `deliver` of the consumer, repositories | MySQL-C: `user_coupon` (unique per user and type, unique code), `coupon_type_inventory`, `outbox_event`; Redis: the sold-out key | `deliver` and `process`: one transaction per record, then the availability check outside it |
| **server-c** outbox poller | `outbox.poller.ts` | `running` flag; `outbox_event.status` | every 500 ms: read a batch, publish each, mark the published ones |
| **server-c** redemption | `redeem-coupon.service.ts` | `used_at`, `version` of `user_coupon` | `redeem`: find, check the owner, replay or conditional UPDATE |
| **server-c** event cache | `event-cache.refresher.ts`, `event-query.service.ts`, `event-cache.store.ts` | Redis copies of `event` rows, with a TTL; `running` flag | refresh at boot and on a timer; cache-aside read |
| **server-c** queries | `user-coupon-query.service.ts` | none | the lookup the scheduler uses |

A request runs `server-a -> HTTP -> server-b accept -> Kafka -> server-c
processor -> outbox -> poller -> Kafka -> server-b consumer`; the scheduler goes
round the middle of it when nothing is heard (HTTP lookup at server-c, or
another publication), and the sold-out key goes back from server-c's Redis to
server-a. There is no shared transaction: each arrow may be lost, repeated or
late, and each process may die between any two `await`s.

### Behaviours that are hard, and the property that makes each part correct

* **Processor.** Several workers (rebalance, replicas, configured concurrency)
  may process the same record or the same user at once; a statement may fail; a
  COMMIT may take effect unanswered; a worker may die. Correct if stock and
  coupons issued always add up, each row is announced exactly once with its
  status, "sold out" is said of an empty stock only (a restock leaves the key
  behind, which the documents accept), no record is dropped without a row unless
  it was given up, and poison records hold nothing up.
* **Reservations.** Three activities on one event loop write the same hash and
  zset, one Redis command at a time; the sequence in `accept` is not atomic, the
  sweep uses what it read awaits ago, the result may come before, during or after
  it, and the Redis client may send a command twice. Correct if Redis never claims a result server-c does not have, a SUCCESS
  carries its code, an accepted request is tracked until concluded, at most one
  call is accepted, the republish cap holds, and everything is concluded at last
  even with Kafka down.
* **Redemption.** Calls of the same owner race, answers are lost. Correct if one
  call wins, replays report the first time of use, a loser always has a winner.
* **Outbox.** The publish and the UPDATE are two steps; cycles could overlap;
  transactions commit out of `created_at` order. Correct if nothing is lost or
  invented, a duplicate always comes from a fault, and each event gets out.
* **Gateway.** The retry after a timeout meets the reservation of the first
  attempt; the breaker counts slow answers as failures, and answers arrive that
  were asked for before it opened; the audit row may fail to be saved after the
  request was accepted. Correct if no answer claims a reservation that does not
  exist, an open breaker spares server-b, it closes again once server-b is well, and nobody
  waits for ever.
* **Consumption.** A batch is cut short by the throttle, a shutdown or a
  rebalance; a member is expelled while `deliver` waits, and learns of it from a
  refused commit or heartbeat; the broker or the topic may be missing at the start. Correct
  if no record is skipped, records come in order, a repetition always comes from
  a fault and costs one commit interval at most, and every record is handed over.
* **Event cache.** A reader can put back an event that the refresher has
  replaced meanwhile, and the refresher one that has ended since its query; a
  cycle may outlast its interval or fail. Correct if what is shown is stale for a bounded
  time and a running event's entry is always renewed before its TTL.
* **The three together.** server-a turns users away by a key of server-c while
  requests are under way in server-b and Kafka. Correct if what the users are told adds
  up to the one stock.

`PROJECT.json` lists each hazard at its line with the properties that cover it.

## 2. Modules

| module | what it is |
|---|---|
| `IssuingData` | users, coupon types, requests, rows: the data shared by the two below |
| `CouponIssuing` | abstract specification of server-c: a request is concluded in one indivisible step |
| `IssueProcessor` | the processor, statement by statement, with the `deliver` loop; implements `CouponIssuing` |
| `RecordDelivery` | abstract specification of a partition's consumption: in order, at least once |
| `RecordConsumer` | the consumers of both servers over kafkajs; implements `RecordDelivery` |
| `Reservation` | abstract specification of server-b: who holds a pair, what is tracked, what is shown |
| `PendingIssue` | server-b: accept, scheduler, result consumer, command by command; implements `Reservation` |
| `CouponSystem` | server-a's short cut, `PendingIssue` and `CouponIssuing` composed |
| `OutboxPoller` | the poller and the transactions that feed it |
| `Redeem` | `redeem()` statement by statement |
| `IssueGateway` | server-a: the issue request, with retry, timeout and circuit breaker |
| `EventCache` | the event cache: readers, refresher, TTL |
| `MC...` | the small instances for TLC |
| `CouponIssuingProofs`, `IssueProcessorProofs`, `RedeemProofs`, `OutboxPollerProofs`, `IssueGatewayProofs`, `EventCacheProofs`, `RecordConsumerProofs`, `PendingIssueProofs` | theorems and proofs (those about `CouponSystem` are the last part of `PendingIssueProofs`) |

Definitions named "Faulty variant" in a comment are not part of any `Next`: they
are plausible bugs of the definition that follows them, kept to show that each
property notices one.

### CouponIssuing and IssueProcessor

`coupon`, `available`, `total`, `outbox` and `soldOutKey` are the committed
`user_coupon` rows, the two counts of the inventory row, the results recorded in
`outbox_event`, and the existence of the Redis key. `IssueProcessor` adds, per worker, a program
counter with one value per statement (`exists`, `event`, `lock`, `decrement`,
`insert`, `outbox`, `commit`, then `freshRead`, `markSoldOut` outside the
transaction, and `ack`), the entity it has read, its write set `tx`, and the
inventory row lock.

* InnoDB at REPEATABLE READ: `FindForUpdate` waits for the lock and reads the
  committed count; `InsertRow` waits while another open transaction holds the same
  unique key (`RowPending`) and conflicts once it is committed; writes become
  visible at `ApplyWrites`; `EndTransaction` drops locks and write set.
* `Decrement` writes an **absolute** count computed from the entity, as the
  repository's UPDATE does; `CountIsCurrent` is the reason this is safe.
* `InsertDuplicate` is the unique violation on (user, coupon type): rollback, and
  `process` returns normally. `InsertSamePlaceholder` is the case in which a SOLD_OUT or
  FAILED row of the same request also violates the unique code; which of the two the server
  names is its choice, and the other one is an ordinary error.
* `StatementFails`, `CommitUnanswered`, `CacheFails` and `Crash` are the faults;
  `Rejected` is the end of an attempt in `deliver`.
* The clock (`phase`) moves at any time between the two ends of the event's
  period, and the 24 h TTL of the key, or an operator, may drop it at any time.
* `Restock` is an administrator's UPDATE of the inventory row. Nothing in `src/`
  does it, but `coupon-availability.cache.ts:12-14` and
  `docs/reports/cache.md:102,112` speak of it, so it is an external action: it
  waits for the row lock, adds to both counts, and leaves rows and key alone.
  `overtaken` keeps the workers that have read 0 and not yet set the key when it
  happens; it is a history variable that no action reads.
* InnoDB's shared duplicate-check lock is not represented: when a transaction rolls
  back, two that wait for its key are both granted it and deadlock, and the server ends one
  with an error. That outcome is `StatementFails`.

The two-step order `DECREMENT` then `INSERT`, the rollback on a duplicate, and the
check after COMMIT by a fresh read are the design under test. `Abs ==
INSTANCE CouponIssuing` maps the five variables by name; the intermediate states
of a transaction are stuttering steps, COMMIT is `Issue`, `RefuseSoldOut` or
`RefuseInactive`.

### PendingIssue

`hash` keeps the fields the code branches on; `zset` says whether the pair is a
member, and whether its score is younger or older than the cutoff. `call` is the
next command of each `accept`, `step` that of a sweep or of the consumer
(`markResult` is shared by both, as in the code). Every Redis command is a
step of its own since each is awaited. Kafka is two sets: a send may be
lost, may arrive after its caller timed out, and a result may be repeated.
A command that fails may have taken effect or not. ioredis (with the default
`autoResendUnfulfilledCommands`, `redis.module.ts:25-35`) may also send a command again
whose answer a broken connection has lost: harmless for all commands of server-b but two,
which are `ReserveTwice`, an HSETNX that meets its own reservation and is answered
DUPLICATE, and `CountTwice`, an HINCRBY that counts one republication twice.
server-c is what `CouponIssuing` promises of it: one final row per pair,
announced at least once. `Age` waits for an `accept` or a republication that is
past its ZADD because the code bounds these (3 s and 500 ms) below the
cutoff (10 s). `Expire` is the 24 h TTL, and does not hit a pair whose data somebody
holds at that moment.

`R == INSTANCE Reservation` sees of this which pairs are taken, which are in the
zset, the status each shows, server-c's row, and how far each call is. A pair
is taken by HSETNX, opened by HSET, tracked by ZADD (of `accept` or of
`recordRepublish`), shown by the status command of `markResult` and untracked by its
ZREM. `Confirm`, which is ACCEPTED, requires the pair to be tracked or concluded, and `Show` a
SUCCESS or SOLD_OUT to be server-c's: these are the promises the code has to earn. FAILED
is server-b's own verdict, as `pending_give_up` shows.

### CouponSystem

The requests of two pairs run through all three servers, and another user's takes
a coupon in server-c (`DecideOther`; a refusal of it would change nothing that is
followed here). `TurnAway` is server-a's short cut, read before
anything reaches server-b; `Decide` serves a record of the topic in
`PendingIssue` and in `CouponIssuing` in one step, with the same row; `Hint` is
the key coming and going, and `Restock` the administrator, who leaves it alone. server-b's other steps (`Outside`) leave server-c alone. The
interval between server-c's COMMIT and the result message is inside
`PendingIssue` (`result` = "due"), redemption is left to `Redeem`.

### RecordDelivery and RecordConsumer

The two consumers are one piece of code but for topic, group, throttle and
commit threshold, which are constants here. A member is a server process; one partition is
followed (the code keeps no state across partitions, and a message's key
fixes its partition). `position` is the offset after the last one resolved, `last` the end of the
fetched batch, `processed` the throttle's counter, `committed` the group's
offset at the broker, `owner` the member the coordinator has assigned. `at` follows
start, backoff, joining, fetch, the loop of `eachBatch` (deliver and resolve; commit; heartbeat)
and what kafkajs does after it. What kafkajs does is external and taken from how it is configured:
`autoCommit` with a threshold, a commit of what is resolved after a batch and after
an exception, no auto-resolve, `fromBeginning`. A repetition is counted in
`repeats` and a fault in `faults`, so that `RepeatsPaidFor` can relate them.
`EnsureTopics` runs once in the life of a process, whatever comes of it.

### EventCache

An event is its status (the only field the code branches on here). Time is
counted in refresh intervals: `life` is what an entry has left, `held` how long a
reader or a cycle has been under way, `replaced` how long ago the event left
each status, `steady` how long neither the event has changed nor
anything failed. A hit changes nothing; a miss (also Redis' failure, and a malformed entry) leads to the
row, and to a put that may come after anybody else's. `Begin` is the guard, of the first
cycle at bootstrap as of the timer's. Expiry happens at the TTL or up to a
unit later, since entries are put between ticks.

### OutboxPoller

`older` is the order of `created_at`, which is set at the INSERT; rows become
visible at COMMIT, in another order. `running` is the flag of the class, `todo` and
`published` the batch and the ids collected: all of one server-c process. `PublishUnanswered` is a send
the brokers took although the client saw it fail.

### Redeem

`pc` follows find, owner check, UPDATE with `version` in the WHERE, COMMIT.
An UPDATE waits for the row lock of an open one. A call's answer is kept in
`answer`, so that the properties can relate what different calls were told.

### IssueGateway

A slot of `Slots` is a request in flight; `pc` follows it from the sold-out key
through the breaker's admission, the POST, perhaps a backoff and a second POST, to the
audit row. `post` is its outstanding POST or the answer on its way back. server-b is reduced
to `reserved`, as `accept` in `PendingIssue` has it: the first POST of a pair reserves it. A POST
that server-a has timed out stays in `late` and is served whenever server-b comes to it.
`ServeBadly` answers an error, an empty body, or the DUPLICATE of an HSETNX that server-b's
Redis client has sent twice (`ReserveTwice`): each counts as a fault.

The breaker is the cockatiel library's, modelled from how the client configures
it (external): `closed`, `open`, `halfOpen`, a window of the last `Size`
outcomes, open when at least `MinimumCalls` are in it and more than half are
failures, one trial after `halfOpenAfter` while the other requests wait for its end. The retry
is inside the breaker, so both attempts are one outcome, and a second attempt is sent even
if the breaker has opened since. An answer slower than the threshold is
returned to the user and counted as a failure (`ReceiveSlow`).

## 3. What the runs check

| run | instance | shows |
|---|---|---|
| `processor_race` | 2 workers, 2 users, 3 records (one user under two requestIds), 1 coupon left and 1 more by a restock, 2 attempts, 1 crash | types; stock conserved, the duplicate INSERT rolled back; each row announced once; "sold out" said of an empty stock; no silent loss; the implementation of `CouponIssuing` |
| `processor_poison` | 2 workers, 1 good and 2 poison records, 2 attempts, 1 crash, fairness | every record is acknowledged, poison or not, through failed attempts, lock waits and a crash |
| `record_consumer` | 2 members, 3 records, batches throttled to 2, commit threshold 2, 2 faults, 1 shutdown, fairness | nothing skipped, repetitions paid for, the implementation of `RecordDelivery`; every record is handed over |
| `pending_race` | 1 pair asked for twice, 2 sweep slots, 2 faults (resent commands among them), 1 expiry | the safety properties of server-b and the implementation of `Reservation` |
| `system` | 2 pairs (one never publishable) and a rival for 1 coupon, 1 more by a restock, batches of 1, 2 publications, 1 fault, fairness | what users are told adds up; every accepted request is concluded; the work list drains |
| `event_cache` | 1 event, 1 reader, TTL of 4 intervals, requests and cycles of up to 1, 2 faults, fairness | bounded staleness, refresh ahead of the TTL, running events stay cached |
| `pending_orphan` | 1 pair, 1 fault | **violated**: a reservation nothing finds again (section 6) |
| `pending_give_up` | 1 pair, no fault | **violated**: a pair given up that is issued a coupon (section 6) |
| `redeem` | 4 calls, 3 by the owner | safety, the frozen first use, and an answer for everybody |
| `outbox` | 3 events, batch of 2, 1 refused, 2 faults, fairness | safety, and every event that can be sent is announced |
| `gateway` | 2 requests in flight, 1 pair, window of 2, 1 retry, 3 faults, fairness | no untrue answer, an open breaker spares server-b and closes again, every request is answered |
| `gateway_duplicate` | 1 request at a time, 1 fault, no error answer | **violated**: a DUPLICATE for a user who was never told ACCEPTED (section 6) |

**Why the bounds are enough to be interesting.** Races need two actors on
one row: two workers, two calls, two sweeps. Boundary cases need the last
coupon: a stock of 1, and a second one, by a restock (`MaxTotal` bounds them), where a wasted
decrement or a stale key must be visible; one user's two requestIds and redelivery give
`processor_race` the duplicate INSERT after a decrement. Its workers are interchangeable and
only safety is checked there, so symmetry is sound. `processor_poison` has a crash
but no restock, which liveness does not depend on. A breaker
window of two is the smallest in which one failure does not open it and two do, and three
faults open it by the two attempts of one request and one slow answer, or by
two slow answers with one fault to spare for the trial or the audit row. One
retry (two attempts) separates "try again" from "give up". A batch smaller than
the set of members makes starvation possible. A crash bound of one already
lets a crash fall between any two steps, and a second fault of another kind hits the recovery. In
`record_consumer` a throttle of 2 under 3 records cuts a batch short, and a threshold
of 2 leaves a resolved record uncommitted. `event_cache` has one event and one
reader, since events share nothing but the refresher's guard and readers nothing but the
entry; its TTL of 4 units is the smallest that the assumption `Ttl > 2 * MaxHold + 1` allows for cycles of one
unit (deployed: 300 s and 60 s). `system` allows one delivery attempt for a result and no expiry, which
`pending_race` has; its second pair is refused by the publisher, so that the
republish counter is what must conclude it. The
proofs remove these bounds for the modules they cover.

Deadlock is checked in every run: `Drained` in `IssueProcessor` and `Answered` in
`Redeem` mark the states in which the program has nothing to do; in `RecordConsumer` an empty
fetch is repeated (`Poll`), and the timers and users of the other modules never stop.

### Fairness

* *Processor:* a worker runs its next statement, a free worker is given a
  record (event loop, broker). None for faults, clock or TTL. A fault can
  happen any number of times, but each costs an attempt, and attempts are counted.
* *server-b:* calls of `accept` go on, the interval ticks and an open sweep goes on
  (one condition, as a tick and an open sweep exclude each other), time passes. **Nothing**
  is assumed of Kafka, server-c or even the result consumer: `AcceptedConcludes` holds with Kafka down for
  good. It is stated of all requests at once, as `[]<>` of "none is open": a conclusion is final in
  the instance (no expiry), so this is what leads-to says of each, and one temporal
  formula for TLC instead of one per call. Failed lookups are bounded by `MaxFaults`; while server-c does not answer the
  code really does postpone the conclusion.
* *Outbox:* the interval fires and cycles run on. The SELECT and the
  publishing of an event that is not refused have strong fairness: an
  operation that is tried again and again works at last, i.e. its failures are
  transient. As many refused events as `BatchSize` would starve the rest; the instance has fewer.
* *Redeem:* each call runs its next statement.
* *Consumption:* every process goes on, or is started again; an outage ends; the
  coordinator assigns the partition and tells a member it does not know so.
  Nothing makes a process create the topic: the property speaks of records that are there.
* *Event cache:* the process comes up, its timer fires, awaits end within
  `MaxHold` units, Redis drops what has expired, time passes. Readers may never come,
  and `MaxFaults` lets the faults end.
* *Gateway:* users keep asking, the event loop and its timers run (each POST has
  a timeout), and server-b answers unless a fault prevents it. `BreakerRecovers`
  needs the faults to end, which `MaxFaults` states, and somebody who asks.

## 4. What is proved

For **every** finite set of users, requests, workers, records, calls, events and every
value of the bounds:

* `CouponIssuingProofs` (abstract): `TypeCorrect`, `Conserved`, `RecordedOnce`,
  `Truthful`. Stock conservation needs the finiteness of the set of users,
  because it counts; adding one user to the issued ones adds one to the
  cardinality.
* `IssueProcessorProofs`: `TypeCorrect`, `Invariance` (`IInv`), `Refinement`
  (`Spec => Abs!Spec`), and from it, through the abstract theorems,
  `StockConserved`, `ResultsRecordedOnce`; directly `SoldOutOnlyWhenGone` (an action property: a
  row becomes SOLD_OUT, and the key appears, at count 0, save for a worker a restock overtook
  between its read and its SET), `FinalRows`, `NoLoss`, `CurrentCount`.
  The safety properties are not inductive by themselves. `IInv` adds what makes them so: whoever
  has passed `SELECT ... FOR UPDATE` holds the lock and its entity equals
  the committed count (`LockInv`); its write set is what the statements so far
  wrote (`WriteInv`); two open transactions never hold the same unique key
  (`UniqueInv`); what was read of committed state still stands when acted on
  (`AfterInv`: rows are final, and a count of 0 stays 0 until a restock). Given `IInv`, each COMMIT is one
  abstract step and all else stutters.
  *Deadlock.* `NoOrphanedLock`: a held row lock belongs to an open transaction on that
  row (`LocksInv`). `NoWaitCycle`: who waits, for the lock or for an uncommitted unique
  key, waits for transactions past the statement it waits at, since `process` takes
  the lock before it inserts (of the locks modelled; InnoDB's duplicate-check deadlock, above,
  ends as a failed statement). `NobodyWaitsInVain`: therefore somebody runs, however many
  wait.
* `RedeemProofs`: `TypeCorrect`, `Invariance`, `OneWinner`, `ReplaysAgree`,
  `LosersHaveWinner`, `FirstUseStays`, `NoOrphanedLock`. The invariant says that a row spent points
  to the call that spent it, which is done, and that only the holder of the lock
  has an uncommitted write.
* `OutboxPollerProofs`: `TypeCorrect`, `Invariance`, `NothingLost`,
  `NothingInvented`, `DuplicatesPaidFor`. The invariant says that one cycle runs
  at a time under the flag, that what it holds is committed and still PENDING, and that an
  uncollected PENDING row has at most as many copies as there were faults.
  `PollerNeverLockedOut`: the flag is up exactly while a cycle is open, by whatever
  exception or crash cycles end.
* `IssueGatewayProofs`: `TypeCorrect`, `Invariance`, `TruthfulAnswers`,
  `OpenSpares`. The invariant says when a POST can be out, how many attempts are
  used at each step, and that an answer on its way is true already, since a
  reservation is never taken back. `TrialIsUnderWay`: a request that waits in the
  half-open breaker waits for another one, the trial, which is on the wire or in its
  backoff, although a request let in earlier may fail meanwhile, open the breaker
  again and start another trial; `TrialInv` ties the half-open state to one admitted
  probe. `DuplicatesExplained`: see below.
* `EventCacheProofs`: `EventCacheInvariant`, `TypeCorrect`, `StalenessIsBounded`,
  `RefreshIsAhead`. The invariant bounds the age of what each holder has read by
  how long it has held it, and the age of an entry by its remaining life plus the age
  it was put with; for the refresh, that in steady times the entry's life is never less than the cycle
  under way or the timer still needs.
* `RecordConsumerProofs`: `ConsumerInvariant`, `TypeCorrect`, `NoneSkipped`,
  `DeliveryImplemented` (`Spec => Delivery!Spec`), `RepeatsBounded`. The invariant says that everything before a member's
  position, and before the committed offset, has been handed over, and that the
  owner's position is not behind the committed offset: an expelled member's may
  be, which is why its commit must be refused. For `RepeatsPaidFor` it is joined by a
  balance: what has been handed over beyond the committed offset, and what every
  expelled member and an owner in an outage may yet lose, is kept within
  `CommitThreshold` for each fault so far (`Balance`). One lemma moves the sum over the
  members when one of them steps (`UnitsMove`), and each action then only
  has to answer for its own member's account (`MemberBalance`).
* `PendingIssueProofs`: `PendingInvariant`, `TypeCorrect`, `Truthful`, `CodeCarried`,
  `Capped`, `Tracked`, `OneAccepted`, `ReservationImplemented` (`Spec => R!Spec`): every safety
  property the runs check of server-b. The invariant has one part for each hazard.
  *The cap:* one sweep is open, holds a pair once, and the counter it has read is not behind the one in
  Redis (`SweepInv`); `RepublishCapped` allows one more than the cap once a command may have been
  resent, since the counter may then be one too high, and never more, since a counter at the cap
  is not incremented again. *Truth:* who writes a result writes the row's, and rows do not go back
  (`OutcomeInv`). *The code:* a member that goes while a sweep holds it went with its
  code (`HeldInv`), the consumer writes the code before it takes the member out
  (`CarryInv`), and a sweep that gives up a pair already shown as SUCCESS leaves the
  code there or a message due (`GiveUpInv`). *The promise:* in its first life a
  pair has one holder (`HolderInv`), nobody else knows of it before its fields are
  written (`UntouchedInv`), and its status is there before its member is taken out
  (`MarkedInv`), hence `PromiseInv`. *One call:* each life of a pair
  has one holder, which a count bounds (`HoldersBounded`).
  *Whose request:* `OneRequestPerPair`, that no second requestId of a pair is ever in its
  hash, in Kafka or in the hands of a sweep before a TTL ends its first life. Every requestId found
  anywhere is of a call that got past its HSET (`EntitledInv`), and in a first life it is the
  hash's (`RequestInv`). `SchedulerNeverLockedOut`: the flag of the scheduler is up exactly
  while a sweep is open.
* `PendingIssueProofs`, of `CouponSystem`: a step of the system is a step, or a stutter, of server-b
  and one of `CouponIssuing`, so the theorems about both hold of the composition:
  `IssuingKept` (`SystemSpec => C!Spec`) and `ReservationKept`. `LinkInv` says what neither
  has: the rows server-b asks for are the rows of server-c, and users were turned away
  only for a type whose stock is gone or was added to later (`SystemInvariant`). From stock conservation, from
  `ResultTruthful` and from this follows `AnswersAgree`, by a comparison of the set of users
  shown SUCCESS with the set of issued rows. `RowInv` and `EntitledInv` give
  `NoCouponForTheRefused` (a request answered SOLD_OUT by the short cut, or DUPLICATE, never
  becomes the request of a row), and with `RequestInv` and the abstract theorem
  `RecordedOnce` also `AcceptedDecidedOnce`: in a first life the requestId that was ACCEPTED
  is the one server-c decides under, and it is announced once.

**The true halves of refuted claims.** Three statements of the repository's comments and
documents are violated in runs (section 6). What remains of two of them is
proved: `OnlyFailuresStrand`, a reservation of a first life is off the work list unconcluded
only if an `accept()` of the pair failed, died, or was answered DUPLICATE by its own resent
HSETNX (no sweep, result or other call causes it); `DuplicatesExplained`, a DUPLICATE without an ACCEPTED takes a fault, or another
request of the user which is about to be ACCEPTED. Of the third, `GaveUpMeansNotIssued`,
no weaker form is stated: FAILED is server-b's own verdict, and `ResultTruthful` speaks of
SUCCESS and SOLD_OUT only.

The assumptions are the named `ASSUME`s of the modules (`IssuingAssumption`,
`ProcessorAssumption`, `RedeemAssumption`, `OutboxAssumption`, `GatewayAssumption`,
`EventCacheAssumption`, `ConsumerAssumption`, `PendingAssumption`, `SystemAssumption`), which TLC evaluates in every run: positive limits, functions with
the right domains, a special value outside its set, finite sets where something is counted.

Some invariants and action properties are proved and not run any more, as a
run of the same module checks something stronger: `CountIsCurrent`,
`RowsAreFinal`, `FirstUseIsFinal`, `OnlyCommittedSent`, the statements about locks, waits,
guards, trials and requestIds above, and the `IInv`s. TLC had checked each of them before it was
proved. It also compared the two definitions of waiting with the models: in every state of
the instance of `processor_race`, a worker in the middle of a record satisfies `Waits` exactly when
its `Process(w)` is not enabled, and in that of `gateway` a request satisfies `WaitsForTrial`
exactly when neither its own step nor server-b's for it is.

**Only model-checked:** no safety property of a passing run; every liveness property (`EveryRecordConcludes`,
`EveryRecordDelivered`, `AcceptedConcludes`, `SweepDrains`, `EveryEventAnnounced`,
`EveryCallAnswered`, `BreakerRecovers`, `EveryRequestAnswered`,
`ActiveEventsStayCached`), since fairness and ENABLED are beyond the proof
system. The theorems about locks, waits, trials and guards are the part of liveness that
is safety: for any number of actors there is always one that can move.

## 5. Not modelled, and why

* Of the gateway: metrics of the breaker's state, and that the audit log lacks an
  accepted request when its INSERT fails (the step is modelled, nothing promises otherwise).
* Several partitions of a topic at once: the consumers keep nothing across them, and the
  workers of `IssueProcessor` already run side by side.
* The list query of a user's own coupons: one read of committed rows.
* Several instances of server-b: the scheduler's comment excludes them.
* Several pollers. The `running` flag is a field of the class (`outbox.poller.ts:34`), and
  `docs/reports/runtime.md` scales out by replicating containers: with several of server-c each polls
  the same PENDING rows and sends copies without any fault, so `CopiesBounded` is a statement about one
  process. The consumer of the results repeats `markResult` without harm (`Redeliver`).
  Workers of several server-c processes are in `IssueProcessor`.
* What an operator should do after a restock. The stale key is modelled, and so is its deletion;
  that users are turned away until then, for up to 24 h, is what `docs/reports/cache.md:112` and
  `coupon-availability.cache.ts:12-14` say, and no property promises otherwise: `SoldOutTruthful` says when
  "sold out" may begin to be said, `AnswersAddUp` speaks of the short cut of types that were not restocked.
* Validation of DTOs and payloads, error filters, views, health, metrics,
  bootstrap, configuration: stateless or I/O only. That a payload can be
  impossible to publish or serve is in (`Unpublishable`, `UnknownEvent`).
* Coupon codes: their only behaviour that matters is that a real one differs from a
  placeholder and placeholders of one request collide.
* Time is what it decides: inside or outside the event's period, before or after the cutoff.

## 6. Disagreements met

* **`pending_orphan`.** After HSETNX the reservation exists; until ZADD no
  sweep can find it. A crash, or one failed command, in between leaves it for ever
  (after HSETNX alone even without a TTL), and each retry of the user is answered DUPLICATE.
  An HSETNX that ioredis sends twice does the same at once.
  The store's comment and `docs/reports/consistency.md` call the
  sequence harmless although not atomic.
* **`pending_give_up`.** When the lookup finds no row and the attempts are used
  up, FAILED is written, the member removed and `give_up` counted; the
  request may still be in the topic, and server-c issues the coupon afterwards (its result then
  overwrites FAILED). `docs/reports/consistency.md` reads the counter as "concluded, not issued".
* **`gateway_duplicate`.** server-a gives a POST up after 1 s and repeats it,
  while `accept` reserves first and may then wait 3 s for Kafka. The repetition finds the
  reservation and the user reads DUPLICATE without ever having read ACCEPTED.
  `docs/reports/consistency.md` (line 137) gives the avoidance of exactly that
  ambiguity as the reason why `accept` swallows a failed publish; the run needs no 5xx.

`AcceptedIsTracked` is stated for the first life of a reservation: after the
24 h TTL, a late repetition of the old result would remove the zset member of
the new one, because the message does not say which life it belongs to.

## 7. Plan

Done, in this order: processor and its abstract specification (the core),
server-b's reservations, redemption, outbox, gateway, event cache, consumption,
the abstract `Reservation`, the composition; the proofs of every component and of
the composition: every safety property that a passing run checks is a theorem.

Left:

1. `CouponSystem` with an expiry, and with `IssueGateway` in the place of the
   short cut: its state space needs a coarser server-b, for which `Reservation`
   is the candidate.
2. A composition of `IssueProcessor`, `OutboxPoller` and the result consumer, so that "a
   result is due until it was delivered", which `PendingIssue` takes from the outbox, is
   a theorem about the modules and not an argument.
