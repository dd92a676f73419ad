--------------------------- MODULE IssueProcessor ---------------------------
(***************************************************************************)
(* server-c: CouponIssueProcessor.process, one SQL statement per step, and *)
(* the deliver() loop of the request consumer around it.                   *)
(*                                                                         *)
(* A worker is one run of deliver().  The consumer runs one at a time, but *)
(* a rebalance, a second replica or KAFKA_CONSUMER_CONCURRENCY > 1 gives   *)
(* several, and they may hold the same record; nothing but the database    *)
(* keeps them apart.  The database is InnoDB at REPEATABLE READ: a locking *)
(* read sees the committed row and waits for its lock, an INSERT waits for *)
(* an uncommitted row with the same unique key, a transaction's writes are *)
(* visible to the others when it commits, and a worker that dies loses its *)
(* open transaction.  An administrator may add to the stock at any time.   *)
(***************************************************************************)
EXTENDS IssuingData, Integers

CONSTANTS Workers,      \* concurrent runs of deliver()
          NoWorker,     \* an inventory row nobody has locked
          Records,      \* Kafka records of coupon-issue-request
          NoRecord,     \* a worker with nothing to deliver
          RequestOf,    \* the request a record carries (republishing: not 1-1)
          UnknownEvent, \* requests whose event_id has no row
          UnknownType,  \* requests whose event has no such coupon type
          MaxAttempts,  \* KAFKA_MAX_DELIVERY_ATTEMPTS
          MaxCrashes    \* bound: worker crashes per behaviour

ASSUME ProcessorAssumption ==
    /\ NoWorker \notin Workers
    /\ NoRecord \notin Records
    /\ RequestOf \in [Records -> Requests]
    /\ UnknownEvent \subseteq Requests
    /\ UnknownType \subseteq Requests
    /\ MaxAttempts \in Nat \ {0}
    /\ MaxCrashes \in Nat

VARIABLES
    \* committed state of MySQL-C, and Redis
    coupon,       \* user_coupon, by (user_id, coupon_type_id)
    available,    \* coupon_type_inventory.available_count
    total,        \* coupon_type_inventory.total_inventory
    outbox,       \* outbox_event payload statuses, by aggregate_id = requestId
    soldOutKey,   \* whether coupon-available:{event}:{type} exists in Redis
    lock,         \* holder of the exclusive lock on the inventory row
    phase,        \* where the clock stands against [started_at, ended_at]
    \* the topic
    acked,        \* records whose offset has been resolved
    skipped,      \* records given up after MaxAttempts
    \* one worker
    pc,           \* the statement it executes next
    job,          \* the record it delivers
    attempt,      \* the attempt counter of deliver()
    decided,      \* the status its transaction chose
    inventory,    \* available_count of the entity findForUpdate returned
    tx,           \* what its open transaction has written
    \* kept by the model only
    overtaken,    \* workers about to SET the key after a restock they have not seen
    crashes       \* crashes so far, bounded by MaxCrashes

store   == <<coupon, available, total, outbox, soldOutKey>>
worker  == <<pc, job, attempt, decided, inventory, tx>>
history == <<overtaken, crashes>>
vars    == <<store, lock, phase, acked, skipped, worker, history>>
-----------------------------------------------------------------------------
\* An open transaction's write set: the new available_count (Unwritten if it
\* has not run the UPDATE), the status of the row and of the outbox event.
Unwritten == -1
NoWrites  == [count |-> Unwritten, row |-> "none", event |-> "none"]

InTransaction ==
    {"exists", "event", "lock", "decrement", "insert", "outbox", "commit"}
Steps == InTransaction \union {"idle", "freshRead", "markSoldOut", "ack"}

TypeOK ==
    /\ coupon \in [Keys -> Rows \union {NoRow}]
    /\ available \in [Types -> Nat]
    /\ total \in [Types -> Nat]
    /\ outbox \in [Requests -> Seq(Statuses)]
    /\ soldOutKey \in [Types -> BOOLEAN]
    /\ lock \in [Types -> Workers \union {NoWorker}]
    /\ phase \in [Types -> {"before", "active", "ended"}]
    /\ acked \subseteq Records
    /\ skipped \subseteq Records
    /\ pc \in [Workers -> Steps]
    /\ job \in [Workers -> Records \union {NoRecord}]
    /\ attempt \in [Workers -> 1 .. MaxAttempts]
    /\ decided \in [Workers -> Statuses \union {"none"}]
    /\ inventory \in [Workers -> Nat]
    /\ tx \in [Workers -> [count : Nat \union {Unwritten},
                           row : Statuses \union {"none"},
                           event : Statuses \union {"none"}]]
    /\ overtaken \subseteq Workers
    /\ crashes \in 0 .. MaxCrashes

Init ==
    /\ coupon = [k \in Keys |-> NoRow]
    /\ available = Total
    /\ total = Total
    /\ outbox = [r \in Requests |-> << >>]
    /\ soldOutKey = [t \in Types |-> FALSE]
    /\ lock = [t \in Types |-> NoWorker]
    /\ phase \in [Types -> {"before", "active"}]
    /\ acked = {}
    /\ skipped = {}
    /\ pc = [w \in Workers |-> "idle"]
    /\ job = [w \in Workers |-> NoRecord]
    /\ attempt = [w \in Workers |-> 1]
    /\ decided = [w \in Workers |-> "none"]
    /\ inventory = [w \in Workers |-> 0]
    /\ tx = [w \in Workers |-> NoWrites]
    /\ overtaken = {}
    /\ crashes = 0
-----------------------------------------------------------------------------
Req(w)  == RequestOf[job[w]]
Key(w)  == KeyOf(Req(w))
Type(w) == TypeOf[Req(w)]

HasRow(k) == coupon[k].status # "none"

\* The end of a transaction, either way: the locks go, and with them the write
\* set and the callback's locals.
Released(w) == [t \in Types |-> IF lock[t] = w THEN NoWorker ELSE lock[t]]
EndTransaction(w) ==
    /\ lock' = Released(w)
    /\ tx' = [tx EXCEPT ![w] = NoWrites]
    /\ decided' = [decided EXCEPT ![w] = "none"]
    /\ inventory' = [inventory EXCEPT ![w] = 0]

\* Faulty variant: the last attempt is counted wrong.
RejectedOffByOne(w) ==
    /\ attempt' = [attempt EXCEPT ![w] = @ + 1]
    /\ pc' = [pc EXCEPT ![w] = "exists"]
    /\ UNCHANGED skipped

\* Faulty variant: no limit on attempts.
RejectedForEver(w) ==
    /\ pc' = [pc EXCEPT ![w] = "exists"]
    /\ UNCHANGED <<skipped, attempt>>

\* process() rejected: another attempt, or the record is given up.
Rejected(w) ==
    \/ /\ attempt[w] < MaxAttempts
       /\ attempt' = [attempt EXCEPT ![w] = @ + 1]
       /\ pc' = [pc EXCEPT ![w] = "exists"]
       /\ UNCHANGED skipped
    \/ /\ attempt[w] = MaxAttempts
       /\ pc' = [pc EXCEPT ![w] = "ack"]
       /\ skipped' = skipped \union {job[w]}
       /\ UNCHANGED attempt

\* An exception leaves the transaction callback: rollback, then rejection.
Throw(w) ==
    /\ EndTransaction(w)
    /\ Rejected(w)
    /\ UNCHANGED <<store, phase, acked, job, history>>

\* A statement that only moves the worker on.
GoTo(w, step) == pc' = [pc EXCEPT ![w] = step]
-----------------------------------------------------------------------------
\* Faulty variant: the offset is resolved before process() has run.
DeliverResolved(w, m) ==
    /\ pc[w] = "idle"
    /\ m \notin acked
    /\ acked' = acked \union {m}
    /\ job' = [job EXCEPT ![w] = m]
    /\ GoTo(w, "exists")
    /\ UNCHANGED <<store, lock, phase, skipped, attempt, decided, inventory, tx,
                   history>>

\* A record that is not acknowledged is (re)delivered.
Deliver(w, m) ==
    /\ pc[w] = "idle"
    /\ m \notin acked
    /\ job' = [job EXCEPT ![w] = m]
    /\ GoTo(w, "exists")
    /\ UNCHANGED <<store, lock, phase, acked, skipped, attempt, decided,
                   inventory, tx, history>>

\* Faulty variant: a request that finds a row is answered with an event too.
CheckExistsAndAnnounce(w) ==
    /\ pc[w] = "exists"
    /\ GoTo(w, IF HasRow(Key(w)) THEN "ack" ELSE "event")
    /\ outbox' = IF HasRow(Key(w))
                   THEN [outbox EXCEPT ![Req(w)] = Append(@, coupon[Key(w)].status)]
                   ELSE outbox
    /\ UNCHANGED <<coupon, available, total, soldOutKey, lock, phase, acked, skipped,
                   job, attempt, decided, inventory, tx, history>>

\* existsByUserIdAndCouponTypeId: a row ends the transaction with nothing done.
CheckExists(w) ==
    /\ pc[w] = "exists"
    /\ GoTo(w, IF HasRow(Key(w)) THEN "ack" ELSE "event")
    /\ UNCHANGED <<store, lock, phase, acked, skipped, job, attempt, decided,
                   inventory, tx, history>>

\* event.findById and isActive(now).
CheckEvent(w) ==
    /\ pc[w] = "event"
    /\ Req(w) \notin UnknownEvent
    /\ IF phase[Type(w)] = "active"
         THEN /\ GoTo(w, "lock")
              /\ UNCHANGED decided
         ELSE /\ decided' = [decided EXCEPT ![w] = "FAILED"]
              /\ GoTo(w, "insert")
    /\ UNCHANGED <<store, lock, phase, acked, skipped, job, attempt, inventory,
                   tx, history>>

\* event.findById returned null: the callback throws.
EventNotFound(w) ==
    /\ pc[w] = "event"
    /\ Req(w) \in UnknownEvent
    /\ Throw(w)

\* Faulty variant: the read runs on another connection and locks nothing.
FindUnlocked(w) ==
    /\ pc[w] = "lock"
    /\ inventory' = [inventory EXCEPT ![w] = available[Type(w)]]
    /\ GoTo(w, "decrement")
    /\ UNCHANGED <<store, lock, phase, acked, skipped, job, attempt, decided, tx,
                   history>>

\* SELECT ... FOR UPDATE: waits for the row lock, then reads the committed row.
FindForUpdate(w) ==
    /\ pc[w] = "lock"
    /\ Req(w) \notin UnknownType
    /\ lock[Type(w)] = NoWorker
    /\ lock' = [lock EXCEPT ![Type(w)] = w]
    /\ inventory' = [inventory EXCEPT ![w] = available[Type(w)]]
    /\ GoTo(w, "decrement")
    /\ UNCHANGED <<store, phase, acked, skipped, job, attempt, decided, tx,
                   history>>

\* findForUpdate returned null: the callback throws.
InventoryNotFound(w) ==
    /\ pc[w] = "lock"
    /\ Req(w) \in UnknownType
    /\ Throw(w)

\* Faulty variant: the negative key is written inside the transaction.
DecrementAndMark(w) ==
    /\ pc[w] = "decrement"
    /\ decided' = [decided EXCEPT ![w] = IF inventory[w] > 0 THEN "SUCCESS" ELSE "SOLD_OUT"]
    /\ tx' = [tx EXCEPT ![w].count = inventory[w] - 1]
    /\ soldOutKey' = [soldOutKey EXCEPT ![Type(w)] = (inventory[w] <= 1)]
    /\ GoTo(w, "insert")
    /\ UNCHANGED <<coupon, available, total, outbox, lock, phase, acked, skipped, job,
                   attempt, inventory, history>>

\* inventory.decrement(), and the UPDATE that writes the new count as an
\* absolute value.
Decrement(w) ==
    /\ pc[w] = "decrement"
    /\ IF inventory[w] > 0
         THEN /\ decided' = [decided EXCEPT ![w] = "SUCCESS"]
              /\ tx' = [tx EXCEPT ![w].count = inventory[w] - 1]
         ELSE /\ decided' = [decided EXCEPT ![w] = "SOLD_OUT"]
              /\ UNCHANGED tx
    /\ GoTo(w, "insert")
    /\ UNCHANGED <<store, lock, phase, acked, skipped, job, attempt, inventory,
                   history>>

\* Another transaction has inserted the same unique key and not yet ended.
\* Not represented: when that one rolls back, InnoDB grants its shared
\* duplicate-check lock to every waiter, and two of them deadlock; the server
\* then ends one with an error, which is StatementFails.
RowPending(w) ==
    \E v \in Workers \ {w} : tx[v].row # "none" /\ Key(v) = Key(w)

\* INSERT INTO user_coupon.
InsertRow(w) ==
    /\ pc[w] = "insert"
    /\ ~ HasRow(Key(w))
    /\ ~ RowPending(w)
    /\ tx' = [tx EXCEPT ![w].row = decided[w]]
    /\ GoTo(w, "outbox")
    /\ UNCHANGED <<store, lock, phase, acked, skipped, job, attempt, decided,
                   inventory, history>>

\* Faulty variant: the violation is caught inside the transaction callback, so
\* what the transaction has written is committed.
InsertDuplicateCaught(w) ==
    /\ pc[w] = "insert"
    /\ HasRow(Key(w))
    /\ available' = IF tx[w].count = Unwritten THEN available
                    ELSE [available EXCEPT ![Type(w)] = tx[w].count]
    /\ EndTransaction(w)
    /\ GoTo(w, "ack")
    /\ UNCHANGED <<coupon, total, outbox, soldOutKey, phase, acked, skipped, job,
                   attempt, history>>

\* The INSERT violates uk_user_coupon_user_type: DuplicateUserCouponError goes
\* through the transaction callback, which rolls everything back, and process()
\* returns normally.
InsertDuplicate(w) ==
    /\ pc[w] = "insert"
    /\ HasRow(Key(w))
    /\ EndTransaction(w)
    /\ GoTo(w, "ack")
    /\ UNCHANGED <<store, phase, acked, skipped, job, attempt, history>>

\* The INSERT violates uk_user_coupon_code as well: the row already there has
\* the placeholder code of the same request.  Which violation the server names
\* is its choice, and this one is not the idempotence signal: process() rejects.
InsertSamePlaceholder(w) ==
    /\ pc[w] = "insert"
    /\ coupon[Key(w)].status \in {"SOLD_OUT", "FAILED"}
    /\ decided[w] \in {"SOLD_OUT", "FAILED"}
    /\ coupon[Key(w)].request = Req(w)
    /\ Throw(w)

\* INSERT INTO outbox_event.
AppendOutbox(w) ==
    /\ pc[w] = "outbox"
    /\ tx' = [tx EXCEPT ![w].event = decided[w]]
    /\ GoTo(w, "commit")
    /\ UNCHANGED <<store, lock, phase, acked, skipped, job, attempt, decided,
                   inventory, history>>

\* The write set becomes the committed state, and the locks go.
ApplyWrites(w) ==
    /\ pc[w] = "commit"
    /\ coupon' = [coupon EXCEPT ![Key(w)] =
                    [status |-> tx[w].row, request |-> Req(w)]]
    /\ outbox' = [outbox EXCEPT ![Req(w)] = Append(@, tx[w].event)]
    /\ available' = IF tx[w].count = Unwritten THEN available
                    ELSE [available EXCEPT ![Type(w)] = tx[w].count]
    /\ EndTransaction(w)
    /\ UNCHANGED <<total, soldOutKey, phase, acked, job, history>>

\* COMMIT answered: process() goes on to the availability check, which the
\* FAILED path has not asked for.
Commit(w) ==
    /\ ApplyWrites(w)
    /\ GoTo(w, IF decided[w] = "FAILED" THEN "ack" ELSE "freshRead")
    /\ UNCHANGED <<skipped, attempt>>

\* COMMIT took effect but its answer was lost: process() rejects.
CommitUnanswered(w) ==
    /\ ApplyWrites(w)
    /\ Rejected(w)

\* Any statement of the transaction may fail (connection, lock wait timeout).
StatementFails(w) ==
    /\ pc[w] \in InTransaction
    /\ Throw(w)

\* markSoldOutIfDepleted: a fresh read outside the transaction ...
FreshRead(w) ==
    /\ pc[w] = "freshRead"
    /\ GoTo(w, IF available[Type(w)] = 0 THEN "markSoldOut" ELSE "ack")
    /\ UNCHANGED <<store, lock, phase, acked, skipped, job, attempt, decided,
                   inventory, tx, history>>

\* ... then SET coupon-available EX 86400.
MarkSoldOut(w) ==
    /\ pc[w] = "markSoldOut"
    /\ soldOutKey' = [soldOutKey EXCEPT ![Type(w)] = TRUE]
    /\ GoTo(w, "ack")
    /\ overtaken' = overtaken \ {w}
    /\ UNCHANGED <<coupon, available, total, outbox, lock, phase, acked, skipped, job,
                   attempt, decided, inventory, tx, crashes>>

\* Either may fail; the failure is logged and swallowed.
CacheFails(w) ==
    /\ pc[w] \in {"freshRead", "markSoldOut"}
    /\ GoTo(w, "ack")
    /\ overtaken' = overtaken \ {w}
    /\ UNCHANGED <<store, lock, phase, acked, skipped, job, attempt, decided,
                   inventory, tx, crashes>>

\* deliver() returned: resolveOffset and commitOffsetsIfNecessary.
Acknowledge(w) ==
    /\ pc[w] = "ack"
    /\ acked' = acked \union {job[w]}
    /\ job' = [job EXCEPT ![w] = NoRecord]
    /\ attempt' = [attempt EXCEPT ![w] = 1]
    /\ GoTo(w, "idle")
    /\ UNCHANGED <<store, lock, phase, skipped, decided, inventory, tx, history>>

\* The process of a worker dies; InnoDB rolls its open transaction back.
Crash(w) ==
    /\ pc[w] # "idle"
    /\ crashes < MaxCrashes
    /\ crashes' = crashes + 1
    /\ overtaken' = overtaken \ {w}
    /\ EndTransaction(w)
    /\ job' = [job EXCEPT ![w] = NoRecord]
    /\ attempt' = [attempt EXCEPT ![w] = 1]
    /\ GoTo(w, "idle")
    /\ UNCHANGED <<store, phase, acked, skipped>>

\* The clock passes started_at, then ended_at.
ClockPasses(t) ==
    /\ phase[t] # "ended"
    /\ phase' = [phase EXCEPT ![t] = IF @ = "before" THEN "active" ELSE "ended"]
    /\ UNCHANGED <<store, lock, acked, skipped, worker, history>>

\* The administrator's UPDATE of the inventory row waits for its lock (nothing
\* in src/ restocks).  Whoever has just read 0 and not yet set the key has been
\* overtaken.
Restock(t) ==
    /\ lock[t] = NoWorker
    /\ \E n \in 1 .. (MaxTotal - total[t]) :
          /\ available' = [available EXCEPT ![t] = @ + n]
          /\ total' = [total EXCEPT ![t] = @ + n]
    /\ overtaken' = overtaken
          \union {w \in Workers : pc[w] = "markSoldOut" /\ Type(w) = t}
    /\ UNCHANGED <<coupon, outbox, soldOutKey, lock, phase, acked, skipped, worker,
                   crashes>>

\* The TTL of the negative key runs out, or an operator deletes it.
KeyExpires(t) ==
    /\ soldOutKey[t]
    /\ soldOutKey' = [soldOutKey EXCEPT ![t] = FALSE]
    /\ UNCHANGED <<coupon, available, total, outbox, lock, phase, acked, skipped,
                   worker, history>>

\* Nothing left to deliver: the consumer polls an empty topic.
Drained ==
    /\ acked = Records
    /\ \A w \in Workers : pc[w] = "idle"
    /\ UNCHANGED vars

Process(w) ==
    \/ CheckExists(w) \/ CheckEvent(w) \/ EventNotFound(w)
    \/ FindForUpdate(w) \/ InventoryNotFound(w) \/ Decrement(w)
    \/ InsertRow(w) \/ InsertDuplicate(w) \/ InsertSamePlaceholder(w)
    \/ AppendOutbox(w) \/ Commit(w)
    \/ FreshRead(w) \/ MarkSoldOut(w) \/ Acknowledge(w)

Faults(w) ==
    StatementFails(w) \/ CommitUnanswered(w) \/ CacheFails(w) \/ Crash(w)

Next ==
    \/ \E w \in Workers : Process(w) \/ Faults(w)
    \/ \E w \in Workers, m \in Records : Deliver(w, m)
    \/ \E t \in Types : ClockPasses(t) \/ Restock(t) \/ KeyExpires(t)
    \/ Drained

Spec == Init /\ [][Next]_vars

\* The event loop and the broker run on: a free worker is given a record, and
\* a running delivery executes its next statement.  No fairness for faults,
\* the clock, the TTL or the administrator.
FairSpec ==
    /\ Spec
    /\ \A w \in Workers : WF_vars(Process(w))
    /\ \A w \in Workers : WF_vars(\E m \in Records : Deliver(w, m))
-----------------------------------------------------------------------------
Abs == INSTANCE CouponIssuing

(* The transactions implement the atomic promise: every step concludes one *)
(* request as a whole or leaves rows, stock, outbox and key unchanged.     *)
ImplementsCouponIssuing == Abs!Spec

(* Stock left plus coupons issued is the total, at every moment, whatever  *)
(* the interleaving of decrement, INSERT, rollback, crash and restock.     *)
InventoryConserved == Abs!InventoryConserved

(* One outbox event per row with the row's status, none without a row,     *)
(* despite redelivery, duplicated records and lost COMMIT answers.         *)
ResultRecordedOnce == Abs!ResultRecordedOnce

(* "Sold out" is said only while the stock is gone.  A row becomes         *)
(* SOLD_OUT in a commit at count 0; the negative key appears at count 0,   *)
(* set by a worker whose reads later statements may have outdated.  The    *)
(* comment at coupon-availability.cache.ts:12-14 has it that a message     *)
(* after a restock does not SET the key; the one that slips through is a   *)
(* worker a restock overtook between its fresh read and its SET.  What was *)
(* said before a restock stays: the row, and the key until its TTL.        *)
SoldOutTruthful ==
    [][/\ \A k \in Keys :
             coupon'[k].status = "SOLD_OUT" /\ coupon[k].status # "SOLD_OUT"
                => available[k[2]] = 0
       /\ \A t \in Types :
             soldOutKey'[t] /\ ~ soldOutKey[t]
                => available[t] = 0 \/ \E w \in overtaken : Type(w) = t]_store

(* An acknowledged record is never lost: its user has a row for the coupon *)
(* type, or the consumer gave the record up after MaxAttempts.             *)
NoSilentLoss ==
    \A m \in acked \ skipped : HasRow(KeyOf(RequestOf[m]))

(* A concluded result is final: no later delivery replaces the row, its    *)
(* status or the request it answers.                                       *)
RowsAreFinal ==
    [][\A k \in Keys : HasRow(k) => coupon'[k] = coupon[k]]_coupon

(* Whoever is past SELECT ... FOR UPDATE works on the committed count: no  *)
(* absolute-value UPDATE can overwrite a decrement it has not seen.        *)
CountIsCurrent ==
    \A w \in Workers :
       (pc[w] \in {"decrement", "insert", "outbox", "commit"} /\ decided[w] # "FAILED")
          => inventory[w] = available[Type(w)]

(* Every record is eventually acknowledged: lock waits, poison records,    *)
(* failed attempts and crashes never leave a record undelivered for ever.  *)
EveryRecordConcludes == \A m \in Records : <>[](m \in acked)
-----------------------------------------------------------------------------
\* The inductive invariant behind the safety properties, part by part, for one
\* worker.
HoldsLock(w) ==
    \/ pc[w] = "decrement"
    \/ pc[w] \in {"insert", "outbox", "commit"} /\ decided[w] # "FAILED"

\* It has a record while it is busy.
JobInv(w) == pc[w] # "idle" => job[w] \in Records

\* It reads and rewrites the count only under the row lock.
LockInv(w) ==
    HoldsLock(w) => /\ lock[Type(w)] = w
                    /\ inventory[w] = available[Type(w)]

\* Its write set is what the statements so far have written.
WriteInv(w) ==
    /\ pc[w] \notin {"insert", "outbox", "commit"} =>
          tx[w] = NoWrites /\ decided[w] = "none"
    /\ pc[w] \in {"insert", "outbox", "commit"} =>
          \/ decided[w] = "SUCCESS" /\ inventory[w] > 0 /\ tx[w].count = inventory[w] - 1
          \/ decided[w] = "SOLD_OUT" /\ inventory[w] = 0 /\ tx[w].count = Unwritten
          \/ decided[w] = "FAILED" /\ tx[w].count = Unwritten
    /\ pc[w] = "insert" => tx[w].row = "none"
    /\ pc[w] \in {"outbox", "commit"} => tx[w].row = decided[w] /\ ~ HasRow(Key(w))
    /\ pc[w] = "commit" => tx[w].event = decided[w]

\* What it saw of the committed state still stands when it acts on it, a
\* restock apart.
AfterInv(w) ==
    /\ pc[w] = "markSoldOut" => available[Type(w)] = 0 \/ w \in overtaken
    /\ w \in overtaken => pc[w] = "markSoldOut" /\ total[Type(w)] > Total[Type(w)]
    /\ pc[w] \in {"freshRead", "markSoldOut"} => HasRow(Key(w))
    /\ pc[w] = "ack" => HasRow(Key(w)) \/ job[w] \in skipped

WorkerInv(w) == JobInv(w) /\ LockInv(w) /\ WriteInv(w) /\ AfterInv(w)

\* The unique index keeps two uncommitted rows of one key apart.
UniqueInv ==
    \A v, w \in Workers :
       v # w /\ tx[v].row # "none" /\ tx[w].row # "none" => Key(v) # Key(w)

\* The total is what the row started with, or more.
NeverShrinks == \A t \in Types : total[t] >= Total[t]

(* The inductive invariant: row locks, unique index and write sets.        *)
IInv ==
    /\ \A w \in Workers : WorkerInv(w)
    /\ UniqueInv
    /\ NoSilentLoss
    /\ NeverShrinks
=============================================================================
