------------------------ MODULE IssueProcessorProofs ------------------------
(***************************************************************************)
(* IssueProcessor keeps its types and its inductive invariant and          *)
(* implements CouponIssuing, for any sets of workers, records, requests,   *)
(* users and coupon types, any totals and any limit on attempts.           *)
(***************************************************************************)
EXTENDS IssueProcessor, TLAPS

LEMMA UnwrittenValue == Unwritten \notin Nat /\ Unwritten \in Int
BY DEF Unwritten

LEMMA KeyOfType ==
    ASSUME NEW r \in Requests
    PROVE  KeyOf(r) \in Keys /\ UserOf[r] \in Users /\ TypeOf[r] \in Types
BY IssuingAssumption DEF KeyOf, Keys

\* The key and the type of a worker that has a record.
LEMMA WorkerKeyType ==
    ASSUME NEW w \in Workers, job[w] \in Records
    PROVE  Req(w) \in Requests /\ Key(w) \in Keys /\ Type(w) \in Types
<1>1. Req(w) \in Requests
  BY ProcessorAssumption DEF Req
<1>2. QED
  BY <1>1, KeyOfType DEF Key, Type

LEMMA AppendType ==
    ASSUME NEW S, NEW s \in Seq(S), NEW e \in S
    PROVE  Append(s, e) \in Seq(S)
OBVIOUS

\* The steps of a worker, one disjunct per action.
LEMMA NextCases ==
    ASSUME Next
    PROVE  \/ \E w \in Workers : Process(w)
           \/ \E w \in Workers : Faults(w)
           \/ \E w \in Workers, m \in Records : Deliver(w, m)
           \/ \E t \in Types : ClockPasses(t) \/ KeyExpires(t)
           \/ \E t \in Types : Restock(t)
           \/ Drained
BY DEF Next

\* What a restock adds, it adds to both counts of one type.
LEMMA RestockEffect ==
    ASSUME TypeOK, NEW s \in Types, Restock(s)
    PROVE  \E n \in Nat :
              /\ n > 0
              /\ available' = [available EXCEPT ![s] = @ + n]
              /\ total' = [total EXCEPT ![s] = @ + n]
              /\ n \in 1 .. (MaxTotal - total[s])
<1>1. MaxTotal \in Nat /\ total[s] \in Nat
  BY IssuingAssumption DEF TypeOK
<1>2. PICK n \in 1 .. (MaxTotal - total[s]) :
               /\ available' = [available EXCEPT ![s] = @ + n]
               /\ total' = [total EXCEPT ![s] = @ + n]
  BY DEF Restock
<1>3. n \in Nat /\ n > 0
  BY <1>1
<1>4. QED
  BY <1>2, <1>3
-----------------------------------------------------------------------------
\* Ending a transaction and counting an attempt keep the types.
LEMMA EndType ==
    ASSUME TypeOK, NEW w \in Workers, EndTransaction(w)
    PROVE  /\ lock' \in [Types -> Workers \union {NoWorker}]
           /\ tx' \in [Workers -> [count : Nat \union {Unwritten},
                                   row : Statuses \union {"none"},
                                   event : Statuses \union {"none"}]]
           /\ decided' \in [Workers -> Statuses \union {"none"}]
           /\ inventory' \in [Workers -> Nat]
<1>1. lock' \in [Types -> Workers \union {NoWorker}]
  BY DEF TypeOK, EndTransaction, Released
<1>2. NoWrites \in [count : Nat \union {Unwritten}, row : Statuses \union {"none"},
                    event : Statuses \union {"none"}]
  BY DEF NoWrites
<1>3. QED
  BY <1>1, <1>2 DEF TypeOK, EndTransaction

LEMMA RejectedType ==
    ASSUME TypeOK, NEW w \in Workers, job[w] \in Records, Rejected(w)
    PROVE  /\ attempt' \in [Workers -> 1 .. MaxAttempts]
           /\ pc' \in [Workers -> Steps]
           /\ skipped' \subseteq Records
<1>1. attempt[w] \in 1 .. MaxAttempts /\ MaxAttempts \in Nat
  BY ProcessorAssumption DEF TypeOK
<1>2. CASE attempt[w] < MaxAttempts
  <2>1. attempt[w] + 1 \in 1 .. MaxAttempts
    BY <1>1, <1>2
  <2>2. attempt' = [attempt EXCEPT ![w] = attempt[w] + 1] /\ pc' = [pc EXCEPT ![w] = "exists"]
        /\ skipped' = skipped
    BY <1>1, <1>2 DEF Rejected
  <2>3. QED
    BY <2>1, <2>2 DEF TypeOK, Steps, InTransaction
<1>3. CASE attempt[w] = MaxAttempts
  <2>1. attempt' = attempt /\ pc' = [pc EXCEPT ![w] = "ack"]
        /\ skipped' = skipped \union {job[w]}
    BY <1>1, <1>3 DEF Rejected
  <2>2. QED
    BY <2>1 DEF TypeOK, Steps
<1>4. QED
  BY <1>2, <1>3 DEF Rejected

LEMMA ThrowType ==
    ASSUME TypeOK, NEW w \in Workers, job[w] \in Records, Throw(w)
    PROVE  TypeOK'
<1>1. EndTransaction(w) /\ Rejected(w) /\ UNCHANGED <<store, phase, acked, job, history>>
  BY DEF Throw
<1>2. QED
  BY <1>1, EndType, RejectedType DEF TypeOK, store, history

\* Applying a write set keeps the types.
LEMMA ApplyType ==
    ASSUME TypeOK, NEW w \in Workers, job[w] \in Records, WriteInv(w), ApplyWrites(w)
    PROVE  /\ coupon' \in [Keys -> Rows \union {NoRow}]
           /\ outbox' \in [Requests -> Seq(Statuses)]
           /\ available' \in [Types -> Nat]
<1>0. Req(w) \in Requests /\ Key(w) \in Keys /\ Type(w) \in Types
  BY WorkerKeyType
<1>1. decided[w] \in Statuses /\ tx[w].row = decided[w] /\ tx[w].event = decided[w]
  BY DEF ApplyWrites, WriteInv, Statuses
<1>2. coupon' \in [Keys -> Rows \union {NoRow}]
  <2>1. [status |-> tx[w].row, request |-> Req(w)] \in Rows
    BY <1>0, <1>1 DEF Rows
  <2>2. QED
    BY <1>0, <2>1 DEF ApplyWrites, TypeOK
<1>3. outbox' \in [Requests -> Seq(Statuses)]
  <2>1. outbox[Req(w)] \in Seq(Statuses)
    BY <1>0 DEF TypeOK
  <2>2. Append(outbox[Req(w)], tx[w].event) \in Seq(Statuses)
    BY <1>1, <2>1, AppendType
  <2>3. QED
    BY <1>0, <2>2 DEF ApplyWrites, TypeOK
<1>4. available' \in [Types -> Nat]
  <2>1. tx[w].count \in Nat \union {Unwritten}
    BY DEF TypeOK
  <2>2. QED
    BY <1>0, <2>1 DEF ApplyWrites, TypeOK
<1>5. QED
  BY <1>2, <1>3, <1>4

\* No step leaves the types; that a busy worker has a record, and that its
\* write set is complete at COMMIT, comes from the inductive invariant.
LEMMA TypeStep ==
    ASSUME TypeOK, IInv, [Next]_vars
    PROVE  TypeOK'
<1> USE DEF store, worker, history, GoTo
<1>1. ASSUME NEW w \in Workers, Process(w)
      PROVE  TypeOK'
  <2>0. pc[w] # "idle" /\ job[w] \in Records /\ WriteInv(w)
    BY <1>1 DEF Process, IInv, WorkerInv, JobInv, CheckExists, CheckEvent, EventNotFound,
       FindForUpdate, InventoryNotFound, Decrement, InsertRow, InsertDuplicate,
       InsertSamePlaceholder, AppendOutbox, Commit, ApplyWrites, FreshRead, MarkSoldOut,
       Acknowledge
  <2>k. Req(w) \in Requests /\ Key(w) \in Keys /\ Type(w) \in Types
    BY <2>0, WorkerKeyType
  <2>1. CASE CheckExists(w)
    BY <2>1 DEF CheckExists, TypeOK, Steps, InTransaction
  <2>2. CASE CheckEvent(w)
    BY <2>2 DEF CheckEvent, TypeOK, Steps, InTransaction, Statuses
  <2>3. CASE EventNotFound(w) \/ InventoryNotFound(w) \/ InsertSamePlaceholder(w)
    BY <2>0, <2>3, ThrowType DEF EventNotFound, InventoryNotFound, InsertSamePlaceholder
  <2>4. CASE FindForUpdate(w)
    BY <2>4, <2>k DEF FindForUpdate, TypeOK, Steps, InTransaction
  <2>5. CASE Decrement(w)
    <3>1. inventory[w] \in Nat
      BY DEF TypeOK
    <3>2. inventory[w] > 0 => inventory[w] - 1 \in Nat
      BY <3>1
    <3>3. tx' \in [Workers -> [count : Nat \union {Unwritten},
                              row : Statuses \union {"none"},
                              event : Statuses \union {"none"}]]
      <4>1. CASE inventory[w] > 0
        <5>1. tx' = [tx EXCEPT ![w].count = inventory[w] - 1]
          BY <2>5, <4>1 DEF Decrement
        <5>2. QED
          BY <3>2, <4>1, <5>1 DEF TypeOK
      <4>2. CASE ~ (inventory[w] > 0)
        BY <2>5, <4>2 DEF Decrement, TypeOK
      <4>3. QED
        BY <4>1, <4>2
    <3>4. QED
      BY <2>5, <3>3 DEF Decrement, TypeOK, Steps, InTransaction, Statuses
  <2>6. CASE InsertRow(w)
    BY <2>6 DEF InsertRow, TypeOK, Steps, InTransaction
  <2>7. CASE InsertDuplicate(w)
    <3>1. EndTransaction(w)
      BY <2>7 DEF InsertDuplicate
    <3>2. QED
      BY <2>7, <3>1, EndType DEF InsertDuplicate, TypeOK, Steps
  <2>8. CASE AppendOutbox(w)
    BY <2>8 DEF AppendOutbox, TypeOK, Steps, InTransaction
  <2>9. CASE Commit(w)
    <3>1. ApplyWrites(w) /\ EndTransaction(w)
      BY <2>9 DEF Commit, ApplyWrites
    <3>2. QED
      BY <2>0, <2>9, <3>1, EndType, ApplyType DEF Commit, ApplyWrites, TypeOK, Steps
  <2>10. CASE FreshRead(w)
    BY <2>10 DEF FreshRead, TypeOK, Steps
  <2>11. CASE MarkSoldOut(w)
    BY <2>11, <2>k DEF MarkSoldOut, TypeOK, Steps
  <2>12. CASE Acknowledge(w)
    BY <2>0, <2>12, ProcessorAssumption DEF Acknowledge, TypeOK, Steps
  <2>13. QED
    BY <1>1, <2>1, <2>2, <2>3, <2>4, <2>5, <2>6, <2>7, <2>8, <2>9, <2>10, <2>11, <2>12
       DEF Process
<1>2. ASSUME NEW w \in Workers, Faults(w)
      PROVE  TypeOK'
  <2>0. job[w] \in Records /\ WriteInv(w)
    BY <1>2 DEF Faults, IInv, WorkerInv, JobInv, StatementFails, InTransaction,
       CommitUnanswered, ApplyWrites, CacheFails, Crash
  <2>1. CASE StatementFails(w)
    BY <2>0, <2>1, ThrowType DEF StatementFails
  <2>2. CASE CommitUnanswered(w)
    <3>1. ApplyWrites(w) /\ EndTransaction(w) /\ Rejected(w)
      BY <2>2 DEF CommitUnanswered, ApplyWrites
    <3>2. QED
      BY <2>0, <3>1, EndType, ApplyType, RejectedType DEF ApplyWrites, TypeOK
  <2>3. CASE CacheFails(w)
    BY <2>3 DEF CacheFails, TypeOK, Steps
  <2>4. CASE Crash(w)
    <3>1. EndTransaction(w)
      BY <2>4 DEF Crash
    <3>2. QED
      BY <2>4, <3>1, EndType, ProcessorAssumption DEF Crash, TypeOK, Steps
  <2>5. QED
    BY <1>2, <2>1, <2>2, <2>3, <2>4 DEF Faults
<1>3. ASSUME NEW w \in Workers, NEW m \in Records, Deliver(w, m)
      PROVE  TypeOK'
  BY <1>3 DEF Deliver, TypeOK, Steps, InTransaction
<1>4. ASSUME NEW t \in Types, ClockPasses(t) \/ KeyExpires(t)
      PROVE  TypeOK'
  BY <1>4 DEF ClockPasses, KeyExpires, TypeOK
<1>5. ASSUME NEW t \in Types, Restock(t)
      PROVE  TypeOK'
  <2>1. PICK n \in Nat : /\ available' = [available EXCEPT ![t] = @ + n]
                         /\ total' = [total EXCEPT ![t] = @ + n]
    BY <1>5, RestockEffect
  <2>2. available' \in [Types -> Nat] /\ total' \in [Types -> Nat]
    BY <2>1 DEF TypeOK
  <2>3. overtaken' \subseteq Workers
    BY <1>5 DEF Restock, TypeOK
  <2>4. QED
    BY <1>5, <2>2, <2>3 DEF Restock, TypeOK
<1>6. CASE Drained \/ UNCHANGED vars
  BY <1>6 DEF Drained, vars, TypeOK
<1>7. QED
  BY <1>1, <1>2, <1>3, <1>4, <1>5, <1>6, NextCases
-----------------------------------------------------------------------------
\* The locals of every worker but w are unchanged.
OthersKept(w) ==
    \A v \in Workers \ {w} :
       /\ pc'[v] = pc[v] /\ job'[v] = job[v] /\ decided'[v] = decided[v]
       /\ inventory'[v] = inventory[v] /\ tx'[v] = tx[v]
       /\ \A t \in Types : lock[t] = v => lock'[t] = v

\* No restock happens, and w is not, or no more, about to SET the key.
NotOvertaken(w) == overtaken' = overtaken \ {w} /\ total' = total

LEMMA WorkerOvertaken ==
    ASSUME TypeOK, IInv, NEW w \in Workers,
           \/ Process(w)
           \/ Faults(w)
           \/ \E m \in Records : Deliver(w, m)
    PROVE  NotOvertaken(w)
<1> USE DEF store, history, GoTo
<1>0. pc[w] # "markSoldOut" => overtaken = overtaken \ {w}
  BY DEF IInv, WorkerInv, AfterInv
<1>1. ASSUME Throw(w) \/ ApplyWrites(w), pc[w] # "markSoldOut"
      PROVE  NotOvertaken(w)
  BY <1>0, <1>1 DEF Throw, ApplyWrites, NotOvertaken
<1>2. CASE Process(w)
  BY <1>0, <1>1, <1>2 DEF Process, CheckExists, CheckEvent, EventNotFound,
     FindForUpdate, InventoryNotFound, Decrement, InsertRow, InsertDuplicate,
     InsertSamePlaceholder, AppendOutbox, Commit, ApplyWrites, FreshRead, MarkSoldOut,
     Acknowledge, NotOvertaken
<1>3. CASE Faults(w)
  BY <1>0, <1>1, <1>3 DEF Faults, StatementFails, InTransaction, CommitUnanswered,
     ApplyWrites, CacheFails, Crash, NotOvertaken
<1>4. CASE \E m \in Records : Deliver(w, m)
  BY <1>0, <1>4 DEF Deliver, NotOvertaken
<1>5. QED
  BY <1>2, <1>3, <1>4

\* A worker that stands still keeps its invariant when its locks stay, the
\* count it relies on stays, and its key gains no row while it inserts one.
LEMMA StandingWorker ==
    ASSUME TypeOK, NEW w \in Workers, OthersKept(w), NotOvertaken(w),
           NEW v \in Workers \ {w}, WorkerInv(v),
           skipped \subseteq skipped',
           \A k \in Keys : HasRow(k) => HasRow(k)',
           HoldsLock(v) => available'[Type(v)] = available[Type(v)],
           pc[v] = "markSoldOut" /\ v \notin overtaken
              => available'[Type(v)] = available[Type(v)],
           pc[v] \in {"outbox", "commit"} => ~ HasRow(Key(v))'
    PROVE  WorkerInv(v)'
<1>1. /\ pc'[v] = pc[v] /\ job'[v] = job[v] /\ decided'[v] = decided[v]
      /\ inventory'[v] = inventory[v] /\ tx'[v] = tx[v]
      /\ \A t \in Types : lock[t] = v => lock'[t] = v
  BY DEF OthersKept
<1>2. Key(v)' = Key(v) /\ Type(v)' = Type(v)
  BY <1>1 DEF Key, Type, Req
<1>3. HoldsLock(v)' <=> HoldsLock(v)
  BY <1>1 DEF HoldsLock
<1>4. pc[v] # "idle" => Key(v) \in Keys /\ Type(v) \in Types
  BY WorkerKeyType DEF WorkerInv, JobInv
<1>5. JobInv(v)'
  BY <1>1 DEF WorkerInv, JobInv
<1>6. LockInv(v)'
  BY <1>1, <1>2, <1>3, <1>4 DEF WorkerInv, LockInv, HoldsLock
<1>7. WriteInv(v)'
  BY <1>1, <1>2 DEF WorkerInv, WriteInv, HasRow
<1>8. AfterInv(v)'
  <2>1. /\ pc'[v] = "markSoldOut" => available'[Type(v)'] = 0 \/ v \in overtaken'
        /\ v \in overtaken' => pc'[v] = "markSoldOut" /\ total'[Type(v)'] > Total[Type(v)']
    BY <1>1, <1>2 DEF WorkerInv, AfterInv, NotOvertaken
  <2>2. pc'[v] \in {"freshRead", "markSoldOut"} => HasRow(Key(v))'
    BY <1>1, <1>2, <1>4 DEF WorkerInv, AfterInv, HasRow
  <2>3. pc'[v] = "ack" => HasRow(Key(v))' \/ job'[v] \in skipped'
    BY <1>1, <1>2, <1>4 DEF WorkerInv, AfterInv, HasRow
  <2>4. QED
    BY <2>1, <2>2, <2>3 DEF AfterInv
<1>9. QED
  BY <1>5, <1>6, <1>7, <1>8 DEF WorkerInv

\* A step of w that commits nothing.
LEMMA LocalStep ==
    ASSUME TypeOK, IInv, NEW w \in Workers, OthersKept(w), NotOvertaken(w),
           coupon' = coupon, available' = available,
           skipped \subseteq skipped',
           WorkerInv(w)',
           tx'[w].row # "none" =>
              job'[w] = job[w] /\ (tx[w].row # "none" \/ ~ RowPending(w)),
           \A m \in acked' \ skipped' : m \in acked \/ HasRow(KeyOf(RequestOf[m]))
    PROVE  IInv'
<1>1. ASSUME NEW v \in Workers \ {w}
      PROVE  WorkerInv(v)'
  <2>1. WorkerInv(v)
    BY DEF IInv
  <2>2. \A k \in Keys : HasRow(k) => HasRow(k)'
    BY DEF HasRow
  <2>3. pc[v] \in {"outbox", "commit"} => ~ HasRow(Key(v))'
    <3>1. Key(v)' = Key(v)
      BY DEF OthersKept, Key, Req
    <3>2. QED
      BY <2>1, <3>1 DEF WorkerInv, WriteInv, HasRow
  <2>4. QED
    BY <2>1, <2>2, <2>3, StandingWorker
<1>2. UniqueInv'
  <2> SUFFICES ASSUME NEW u \in Workers, NEW v \in Workers, u # v,
                      tx'[u].row # "none", tx'[v].row # "none"
               PROVE  Key(u)' # Key(v)'
    BY DEF UniqueInv
  <2>1. ASSUME NEW x \in Workers, x # w
        PROVE  tx'[x] = tx[x] /\ Key(x)' = Key(x)
    BY <2>1 DEF OthersKept, Key, Req
  <2>2. Key(w)' = Key(w) \/ (u # w /\ v # w)
    BY DEF Key, Req
  <2>3. CASE u = w /\ tx[w].row = "none"
    BY <2>1, <2>2, <2>3 DEF RowPending
  <2>4. CASE v = w /\ tx[w].row = "none"
    BY <2>1, <2>2, <2>4 DEF RowPending
  <2>5. CASE (u # w \/ tx[w].row # "none") /\ (v # w \/ tx[w].row # "none")
    BY <2>1, <2>2, <2>5 DEF IInv, UniqueInv
  <2>6. QED
    BY <2>3, <2>4, <2>5
<1>3. NoSilentLoss' /\ NeverShrinks'
  BY DEF IInv, NoSilentLoss, HasRow, NeverShrinks, NotOvertaken
<1>4. QED
  BY <1>1, <1>2, <1>3 DEF IInv
-----------------------------------------------------------------------------
\* Ending a transaction releases the locks of w alone.
LEMMA EndEffect ==
    ASSUME TypeOK, NEW w \in Workers, EndTransaction(w)
    PROVE  /\ tx'[w] = NoWrites /\ decided'[w] = "none"
           /\ \A v \in Workers \ {w} :
                 /\ tx'[v] = tx[v] /\ decided'[v] = decided[v]
                 /\ inventory'[v] = inventory[v]
                 /\ \A t \in Types : lock[t] = v => lock'[t] = v
BY DEF EndTransaction, Released, TypeOK

\* Counting an attempt moves w to a retry or, with the record skipped, to the
\* acknowledgement.
LEMMA RejectedEffect ==
    ASSUME TypeOK, NEW w \in Workers, Rejected(w)
    PROVE  /\ \A v \in Workers \ {w} : pc'[v] = pc[v]
           /\ pc'[w] \in {"exists", "ack"}
           /\ pc'[w] = "ack" => job[w] \in skipped'
           /\ skipped \subseteq skipped'
BY DEF Rejected, TypeOK

\* A worker outside its transaction, with nothing to claim, is in order.
LEMMA QuietWorker ==
    ASSUME NEW w \in Workers, NotOvertaken(w),
           tx'[w] = NoWrites, decided'[w] = "none",
           pc'[w] \in {"idle", "exists", "event", "lock"},
           pc'[w] # "idle" => job'[w] \in Records
    PROVE  WorkerInv(w)'
BY DEF WorkerInv, JobInv, LockInv, HoldsLock, WriteInv, AfterInv, NotOvertaken

LEMMA ThrowStep ==
    ASSUME TypeOK, IInv, NEW w \in Workers, job[w] \in Records, Throw(w), NotOvertaken(w)
    PROVE  IInv'
<1>1. EndTransaction(w) /\ Rejected(w) /\ job' = job /\ acked' = acked
      /\ coupon' = coupon /\ available' = available
  BY DEF Throw, store
<1>2. OthersKept(w)
  BY <1>1, EndEffect, RejectedEffect DEF OthersKept
<1>3. tx'[w] = NoWrites /\ decided'[w] = "none" /\ tx'[w].row = "none"
  BY <1>1, EndEffect DEF NoWrites
<1>4. /\ pc'[w] \in {"exists", "ack"} /\ skipped \subseteq skipped'
      /\ pc'[w] = "ack" => job[w] \in skipped'
  BY <1>1, RejectedEffect
<1>5. WorkerInv(w)'
  <2>1. CASE pc'[w] = "exists"
    BY <1>1, <1>3, <2>1, QuietWorker
  <2>2. CASE pc'[w] = "ack"
    BY <1>1, <1>3, <1>4, <2>2 DEF WorkerInv, JobInv, LockInv, HoldsLock, WriteInv, AfterInv,
       NotOvertaken
  <2>3. QED
    BY <1>4, <2>1, <2>2
<1>6. QED
  BY <1>1, <1>2, <1>3, <1>4, <1>5, LocalStep
-----------------------------------------------------------------------------
\* What a COMMIT changes: w's row, w's count if it wrote one, w's event.
LEMMA CommitEffect ==
    ASSUME TypeOK, IInv, NEW w \in Workers, job[w] \in Records, ApplyWrites(w)
    PROVE  /\ ~ HasRow(Key(w)) /\ HasRow(Key(w))'
           /\ \A k \in Keys : k # Key(w) => coupon'[k] = coupon[k]
           /\ \A t \in Types : t # Type(w) \/ decided[w] # "SUCCESS"
                                 => available'[t] = available[t]
           /\ decided[w] = "SUCCESS" =>
                 /\ available[Type(w)] > 0
                 /\ available' = [available EXCEPT ![Type(w)] = @ - 1]
           /\ decided[w] # "SUCCESS" => available' = available
           /\ decided[w] = "SOLD_OUT" => available[Type(w)] = 0
           /\ decided[w] \in Statuses
           /\ coupon' = [coupon EXCEPT ![Key(w)] = [status |-> decided[w], request |-> Req(w)]]
           /\ outbox' = [outbox EXCEPT ![Req(w)] = Append(@, decided[w])]
<1>0. Key(w) \in Keys /\ Type(w) \in Types
  BY WorkerKeyType
<1>1. pc[w] = "commit" /\ WriteInv(w) /\ LockInv(w)
  BY DEF ApplyWrites, IInv, WorkerInv
<1>2. /\ tx[w].row = decided[w] /\ tx[w].event = decided[w] /\ ~ HasRow(Key(w))
      /\ decided[w] \in Statuses
  BY <1>1 DEF WriteInv, Statuses
<1>3. /\ decided[w] = "SUCCESS" => inventory[w] > 0 /\ tx[w].count = inventory[w] - 1
      /\ decided[w] = "SOLD_OUT" => inventory[w] = 0 /\ tx[w].count = Unwritten
      /\ decided[w] = "FAILED" => tx[w].count = Unwritten
  BY <1>1 DEF WriteInv
<1>4. decided[w] # "FAILED" => inventory[w] = available[Type(w)]
  BY <1>1 DEF LockInv, HoldsLock
<1>5. coupon' = [coupon EXCEPT ![Key(w)] = [status |-> decided[w], request |-> Req(w)]]
      /\ outbox' = [outbox EXCEPT ![Req(w)] = Append(@, decided[w])]
  BY <1>2 DEF ApplyWrites
<1>6. HasRow(Key(w))'
  <2>1. coupon'[Key(w)].status = decided[w]
    BY <1>0, <1>5 DEF TypeOK
  <2>2. Key(w)' = Key(w)
    BY DEF ApplyWrites, Key, Req
  <2>3. QED
    BY <1>2, <2>1, <2>2 DEF HasRow, Statuses
<1>7. \A k \in Keys : k # Key(w) => coupon'[k] = coupon[k]
  BY <1>0, <1>5 DEF TypeOK
<1>8. decided[w] # "SUCCESS" => available' = available
  BY <1>2, <1>3 DEF ApplyWrites, Statuses
<1>9. decided[w] = "SUCCESS" =>
         /\ available' = [available EXCEPT ![Type(w)] = inventory[w] - 1]
         /\ available[Type(w)] > 0 /\ inventory[w] = available[Type(w)]
  <2> SUFFICES ASSUME decided[w] = "SUCCESS"
               PROVE  /\ available' = [available EXCEPT ![Type(w)] = inventory[w] - 1]
                      /\ available[Type(w)] > 0 /\ inventory[w] = available[Type(w)]
    OBVIOUS
  <2>1. inventory[w] \in Nat /\ inventory[w] > 0 /\ inventory[w] = available[Type(w)]
    BY <1>3, <1>4 DEF TypeOK
  <2>2. tx[w].count = inventory[w] - 1 /\ tx[w].count # Unwritten
    BY <1>3, <2>1 DEF Unwritten
  <2>3. QED
    BY <2>1, <2>2 DEF ApplyWrites
<1>10. decided[w] = "SUCCESS" => /\ available' = [available EXCEPT ![Type(w)] = @ - 1]
                                 /\ \A t \in Types : t # Type(w) => available'[t] = available[t]
  BY <1>0, <1>9 DEF TypeOK
<1>11. QED
  BY <1>2, <1>3, <1>4, <1>5, <1>6, <1>7, <1>8, <1>9, <1>10

\* Two lock holders of different workers hold different inventory rows.
LEMMA LockExclusive ==
    ASSUME IInv, NEW v \in Workers, NEW w \in Workers, v # w,
           HoldsLock(v), HoldsLock(w)
    PROVE  Type(v) # Type(w)
BY DEF IInv, WorkerInv, LockInv

LEMMA CommitStep ==
    ASSUME TypeOK, IInv, NEW w \in Workers, job[w] \in Records, ApplyWrites(w),
           NotOvertaken(w),
           \A v \in Workers \ {w} : pc'[v] = pc[v],
           skipped \subseteq skipped',
           \/ pc'[w] \in {"exists", "freshRead"}
           \/ pc'[w] = "ack"
    PROVE  IInv'
<1>0. EndTransaction(w) /\ job' = job /\ acked' = acked /\ pc[w] = "commit"
  BY DEF ApplyWrites
<1>1. OthersKept(w)
  BY <1>0, EndEffect DEF OthersKept
<1>2. tx'[w] = NoWrites /\ decided'[w] = "none"
  BY <1>0, EndEffect
<1>3. Key(w) \in Keys /\ Type(w) \in Types /\ Key(w)' = Key(w)
  BY <1>0, WorkerKeyType DEF Key, Req
<1>4. \A k \in Keys : HasRow(k) => HasRow(k)'
  BY <1>3, CommitEffect DEF HasRow
<1>5. ASSUME NEW v \in Workers \ {w}
      PROVE  WorkerInv(v)'
  <2>0. WorkerInv(v)
    BY DEF IInv
  <2>1. HoldsLock(v) => available'[Type(v)] = available[Type(v)]
    <3>1. CASE HoldsLock(v) /\ decided[w] = "SUCCESS"
      <4>1. HoldsLock(w)
        BY <1>0, <3>1 DEF HoldsLock
      <4>2. Type(v) # Type(w)
        BY <3>1, <4>1, LockExclusive
      <4>3. Type(v) \in Types
        BY <2>0, <3>1, WorkerKeyType DEF WorkerInv, JobInv, HoldsLock
      <4>4. QED
        BY <4>2, <4>3, CommitEffect
    <3>2. CASE HoldsLock(v) /\ decided[w] # "SUCCESS"
      <4>1. Type(v) \in Types
        BY <2>0, <3>2, WorkerKeyType DEF WorkerInv, JobInv, HoldsLock
      <4>2. QED
        BY <3>2, <4>1, CommitEffect
    <3>3. QED
      BY <3>1, <3>2
  <2>2. pc[v] = "markSoldOut" /\ v \notin overtaken
           => available'[Type(v)] = available[Type(v)]
    <3>1. SUFFICES ASSUME pc[v] = "markSoldOut", v \notin overtaken
                   PROVE  available'[Type(v)] = available[Type(v)]
      OBVIOUS
    <3>2. Type(v) \in Types /\ available[Type(v)] = 0
      BY <2>0, <3>1, WorkerKeyType DEF WorkerInv, JobInv, AfterInv
    <3>3. Type(v) # Type(w) \/ decided[w] # "SUCCESS"
      BY <3>2, CommitEffect
    <3>4. QED
      BY <3>2, <3>3, CommitEffect
  <2>3. pc[v] \in {"outbox", "commit"} => ~ HasRow(Key(v))'
    <3>1. SUFFICES ASSUME pc[v] \in {"outbox", "commit"}
                   PROVE  ~ HasRow(Key(v))'
      OBVIOUS
    <3>2. Key(v) \in Keys /\ tx[v].row # "none" /\ ~ HasRow(Key(v))
      BY <2>0, <3>1, WorkerKeyType DEF WorkerInv, JobInv, WriteInv
    <3>3. tx[w].row # "none"
      BY <1>0 DEF IInv, WorkerInv, WriteInv
    <3>4. Key(v) # Key(w)
      BY <3>2, <3>3 DEF IInv, UniqueInv
    <3>5. Key(v)' = Key(v)
      BY <1>0 DEF Key, Req
    <3>6. coupon'[Key(v)] = coupon[Key(v)]
      BY <3>2, <3>4, CommitEffect
    <3>7. QED
      BY <3>2, <3>5, <3>6 DEF HasRow
  <2>4. QED
    BY <1>1, <1>4, <2>0, <2>1, <2>2, <2>3, StandingWorker
<1>6. WorkerInv(w)'
  <2>1. HasRow(Key(w))'
    BY CommitEffect
  <2>2. QED
    BY <1>0, <1>2, <2>1 DEF WorkerInv, JobInv, LockInv, HoldsLock, WriteInv, AfterInv,
       NotOvertaken
<1>7. UniqueInv'
  <2> SUFFICES ASSUME NEW u \in Workers, NEW v \in Workers, u # v,
                      tx'[u].row # "none", tx'[v].row # "none"
               PROVE  Key(u)' # Key(v)'
    BY DEF UniqueInv
  <2>1. u # w /\ v # w
    BY <1>2 DEF NoWrites
  <2>2. tx'[u] = tx[u] /\ tx'[v] = tx[v] /\ Key(u)' = Key(u) /\ Key(v)' = Key(v)
    BY <1>0, <1>1, <2>1 DEF OthersKept, Key, Req
  <2>3. QED
    BY <2>2 DEF IInv, UniqueInv
<1>8. NoSilentLoss'
  <2> SUFFICES ASSUME NEW m \in acked' \ skipped'
               PROVE  HasRow(KeyOf(RequestOf[m]))'
    BY DEF NoSilentLoss
  <2>1. m \in acked \ skipped /\ m \in Records
    BY <1>0 DEF TypeOK
  <2>2. KeyOf(RequestOf[m]) \in Keys
    BY <2>1, KeyOfType, ProcessorAssumption
  <2>3. QED
    BY <1>4, <2>1, <2>2 DEF IInv, NoSilentLoss
<1>9. NeverShrinks'
  BY DEF IInv, NeverShrinks, NotOvertaken
<1>10. QED
  BY <1>5, <1>6, <1>7, <1>8, <1>9 DEF IInv
-----------------------------------------------------------------------------
\* Every step of a worker's delivery keeps the invariant.
LEMMA ProcessStep ==
    ASSUME TypeOK, IInv, NEW w \in Workers, Process(w)
    PROVE  IInv'
<1> USE DEF store, GoTo
<1>0. WorkerInv(w) /\ pc[w] # "idle" /\ job[w] \in Records
  BY DEF Process, IInv, WorkerInv, JobInv, CheckExists, CheckEvent, EventNotFound,
     FindForUpdate, InventoryNotFound, Decrement, InsertRow, InsertDuplicate,
     InsertSamePlaceholder, AppendOutbox, Commit, ApplyWrites, FreshRead, MarkSoldOut,
     Acknowledge
<1>k. Req(w) \in Requests /\ Key(w) \in Keys /\ Type(w) \in Types
  BY <1>0, WorkerKeyType
<1>o. NotOvertaken(w) /\ w \notin overtaken'
  BY WorkerOvertaken DEF NotOvertaken
<1>1. CASE CheckExists(w)
  <2>1. OthersKept(w) /\ coupon' = coupon /\ available' = available
        /\ skipped' = skipped /\ acked' = acked /\ tx' = tx /\ job' = job
    BY <1>1 DEF CheckExists, OthersKept, TypeOK
  <2>2. tx[w] = NoWrites /\ decided' = decided /\ decided[w] = "none"
    BY <1>0, <1>1 DEF CheckExists, WorkerInv, WriteInv
  <2>3. pc'[w] = IF HasRow(Key(w)) THEN "ack" ELSE "event"
    BY <1>1 DEF CheckExists, TypeOK
  <2>4. WorkerInv(w)'
    BY <1>0, <1>o, <2>1, <2>2, <2>3 DEF WorkerInv, JobInv, LockInv, HoldsLock, WriteInv, AfterInv,
       HasRow, Key, Req
  <2>5. QED
    BY <1>o, <2>1, <2>2, <2>4, LocalStep DEF NoWrites
<1>2. CASE CheckEvent(w)
  <2>1. OthersKept(w) /\ coupon' = coupon /\ available' = available
        /\ skipped' = skipped /\ acked' = acked /\ tx' = tx /\ job' = job
    BY <1>2 DEF CheckEvent, OthersKept, TypeOK
  <2>2. tx[w] = NoWrites /\ decided[w] = "none"
    BY <1>0, <1>2 DEF CheckEvent, WorkerInv, WriteInv
  <2>3. \/ pc'[w] = "lock" /\ decided'[w] = "none"
        \/ pc'[w] = "insert" /\ decided'[w] = "FAILED"
    BY <1>2, <2>2 DEF CheckEvent, TypeOK
  <2>4. WorkerInv(w)'
    BY <1>0, <1>o, <2>1, <2>2, <2>3 DEF WorkerInv, JobInv, LockInv, HoldsLock, WriteInv, AfterInv,
       NoWrites
  <2>5. QED
    BY <1>o, <2>1, <2>2, <2>4, LocalStep DEF NoWrites
<1>3. CASE EventNotFound(w) \/ InventoryNotFound(w) \/ InsertSamePlaceholder(w)
  BY <1>o, <1>0, <1>3, ThrowStep DEF EventNotFound, InventoryNotFound, InsertSamePlaceholder
<1>4. CASE FindForUpdate(w)
  <2>1. OthersKept(w) /\ coupon' = coupon /\ available' = available
        /\ skipped' = skipped /\ acked' = acked /\ tx' = tx /\ job' = job
    BY <1>4, ProcessorAssumption DEF FindForUpdate, OthersKept, TypeOK
  <2>2. tx[w] = NoWrites /\ decided[w] = "none" /\ decided' = decided
    BY <1>0, <1>4 DEF FindForUpdate, WorkerInv, WriteInv
  <2>3. pc'[w] = "decrement" /\ lock'[Type(w)] = w /\ inventory'[w] = available[Type(w)]
    BY <1>4, <1>k DEF FindForUpdate, TypeOK
  <2>4. WorkerInv(w)'
    BY <1>0, <1>o, <2>1, <2>2, <2>3 DEF WorkerInv, JobInv, LockInv, HoldsLock, WriteInv, AfterInv,
       Type, Req
  <2>5. QED
    BY <1>o, <2>1, <2>2, <2>4, LocalStep DEF NoWrites
<1>5. CASE Decrement(w)
  <2>1. OthersKept(w) /\ coupon' = coupon /\ available' = available
        /\ skipped' = skipped /\ acked' = acked /\ job' = job
        /\ lock' = lock /\ inventory' = inventory
    BY <1>5 DEF Decrement, OthersKept, TypeOK
  <2>2. /\ tx[w] = NoWrites /\ lock[Type(w)] = w /\ inventory[w] = available[Type(w)]
        /\ inventory[w] \in Nat
    BY <1>0, <1>5 DEF Decrement, WorkerInv, WriteInv, LockInv, HoldsLock, TypeOK
  <2>3. /\ pc'[w] = "insert" /\ tx'[w].row = "none"
        /\ \/ decided'[w] = "SUCCESS" /\ inventory[w] > 0 /\ tx'[w].count = inventory[w] - 1
           \/ decided'[w] = "SOLD_OUT" /\ inventory[w] = 0 /\ tx'[w].count = Unwritten
    <3>1. CASE inventory[w] > 0
      <4>1. tx' = [tx EXCEPT ![w].count = inventory[w] - 1]
            /\ decided' = [decided EXCEPT ![w] = "SUCCESS"] /\ pc' = [pc EXCEPT ![w] = "insert"]
        BY <1>5, <3>1 DEF Decrement
      <4>2. tx'[w].row = "none" /\ tx'[w].count = inventory[w] - 1
        BY <2>2, <4>1 DEF TypeOK, NoWrites
      <4>3. QED
        BY <3>1, <4>1, <4>2 DEF TypeOK
    <3>2. CASE ~ (inventory[w] > 0)
      BY <1>5, <2>2, <3>2 DEF Decrement, TypeOK, NoWrites
    <3>3. QED
      BY <3>1, <3>2
  <2>4. WorkerInv(w)'
    BY <1>0, <1>o, <2>1, <2>2, <2>3 DEF WorkerInv, JobInv, LockInv, HoldsLock, WriteInv, AfterInv,
       Type, Req
  <2>5. QED
    BY <1>o, <2>1, <2>3, <2>4, LocalStep
<1>6. CASE InsertRow(w)
  <2>1. OthersKept(w) /\ coupon' = coupon /\ available' = available
        /\ skipped' = skipped /\ acked' = acked /\ job' = job
        /\ lock' = lock /\ inventory' = inventory /\ decided' = decided
    BY <1>6 DEF InsertRow, OthersKept, TypeOK
  <2>2. /\ pc'[w] = "outbox" /\ tx'[w].row = decided[w] /\ tx'[w].count = tx[w].count
        /\ ~ HasRow(Key(w)) /\ ~ RowPending(w) /\ pc[w] = "insert"
    BY <1>6 DEF InsertRow, TypeOK
  <2>3. WorkerInv(w)'
    BY <1>0, <1>o, <2>1, <2>2 DEF WorkerInv, JobInv, LockInv, HoldsLock, WriteInv, AfterInv,
       HasRow, Key, Type, Req
  <2>4. QED
    BY <1>o, <2>1, <2>2, <2>3, LocalStep
<1>7. CASE InsertDuplicate(w)
  <2>1. /\ EndTransaction(w) /\ coupon' = coupon /\ available' = available
        /\ skipped' = skipped /\ acked' = acked /\ job' = job
        /\ pc' = [pc EXCEPT ![w] = "ack"] /\ HasRow(Key(w))
    BY <1>7 DEF InsertDuplicate
  <2>2. OthersKept(w) /\ pc'[w] = "ack"
    BY <2>1, EndEffect DEF OthersKept, TypeOK
  <2>3. tx'[w] = NoWrites /\ decided'[w] = "none"
    BY <2>1, EndEffect
  <2>4. WorkerInv(w)'
    BY <1>0, <1>o, <2>1, <2>2, <2>3 DEF WorkerInv, JobInv, LockInv, HoldsLock, WriteInv, AfterInv,
       HasRow, Key, Req
  <2>5. QED
    BY <1>o, <2>1, <2>2, <2>3, <2>4, LocalStep DEF NoWrites
<1>8. CASE AppendOutbox(w)
  <2>1. OthersKept(w) /\ coupon' = coupon /\ available' = available
        /\ skipped' = skipped /\ acked' = acked /\ job' = job
        /\ lock' = lock /\ inventory' = inventory /\ decided' = decided
    BY <1>8 DEF AppendOutbox, OthersKept, TypeOK
  <2>2. /\ pc'[w] = "commit" /\ tx'[w].event = decided[w] /\ tx'[w].count = tx[w].count
        /\ tx'[w].row = tx[w].row /\ pc[w] = "outbox"
    BY <1>8 DEF AppendOutbox, TypeOK
  <2>3. tx[w].row = decided[w] /\ decided[w] # "none"
    BY <1>0, <1>o, <2>2 DEF WorkerInv, WriteInv
  <2>4. WorkerInv(w)'
    BY <1>0, <1>o, <2>1, <2>2 DEF WorkerInv, JobInv, LockInv, HoldsLock, WriteInv, AfterInv,
       HasRow, Key, Type, Req
  <2>5. QED
    BY <1>o, <2>1, <2>2, <2>3, <2>4, LocalStep
<1>9. CASE Commit(w)
  <2>1. ApplyWrites(w) /\ skipped' = skipped
        /\ pc' = [pc EXCEPT ![w] = IF decided[w] = "FAILED" THEN "ack" ELSE "freshRead"]
    BY <1>9 DEF Commit
  <2>2. /\ \A v \in Workers \ {w} : pc'[v] = pc[v]
        /\ pc'[w] \in {"freshRead", "ack"}
    BY <2>1 DEF TypeOK
  <2>3. QED
    BY <1>o, <1>0, <2>1, <2>2, CommitStep
<1>10. CASE FreshRead(w)
  <2>1. OthersKept(w) /\ coupon' = coupon /\ available' = available
        /\ skipped' = skipped /\ acked' = acked /\ tx' = tx /\ job' = job
    BY <1>10 DEF FreshRead, OthersKept, TypeOK
  <2>2. tx[w] = NoWrites /\ decided[w] = "none" /\ decided' = decided /\ HasRow(Key(w))
    BY <1>0, <1>10 DEF FreshRead, WorkerInv, WriteInv, AfterInv
  <2>3. pc'[w] = IF available[Type(w)] = 0 THEN "markSoldOut" ELSE "ack"
    BY <1>10 DEF FreshRead, TypeOK
  <2>4. WorkerInv(w)'
    BY <1>0, <1>o, <2>1, <2>2, <2>3 DEF WorkerInv, JobInv, LockInv, HoldsLock, WriteInv, AfterInv,
       HasRow, Key, Type, Req
  <2>5. QED
    BY <1>o, <2>1, <2>2, <2>4, LocalStep DEF NoWrites
<1>11. CASE MarkSoldOut(w)
  <2>1. OthersKept(w) /\ coupon' = coupon /\ available' = available
        /\ skipped' = skipped /\ acked' = acked /\ tx' = tx /\ job' = job
    BY <1>11 DEF MarkSoldOut, OthersKept, TypeOK
  <2>2. tx[w] = NoWrites /\ decided[w] = "none" /\ decided' = decided /\ HasRow(Key(w))
    BY <1>0, <1>11 DEF MarkSoldOut, WorkerInv, WriteInv, AfterInv
  <2>3. pc'[w] = "ack"
    BY <1>11 DEF MarkSoldOut, TypeOK
  <2>4. WorkerInv(w)'
    BY <1>0, <1>o, <2>1, <2>2, <2>3 DEF WorkerInv, JobInv, LockInv, HoldsLock, WriteInv, AfterInv,
       HasRow, Key, Type, Req
  <2>5. QED
    BY <1>o, <2>1, <2>2, <2>4, LocalStep DEF NoWrites
<1>12. CASE Acknowledge(w)
  <2>1. OthersKept(w) /\ coupon' = coupon /\ available' = available
        /\ skipped' = skipped /\ tx' = tx /\ acked' = acked \union {job[w]}
    BY <1>12 DEF Acknowledge, OthersKept, TypeOK
  <2>2. /\ tx[w] = NoWrites /\ decided[w] = "none" /\ decided' = decided
        /\ HasRow(Key(w)) \/ job[w] \in skipped
    BY <1>0, <1>12 DEF Acknowledge, WorkerInv, WriteInv, AfterInv
  <2>3. pc'[w] = "idle"
    BY <1>12 DEF Acknowledge, TypeOK
  <2>4. WorkerInv(w)'
    BY <1>o, <2>1, <2>2, <2>3, QuietWorker
  <2>5. \A m \in acked' \ skipped' : m \in acked \/ HasRow(KeyOf(RequestOf[m]))
    BY <2>1, <2>2 DEF Key, Req
  <2>6. QED
    BY <1>o, <2>1, <2>2, <2>4, <2>5, LocalStep DEF NoWrites
<1>13. QED
  BY <1>1, <1>2, <1>3, <1>4, <1>5, <1>6, <1>7, <1>8, <1>9, <1>10, <1>11, <1>12 DEF Process
-----------------------------------------------------------------------------
\* So does every fault.
LEMMA FaultStep ==
    ASSUME TypeOK, IInv, NEW w \in Workers, Faults(w)
    PROVE  IInv'
<1> USE DEF store, GoTo
<1>0. WorkerInv(w) /\ job[w] \in Records
  BY DEF Faults, IInv, WorkerInv, JobInv, StatementFails, InTransaction,
     CommitUnanswered, ApplyWrites, CacheFails, Crash
<1>o. NotOvertaken(w) /\ w \notin overtaken'
  BY WorkerOvertaken DEF NotOvertaken
<1>1. CASE StatementFails(w)
  BY <1>o, <1>0, <1>1, ThrowStep DEF StatementFails
<1>2. CASE CommitUnanswered(w)
  BY <1>o, <1>0, <1>2, RejectedEffect, CommitStep DEF CommitUnanswered
<1>3. CASE CacheFails(w)
  <2>1. OthersKept(w) /\ coupon' = coupon /\ available' = available
        /\ skipped' = skipped /\ acked' = acked /\ tx' = tx /\ job' = job
    BY <1>3 DEF CacheFails, OthersKept, TypeOK
  <2>2. tx[w] = NoWrites /\ decided[w] = "none" /\ decided' = decided /\ HasRow(Key(w))
    BY <1>0, <1>3 DEF CacheFails, WorkerInv, WriteInv, AfterInv
  <2>3. pc'[w] = "ack"
    BY <1>3 DEF CacheFails, TypeOK
  <2>4. WorkerInv(w)'
    BY <1>0, <1>o, <2>1, <2>2, <2>3 DEF WorkerInv, JobInv, LockInv, HoldsLock, WriteInv, AfterInv,
       HasRow, Key, Type, Req
  <2>5. QED
    BY <1>o, <2>1, <2>2, <2>4, LocalStep DEF NoWrites
<1>4. CASE Crash(w)
  <2>1. /\ EndTransaction(w) /\ coupon' = coupon /\ available' = available
        /\ skipped' = skipped /\ acked' = acked /\ job' = [job EXCEPT ![w] = NoRecord]
        /\ pc' = [pc EXCEPT ![w] = "idle"]
    BY <1>4 DEF Crash
  <2>2. OthersKept(w) /\ pc'[w] = "idle"
    BY <2>1, EndEffect DEF OthersKept, TypeOK
  <2>3. tx'[w] = NoWrites /\ decided'[w] = "none"
    BY <2>1, EndEffect
  <2>4. WorkerInv(w)'
    BY <1>o, <2>2, <2>3, QuietWorker
  <2>5. QED
    BY <1>o, <2>1, <2>2, <2>3, <2>4, LocalStep DEF NoWrites
<1>5. QED
  BY <1>1, <1>2, <1>3, <1>4 DEF Faults

LEMMA DeliverStep ==
    ASSUME TypeOK, IInv, NEW w \in Workers, NEW m \in Records, Deliver(w, m)
    PROVE  IInv'
<1> USE DEF store, GoTo
<1>o. NotOvertaken(w)
  BY WorkerOvertaken
<1>1. OthersKept(w) /\ coupon' = coupon /\ available' = available
      /\ skipped' = skipped /\ acked' = acked /\ tx' = tx /\ decided' = decided
  BY DEF Deliver, OthersKept, TypeOK
<1>2. tx[w] = NoWrites /\ decided[w] = "none"
  BY DEF Deliver, IInv, WorkerInv, WriteInv
<1>3. pc'[w] = "exists" /\ job'[w] = m
  BY DEF Deliver, TypeOK
<1>4. WorkerInv(w)'
  BY <1>o, <1>1, <1>2, <1>3, QuietWorker
<1>5. QED
  BY <1>o, <1>1, <1>2, <1>4, LocalStep DEF NoWrites

\* The environment touches nothing the invariant speaks of.
LEMMA EnvironmentStep ==
    ASSUME IInv, UNCHANGED <<coupon, available, total, lock, acked, skipped, worker, overtaken>>
    PROVE  IInv'
BY DEF worker, IInv, WorkerInv, JobInv, LockInv, HoldsLock, WriteInv, AfterInv, UniqueInv,
   NoSilentLoss, NeverShrinks, HasRow, Key, Type, Req

\* A restock waits for whoever works on the count, and overtakes whoever has
\* read that it is 0.
LEMMA RestockStep ==
    ASSUME TypeOK, IInv, NEW s \in Types, Restock(s)
    PROVE  IInv'
<1>1. PICK n \in Nat : /\ n > 0
                       /\ available' = [available EXCEPT ![s] = @ + n]
                       /\ total' = [total EXCEPT ![s] = @ + n]
  BY RestockEffect
<1>2. /\ coupon' = coupon /\ lock' = lock /\ acked' = acked /\ skipped' = skipped
      /\ pc' = pc /\ job' = job /\ decided' = decided /\ inventory' = inventory /\ tx' = tx
      /\ lock[s] = NoWorker
      /\ overtaken' = overtaken \union {w \in Workers : pc[w] = "markSoldOut" /\ Type(w) = s}
  BY DEF Restock, worker
<1>3. NeverShrinks /\ \A t \in Types : total[t] \in Nat /\ Total[t] \in Nat /\ total[t] >= Total[t]
  BY IssuingAssumption DEF IInv, NeverShrinks, TypeOK
<1>4. /\ \A t \in Types : t # s => available'[t] = available[t] /\ total'[t] = total[t]
      /\ total'[s] = total[s] + n
  BY <1>1 DEF TypeOK
<1>5. total'[s] > Total[s]
  BY <1>1, <1>3, <1>4
<1>6. NeverShrinks'
  BY <1>3, <1>4, <1>5 DEF NeverShrinks
<1>7. ASSUME NEW w \in Workers
      PROVE  WorkerInv(w)'
  <2>0. /\ WorkerInv(w) /\ Key(w)' = Key(w) /\ Type(w)' = Type(w)
        /\ HoldsLock(w)' = HoldsLock(w)
        /\ pc[w] # "idle" => Type(w) \in Types
    BY <1>2, WorkerKeyType DEF IInv, WorkerInv, JobInv, Key, Type, Req, HoldsLock
  <2>1. JobInv(w)' /\ WriteInv(w)'
    BY <1>2, <2>0 DEF WorkerInv, JobInv, WriteInv, HasRow
  <2>2. LockInv(w)'
    <3>1. SUFFICES ASSUME HoldsLock(w)
                   PROVE  lock[Type(w)] = w /\ inventory[w] = available'[Type(w)]
      BY <1>2, <2>0 DEF LockInv
    <3>2. lock[Type(w)] = w /\ inventory[w] = available[Type(w)] /\ Type(w) \in Types
      BY <2>0, <3>1 DEF WorkerInv, LockInv, HoldsLock
    <3>3. Type(w) # s
      BY <1>2, <3>2, ProcessorAssumption
    <3>4. QED
      BY <1>4, <3>2, <3>3
  <2>3. AfterInv(w)'
    <3>1. pc[w] = "markSoldOut" => available'[Type(w)] = 0 \/ w \in overtaken'
      BY <1>2, <1>4, <2>0 DEF WorkerInv, AfterInv
    <3>2. w \in overtaken' => pc[w] = "markSoldOut" /\ total'[Type(w)] > Total[Type(w)]
      BY <1>2, <1>4, <1>5, <2>0 DEF WorkerInv, AfterInv
    <3>3. QED
      BY <1>2, <2>0, <3>1, <3>2 DEF WorkerInv, AfterInv, HasRow
  <2>4. QED
    BY <2>1, <2>2, <2>3 DEF WorkerInv
<1>8. UniqueInv' /\ NoSilentLoss'
  BY <1>2 DEF IInv, UniqueInv, NoSilentLoss, HasRow, Key, Req
<1>9. QED
  BY <1>6, <1>7, <1>8 DEF IInv

(* Types and the inductive invariant hold for ever: row lock, unique index *)
(* and write set keep any number of workers apart.                         *)
THEOREM Invariance == Spec => [](TypeOK /\ IInv)
<1>1. Init => TypeOK
  BY IssuingAssumption, ProcessorAssumption DEF Init, TypeOK, NoRow, NoWrites, Steps
<1>2. Init => IInv
  BY IssuingAssumption DEF Init, IInv, WorkerInv, JobInv, LockInv, HoldsLock, WriteInv,
     AfterInv, UniqueInv, NoSilentLoss, NeverShrinks, NoWrites
<1>3. TypeOK /\ IInv /\ [Next]_vars => (TypeOK /\ IInv)'
  <2> SUFFICES ASSUME TypeOK, IInv, [Next]_vars
               PROVE  IInv'
    BY TypeStep
  <2>1. ASSUME NEW t \in Types, ClockPasses(t) \/ KeyExpires(t)
        PROVE  IInv'
    BY <2>1, EnvironmentStep DEF ClockPasses, KeyExpires, store, worker, history
  <2>2. CASE Drained \/ UNCHANGED vars
    BY <2>2, EnvironmentStep DEF Drained, vars, store, worker, history
  <2>3. QED
    BY <2>1, <2>2, ProcessStep, FaultStep, DeliverStep, RestockStep, NextCases
<1>4. QED
  BY <1>1, <1>2, <1>3, PTL DEF Spec
-----------------------------------------------------------------------------
\* A COMMIT is one of the three atomic conclusions.
LEMMA CommitRefines ==
    ASSUME TypeOK, IInv, NEW w \in Workers, job[w] \in Records, ApplyWrites(w)
    PROVE  Abs!Next
<1>1. Req(w) \in Requests
  BY WorkerKeyType
<1>2. soldOutKey' = soldOutKey /\ total' = total
  BY DEF ApplyWrites
<1>3. Abs!Record(Req(w), decided[w])
  BY <1>2, CommitEffect DEF Abs!Record, Abs!HasRow, HasRow, Abs!KeyOf, KeyOf, Key
<1>4. CASE decided[w] = "SUCCESS"
  BY <1>1, <1>3, <1>4, CommitEffect DEF Abs!Next, Abs!Issue, Type
<1>5. CASE decided[w] = "SOLD_OUT"
  BY <1>1, <1>3, <1>5, CommitEffect DEF Abs!Next, Abs!RefuseSoldOut, Type
<1>6. CASE decided[w] = "FAILED"
  BY <1>1, <1>3, <1>6, CommitEffect DEF Abs!Next, Abs!RefuseInactive
<1>7. QED
  BY <1>4, <1>5, <1>6, CommitEffect DEF Statuses

LEMMA StepRefines ==
    ASSUME TypeOK, IInv, [Next]_vars
    PROVE  [Abs!Next]_Abs!vars
<1> USE DEF store, GoTo
<1>1. ASSUME NEW w \in Workers, ApplyWrites(w)
      PROVE  Abs!Next
  <2>1. job[w] \in Records
    BY <1>1 DEF ApplyWrites, IInv, WorkerInv, JobInv
  <2>2. QED
    BY <1>1, <2>1, CommitRefines
<1>2. ASSUME NEW w \in Workers, MarkSoldOut(w)
      PROVE  Abs!Next
  <2>1. Type(w) \in Types /\ (available[Type(w)] = 0 \/ total[Type(w)] > Total[Type(w)])
    BY <1>2, WorkerKeyType DEF MarkSoldOut, IInv, WorkerInv, JobInv, AfterInv
  <2>2. Abs!HintSoldOut(Type(w))
    BY <1>2, <2>1 DEF MarkSoldOut, Abs!HintSoldOut, Abs!Restocked
  <2>3. QED
    BY <2>1, <2>2 DEF Abs!Next
<1>3. ASSUME NEW t \in Types, KeyExpires(t)
      PROVE  Abs!Next
  BY <1>3 DEF KeyExpires, Abs!Next, Abs!ForgetHint
<1>4. ASSUME NEW w \in Workers, Process(w)
      PROVE  [Abs!Next]_Abs!vars
  <2>1. CASE Commit(w)
    BY <1>1, <2>1 DEF Commit
  <2>2. CASE MarkSoldOut(w)
    BY <1>2, <2>2
  <2>3. CASE UNCHANGED store
    BY <2>3 DEF Abs!vars
  <2>4. QED
    BY <1>4, <2>1, <2>2, <2>3 DEF Process, CheckExists, CheckEvent, EventNotFound,
       FindForUpdate, InventoryNotFound, Decrement, InsertRow, InsertDuplicate,
       InsertSamePlaceholder, AppendOutbox, FreshRead, Acknowledge, Throw
<1>5. ASSUME NEW w \in Workers, Faults(w)
      PROVE  [Abs!Next]_Abs!vars
  <2>1. CASE CommitUnanswered(w)
    BY <1>1, <2>1 DEF CommitUnanswered
  <2>2. CASE UNCHANGED store
    BY <2>2 DEF Abs!vars
  <2>3. QED
    BY <1>5, <2>1, <2>2 DEF Faults, StatementFails, CacheFails, Crash, Throw
<1>6. ASSUME NEW w \in Workers, NEW m \in Records, Deliver(w, m)
      PROVE  UNCHANGED Abs!vars
  BY <1>6 DEF Deliver, Abs!vars
<1>7. ASSUME NEW t \in Types, ClockPasses(t)
      PROVE  UNCHANGED Abs!vars
  BY <1>7 DEF ClockPasses, Abs!vars
<1>8. CASE Drained \/ UNCHANGED vars
  BY <1>8 DEF Drained, vars, Abs!vars
<1>9. ASSUME NEW t \in Types, Restock(t)
      PROVE  Abs!Next
  BY <1>9 DEF Restock, Abs!Next, Abs!Restock
<1>10. QED
  BY <1>3, <1>4, <1>5, <1>6, <1>7, <1>8, <1>9, NextCases

(* The interleaved, failing, retried transactions implement the atomic     *)
(* issuing: every step is one conclusion as a whole or changes nothing.    *)
THEOREM Refinement == Spec => ImplementsCouponIssuing
<1>1. Init => Abs!Init
  BY DEF Init, Abs!Init, Keys, Abs!Keys, NoRow, Abs!NoRow
<1>2. TypeOK /\ IInv /\ [Next]_vars => [Abs!Next]_Abs!vars
  BY StepRefines
<1>3. QED
  BY <1>1, <1>2, Invariance, PTL DEF Spec, ImplementsCouponIssuing, Abs!Spec
-----------------------------------------------------------------------------
(* A committed row is never replaced.                                      *)
THEOREM FinalRows == Spec => RowsAreFinal
<1>1. TypeOK /\ IInv /\ [Next]_vars
        => [\A k \in Keys : HasRow(k) => coupon'[k] = coupon[k]]_coupon
  <2> SUFFICES ASSUME TypeOK, IInv, [Next]_vars
               PROVE  (\A k \in Keys : HasRow(k) => coupon'[k] = coupon[k]) \/ coupon' = coupon
    OBVIOUS
  <2>1. ASSUME NEW w \in Workers, ApplyWrites(w)
        PROVE  \A k \in Keys : HasRow(k) => coupon'[k] = coupon[k]
    <3>1. job[w] \in Records
      BY <2>1 DEF ApplyWrites, IInv, WorkerInv, JobInv
    <3>2. QED
      BY <2>1, <3>1, CommitEffect
  <2>2. ASSUME NEW w \in Workers, Process(w), ~ ApplyWrites(w)
        PROVE  coupon' = coupon
    BY <2>2 DEF store, Process, CheckExists, CheckEvent, EventNotFound,
       FindForUpdate, InventoryNotFound, Decrement, InsertRow, InsertDuplicate,
       InsertSamePlaceholder, AppendOutbox, FreshRead, Acknowledge, Throw, Commit, MarkSoldOut
  <2>3. ASSUME NEW w \in Workers, Faults(w), ~ ApplyWrites(w)
        PROVE  coupon' = coupon
    BY <2>3 DEF store, Faults, StatementFails, CacheFails, Crash, Throw, CommitUnanswered
  <2>4. ASSUME NEW w \in Workers, NEW m \in Records, Deliver(w, m)
        PROVE  coupon' = coupon
    BY <2>4 DEF Deliver, store
  <2>5. ASSUME NEW t \in Types, ClockPasses(t) \/ KeyExpires(t) \/ Restock(t)
        PROVE  coupon' = coupon
    BY <2>5 DEF ClockPasses, KeyExpires, Restock, store
  <2>6. CASE Drained \/ UNCHANGED vars
    BY <2>6 DEF Drained, vars, store
  <2>7. QED
    BY <2>1, <2>2, <2>3, <2>4, <2>5, <2>6, NextCases
<1>2. QED
  BY <1>1, Invariance, PTL DEF Spec, RowsAreFinal

(* No acknowledged record is lost without a row or a give-up.              *)
THEOREM NoLoss == Spec => []NoSilentLoss
<1>1. IInv => NoSilentLoss
  BY DEF IInv
<1>2. QED
  BY <1>1, Invariance, PTL

(* A worker past the locking read works on the committed count.            *)
THEOREM CurrentCount == Spec => []CountIsCurrent
<1>1. IInv => CountIsCurrent
  BY DEF IInv, WorkerInv, LockInv, HoldsLock, CountIsCurrent
<1>2. QED
  BY <1>1, Invariance, PTL
-----------------------------------------------------------------------------
\* What CouponIssuingProofs proves of the atomic specification holds of the
\* processor through the refinement; P names that module's theorems, over the
\* same variables.
P == INSTANCE CouponIssuingProofs

LEMMA SameFinite == P!IsFiniteSet(Users)
BY IssuingAssumption DEF IsFiniteSet, P!IsFiniteSet

LEMMA SameInit == Abs!Init <=> P!Init
BY DEF Abs!Init, P!Init, Abs!Keys, P!Keys, Abs!NoRow, P!NoRow

LEMMA SameNext == [Abs!Next]_Abs!vars <=> [P!Next]_P!vars
<1>1. Abs!vars = P!vars /\ (Abs!vars' = P!vars')
  BY DEF Abs!vars, P!vars
<1>2. \A r, s : Abs!Record(r, s) <=> P!Record(r, s)
  BY DEF Abs!Record, P!Record, Abs!HasRow, P!HasRow, Abs!KeyOf, P!KeyOf
<1>3. Abs!Next <=> P!Next
  BY <1>2 DEF Abs!Next, P!Next, Abs!Issue, P!Issue, Abs!RefuseSoldOut, P!RefuseSoldOut,
     Abs!RefuseInactive, P!RefuseInactive, Abs!HintSoldOut, P!HintSoldOut,
     Abs!ForgetHint, P!ForgetHint, Abs!Restock, P!Restock, Abs!Restocked, P!Restocked
<1>4. QED
  BY <1>1, <1>3

LEMMA Promised == Spec => P!Spec
<1>1. QED
  BY SameInit, SameNext, Refinement, PTL DEF ImplementsCouponIssuing, Abs!Spec, P!Spec

(* The stock is conserved by the interleaved transactions.                 *)
THEOREM StockConserved == Spec => []InventoryConserved
<1>1. P!InventoryConserved <=> InventoryConserved
  BY DEF InventoryConserved, P!InventoryConserved, Abs!InventoryConserved,
     P!Issued, Abs!Issued, Abs!Cardinality, P!Cardinality
<1>2. P!Spec => []P!InventoryConserved
  BY P!Conserved, IssuingAssumption, SameFinite
<1>3. QED
  BY <1>1, <1>2, Promised, PTL

(* Every row has its one result in the outbox, and no other result exists. *)
THEOREM ResultsRecordedOnce == Spec => []ResultRecordedOnce
<1>1. P!ResultRecordedOnce <=> ResultRecordedOnce
  BY DEF ResultRecordedOnce, P!ResultRecordedOnce, Abs!ResultRecordedOnce,
     P!HasRow, Abs!HasRow, P!KeyOf, Abs!KeyOf, P!Keys, Abs!Keys
<1>2. P!Spec => []P!ResultRecordedOnce
  BY P!RecordedOnce, IssuingAssumption, SameFinite
<1>3. QED
  BY <1>1, <1>2, Promised, PTL

(* "Sold out" is said, by row or negative key, only while the stock is     *)
(* gone, or by a worker that a restock overtook between its two steps.     *)
THEOREM SoldOutOnlyWhenGone == Spec => SoldOutTruthful
<1> DEFINE Row(k)    == coupon'[k].status = "SOLD_OUT" /\ coupon[k].status # "SOLD_OUT"
           RowTrue   == \A k \in Keys : Row(k) => available[k[2]] = 0
           Hint(t)   == soldOutKey'[t] /\ ~ soldOutKey[t]
           HintTrue  == \A t \in Types : Hint(t) => available[t] = 0
                                             \/ \E w \in overtaken : Type(w) = t
<1>1. TypeOK /\ IInv /\ [Next]_vars => (RowTrue /\ HintTrue) \/ UNCHANGED store
  <2> SUFFICES ASSUME TypeOK, IInv, [Next]_vars
               PROVE  (RowTrue /\ HintTrue) \/ UNCHANGED store
    OBVIOUS
  <2> USE DEF GoTo
  <2>1. ASSUME NEW w \in Workers, ApplyWrites(w)
        PROVE  RowTrue /\ HintTrue
    <3>1. job[w] \in Records
      BY <2>1 DEF ApplyWrites, IInv, WorkerInv, JobInv
    <3>2. /\ \A k \in Keys : k # Key(w) => coupon'[k] = coupon[k]
          /\ coupon'[Key(w)].status = decided[w]
          /\ decided[w] = "SOLD_OUT" => available[Type(w)] = 0
          /\ Key(w)[2] = Type(w)
      <4>1. coupon' = [coupon EXCEPT ![Key(w)] = [status |-> decided[w], request |-> Req(w)]]
        BY <2>1, <3>1, CommitEffect
      <4>2. coupon'[Key(w)].status = decided[w]
        BY <3>1, <4>1, WorkerKeyType DEF TypeOK
      <4>3. Key(w)[2] = Type(w)
        BY DEF Key, KeyOf, Type
      <4>4. QED
        BY <2>1, <3>1, <4>2, <4>3, CommitEffect
    <3>3. RowTrue
      BY <3>2
    <3>4. HintTrue
      BY <2>1 DEF ApplyWrites
    <3>5. QED
      BY <3>3, <3>4
  <2>2. ASSUME NEW w \in Workers, MarkSoldOut(w)
        PROVE  RowTrue /\ HintTrue
    <3>1. Type(w) \in Types /\ (available[Type(w)] = 0 \/ w \in overtaken)
      BY <2>2, WorkerKeyType DEF MarkSoldOut, IInv, WorkerInv, JobInv, AfterInv
    <3>2. HintTrue
      BY <2>2, <3>1 DEF MarkSoldOut, TypeOK
    <3>3. QED
      BY <2>2, <3>2 DEF MarkSoldOut
  <2>3. ASSUME NEW w \in Workers, Process(w)
        PROVE  (RowTrue /\ HintTrue) \/ UNCHANGED store
    <3>1. CASE Commit(w)
      BY <2>1, <3>1 DEF Commit
    <3>2. CASE MarkSoldOut(w)
      BY <2>2, <3>2
    <3>3. CASE UNCHANGED store
      BY <3>3
    <3>4. QED
      BY <2>3, <3>1, <3>2, <3>3 DEF Process, CheckExists, CheckEvent, EventNotFound,
         FindForUpdate, InventoryNotFound, Decrement, InsertRow, InsertDuplicate,
         InsertSamePlaceholder, AppendOutbox, FreshRead, Acknowledge, Throw
  <2>4. ASSUME NEW w \in Workers, Faults(w)
        PROVE  (RowTrue /\ HintTrue) \/ UNCHANGED store
    <3>1. CASE CommitUnanswered(w)
      BY <2>1, <3>1 DEF CommitUnanswered
    <3>2. CASE UNCHANGED store
      BY <3>2
    <3>3. QED
      BY <2>4, <3>1, <3>2 DEF Faults, StatementFails, CacheFails, Crash, Throw
  <2>5. ASSUME NEW w \in Workers, NEW m \in Records, Deliver(w, m)
        PROVE  UNCHANGED store
    BY <2>5 DEF Deliver
  <2>6. ASSUME NEW t \in Types, ClockPasses(t) \/ KeyExpires(t) \/ Restock(t)
        PROVE  (RowTrue /\ HintTrue) \/ UNCHANGED store
    <3>1. CASE ClockPasses(t)
      BY <3>1 DEF ClockPasses
    <3>2. CASE KeyExpires(t)
      BY <3>2 DEF KeyExpires, TypeOK
    <3>3. CASE Restock(t)
      BY <3>3 DEF Restock
    <3>4. QED
      BY <2>6, <3>1, <3>2, <3>3
  <2>7. CASE Drained \/ UNCHANGED vars
    BY <2>7 DEF Drained, vars
  <2>8. QED
    BY <2>3, <2>4, <2>5, <2>6, <2>7, NextCases
<1>2. QED
  BY <1>1, Invariance, PTL DEF Spec, SoldOutTruthful

(* The processor's state is well typed: in particular no interleaving of   *)
(* absolute-value UPDATEs drives the stock below zero.                     *)
THEOREM TypeCorrect == Spec => []TypeOK
BY Invariance, PTL
-----------------------------------------------------------------------------
\* Waiting.  A transaction waits in two places: for the row lock of its
\* inventory, and at the INSERT for an uncommitted row of its own key.
AwaitsLock(w) == pc[w] = "lock" /\ Req(w) \notin UnknownType /\ lock[Type(w)] # NoWorker
AwaitsKey(w)  == pc[w] = "insert" /\ ~ HasRow(Key(w)) /\ RowPending(w)
Waits(w)      == AwaitsLock(w) \/ AwaitsKey(w)

\* v is what w waits for.
Blocks(v, w) ==
    \/ AwaitsLock(w) /\ lock[Type(w)] = v
    \/ AwaitsKey(w) /\ v # w /\ tx[v].row # "none" /\ Key(v) = Key(w)

\* The statements a transaction still runs once it is past a wait.
Past(s) == IF s = "lock" THEN {"decrement", "insert", "outbox", "commit"}
                         ELSE {"outbox", "commit"}

\* Whoever waits, waits for a live transaction that is further on than itself:
\* waiting never comes round in a circle.
WaitsForward ==
    \A w \in Workers : Waits(w) =>
       /\ \E v \in Workers : Blocks(v, w)
       /\ \A v \in Workers : Blocks(v, w) => pc[v] \in Past(pc[w])

\* However many wait, somebody has a statement to run.
SomebodyRuns ==
    (\E w \in Workers : Waits(w)) => \E w \in Workers : pc[w] \in InTransaction /\ ~ Waits(w)

\* A row lock is held by an open transaction on that row; none is orphaned.
LocksInv ==
    \A t \in Types : lock[t] # NoWorker => HoldsLock(lock[t]) /\ Type(lock[t]) = t

\* Only w moves, and its locks are those of its new position.
LEMMA LocksMove ==
    ASSUME TypeOK, LocksInv, NEW w \in Workers, OthersKept(w),
           \A t \in Types : \/ lock'[t] = w /\ HoldsLock(w)' /\ Type(w)' = t
                            \/ lock'[t] # w /\ lock'[t] \in {lock[t], NoWorker}
    PROVE  LocksInv'
<1> SUFFICES ASSUME NEW t \in Types, lock'[t] # NoWorker
             PROVE  HoldsLock(lock[t])' /\ Type(lock[t])' = t
  BY DEF LocksInv
<1>1. CASE lock'[t] = w
  BY <1>1 DEF HoldsLock, Type, Req
<1>2. CASE lock'[t] # w
  <2>1. lock'[t] = lock[t] /\ lock[t] \in Workers \ {w}
    BY <1>2 DEF TypeOK
  <2>2. HoldsLock(lock[t]) /\ Type(lock[t]) = t
    BY <2>1 DEF LocksInv
  <2>3. QED
    BY <2>1, <2>2 DEF OthersKept, HoldsLock, Type, Req
<1>3. QED
  BY <1>1, <1>2

\* The end of a transaction leaves w without locks.
LEMMA LocksEnd ==
    ASSUME TypeOK, LocksInv, NEW w \in Workers, OthersKept(w), EndTransaction(w)
    PROVE  LocksInv'
<1>1. \A t \in Types : lock'[t] # w /\ lock'[t] \in {lock[t], NoWorker}
  BY ProcessorAssumption DEF EndTransaction, Released, TypeOK
<1>2. QED
  BY <1>1, LocksMove

\* A statement that takes no lock, of a transaction that keeps what it holds.
LEMMA LocksStay ==
    ASSUME TypeOK, LocksInv, NEW w \in Workers, OthersKept(w), lock' = lock,
           HoldsLock(w) => HoldsLock(w)' /\ job' = job
    PROVE  LocksInv'
<1>1. ASSUME NEW t \in Types, lock[t] = w
      PROVE  HoldsLock(w)' /\ Type(w)' = t
  <2>1. HoldsLock(w) /\ Type(w) = t
    BY <1>1, ProcessorAssumption DEF LocksInv
  <2>2. QED
    BY <2>1 DEF Type, Req
<1>2. QED
  BY <1>1, LocksMove

LEMMA LocksStep == TypeOK /\ IInv /\ LocksInv /\ [Next]_vars => LocksInv'
<1> SUFFICES ASSUME TypeOK, IInv, LocksInv, [Next]_vars
             PROVE  LocksInv'
  OBVIOUS
<1> USE DEF store, GoTo
<1>1. ASSUME NEW w \in Workers, Throw(w)
      PROVE  LocksInv'
  <2>1. OthersKept(w) /\ EndTransaction(w)
    BY <1>1, EndEffect, RejectedEffect DEF Throw, OthersKept
  <2>2. QED
    BY <2>1, LocksEnd
<1>2. ASSUME NEW w \in Workers, Commit(w) \/ CommitUnanswered(w)
      PROVE  LocksInv'
  <2>1. EndTransaction(w) /\ job' = job /\ \A v \in Workers \ {w} : pc'[v] = pc[v]
    BY <1>2, RejectedEffect DEF Commit, CommitUnanswered, ApplyWrites, TypeOK
  <2>2. OthersKept(w)
    BY <2>1, EndEffect DEF OthersKept
  <2>3. QED
    BY <2>1, <2>2, LocksEnd
<1>3. ASSUME NEW w \in Workers, InsertDuplicate(w) \/ Crash(w)
      PROVE  LocksInv'
  <2>1. EndTransaction(w) /\ \A v \in Workers \ {w} : pc'[v] = pc[v] /\ job'[v] = job[v]
    BY <1>3 DEF InsertDuplicate, Crash, TypeOK
  <2>2. OthersKept(w)
    BY <2>1, EndEffect DEF OthersKept
  <2>3. QED
    BY <2>1, <2>2, LocksEnd
<1>4. ASSUME NEW w \in Workers, FindForUpdate(w)
      PROVE  LocksInv'
  <2>1. /\ pc[w] = "lock" /\ job[w] \in Records /\ pc'[w] = "decrement" /\ job' = job
        /\ lock' = [lock EXCEPT ![Type(w)] = w] /\ lock[Type(w)] = NoWorker
    BY <1>4 DEF FindForUpdate, IInv, WorkerInv, JobInv, TypeOK
  <2>2. Type(w) \in Types /\ Type(w)' = Type(w) /\ HoldsLock(w)' /\ ~ HoldsLock(w)
    BY <2>1, WorkerKeyType DEF HoldsLock, Type, Req
  <2>3. OthersKept(w)
    BY <1>4, <2>1, <2>2, ProcessorAssumption DEF FindForUpdate, OthersKept, TypeOK
  <2>4. \A t \in Types : lock[t] # w
    BY <2>2, ProcessorAssumption DEF LocksInv
  <2>5. QED
    BY <2>1, <2>2, <2>3, <2>4, LocksMove DEF TypeOK
<1>5. ASSUME NEW w \in Workers,
             CheckExists(w) \/ CheckEvent(w) \/ Decrement(w) \/ InsertRow(w) \/ AppendOutbox(w)
      PROVE  LocksInv'
  <2>1. OthersKept(w) /\ lock' = lock /\ job' = job
    BY <1>5 DEF CheckExists, CheckEvent, Decrement, InsertRow, AppendOutbox, OthersKept, TypeOK
  <2>2. HoldsLock(w) => HoldsLock(w)'
    BY <1>5 DEF CheckExists, CheckEvent, Decrement, InsertRow, AppendOutbox, HoldsLock, TypeOK
  <2>3. QED
    BY <2>1, <2>2, LocksStay
<1>6. ASSUME NEW w \in Workers, FreshRead(w) \/ MarkSoldOut(w) \/ CacheFails(w) \/ Acknowledge(w)
      PROVE  LocksInv'
  <2>1. OthersKept(w) /\ lock' = lock /\ ~ HoldsLock(w)
    BY <1>6 DEF FreshRead, MarkSoldOut, CacheFails, Acknowledge, OthersKept, HoldsLock, TypeOK
  <2>2. QED
    BY <2>1, LocksStay
<1>7. ASSUME NEW w \in Workers, NEW m \in Records, Deliver(w, m)
      PROVE  LocksInv'
  <2>1. OthersKept(w) /\ lock' = lock /\ ~ HoldsLock(w)
    BY <1>7 DEF Deliver, OthersKept, HoldsLock, TypeOK
  <2>2. QED
    BY <2>1, LocksStay
<1>8. ASSUME UNCHANGED <<lock, worker>>
      PROVE  LocksInv'
  BY <1>8 DEF worker, LocksInv, HoldsLock, Type, Req
<1>9. ASSUME NEW w \in Workers, Process(w) \/ Faults(w)
      PROVE  LocksInv'
  BY <1>1, <1>2, <1>3, <1>4, <1>5, <1>6, <1>9 DEF Process, Faults, EventNotFound,
     InventoryNotFound, InsertSamePlaceholder, StatementFails
<1>10. ASSUME NEW t \in Types, ClockPasses(t) \/ KeyExpires(t) \/ Restock(t)
       PROVE  LocksInv'
  BY <1>8, <1>10 DEF ClockPasses, KeyExpires, Restock
<1>11. CASE Drained \/ UNCHANGED vars
  BY <1>8, <1>11 DEF Drained, vars
<1>12. QED
  BY <1>7, <1>9, <1>10, <1>11, NextCases

(* A row lock always has its transaction: neither a rollback, a lost       *)
(* answer nor a crash leaves one behind that nobody will release.          *)
THEOREM NoOrphanedLock == Spec => []LocksInv
<1>1. Init => LocksInv
  BY DEF Init, LocksInv
<1>2. QED
  BY <1>1, LocksStep, Invariance, PTL DEF Spec

LEMMA ForwardOnly == TypeOK /\ IInv /\ LocksInv => WaitsForward
<1> SUFFICES ASSUME TypeOK, IInv, LocksInv, NEW w \in Workers, Waits(w)
             PROVE  /\ \E v \in Workers : Blocks(v, w)
                    /\ \A v \in Workers : Blocks(v, w) => pc[v] \in Past(pc[w])
  BY DEF WaitsForward
<1>1. CASE AwaitsLock(w)
  <2>1. job[w] \in Records
    BY <1>1 DEF AwaitsLock, IInv, WorkerInv, JobInv
  <2>2. Type(w) \in Types
    BY <2>1, WorkerKeyType
  <2>3. lock[Type(w)] \in Workers /\ HoldsLock(lock[Type(w)])
    BY <1>1, <2>2 DEF AwaitsLock, TypeOK, LocksInv
  <2>4. QED
    BY <1>1, <2>3 DEF AwaitsLock, AwaitsKey, Blocks, HoldsLock, Past
<1>2. CASE AwaitsKey(w)
  <2>1. \A v \in Workers : tx[v].row # "none" => pc[v] \in {"outbox", "commit"}
    <3> SUFFICES ASSUME NEW v \in Workers, tx[v].row # "none"
                 PROVE  pc[v] \in {"outbox", "commit"}
      OBVIOUS
    <3>1. WriteInv(v)
      BY DEF IInv, WorkerInv
    <3>2. QED
      BY <3>1 DEF WriteInv, NoWrites
  <2>2. \E v \in Workers : Blocks(v, w)
    BY <1>2 DEF AwaitsKey, RowPending, Blocks
  <2>3. QED
    BY <1>2, <2>1, <2>2 DEF AwaitsLock, AwaitsKey, Blocks, Past
<1>3. QED
  BY <1>1, <1>2 DEF Waits

(* No circle among the waits for inventory rows and for uncommitted rows   *)
(* of the same key, for any number of workers: every wait is for a live    *)
(* transaction past the statement of the one who waits.  InnoDB's own      *)
(* duplicate-check locks (see RowPending) are not among them: where they   *)
(* deadlock, the server fails one INSERT, and StatementFails is that.      *)
THEOREM NoWaitCycle == Spec => []WaitsForward
  BY ForwardOnly, NoOrphanedLock, Invariance, PTL

(* So the wait chains end: whenever transactions wait, one of them, or one *)
(* they wait for, can run its next statement.                              *)
THEOREM NobodyWaitsInVain == Spec => []SomebodyRuns
<1>1. WaitsForward => SomebodyRuns
  <2> SUFFICES ASSUME WaitsForward, NEW w \in Workers, Waits(w)
               PROVE  \E x \in Workers : pc[x] \in InTransaction /\ ~ Waits(x)
    BY DEF SomebodyRuns
  <2>1. ASSUME NEW x \in Workers, pc[x] \in {"decrement", "outbox", "commit"}
        PROVE  pc[x] \in InTransaction /\ ~ Waits(x)
    BY <2>1 DEF Waits, AwaitsLock, AwaitsKey, InTransaction
  <2>2. ASSUME NEW x \in Workers, pc[x] = "insert"
        PROVE  \E y \in Workers : pc[y] \in InTransaction /\ ~ Waits(y)
    <3>1. CASE ~ Waits(x)
      BY <2>2, <3>1 DEF InTransaction
    <3>2. CASE Waits(x)
      <4>1. PICK y \in Workers : Blocks(y, x) /\ pc[y] \in Past(pc[x])
        BY <3>2 DEF WaitsForward
      <4>2. QED
        BY <2>1, <2>2, <4>1 DEF Past
    <3>3. QED
      BY <3>1, <3>2
  <2>3. PICK v \in Workers : Blocks(v, w) /\ pc[v] \in Past(pc[w])
    BY DEF WaitsForward
  <2>4. QED
    BY <2>1, <2>2, <2>3 DEF Past
<1>2. QED
  BY <1>1, NoWaitCycle, PTL
=============================================================================
