---------------------------- MODULE OutboxPoller ----------------------------
(***************************************************************************)
(* server-c: OutboxPoller, which carries the results the issue             *)
(* transactions have recorded in outbox_event to the topic                 *)
(* coupon-issue-result.  It runs in no transaction of its own: a short     *)
(* read, one publish after the other, one bulk update.  Between any two of *)
(* these the transactions of CouponIssueProcessor insert, commit and roll  *)
(* back, a statement may fail, and the process may die.                    *)
(* One process of server-c: the running flag is a field of the class, and  *)
(* a second container would poll the same rows beside it.                  *)
(***************************************************************************)
EXTENDS Naturals, FiniteSets

CONSTANTS Events,    \* rows of outbox_event
          Refused,   \* events the broker never takes (too large, say)
          Cycles,    \* invocations of publishPending()
          BatchSize, \* OUTBOX_BATCH_SIZE
          MaxFaults  \* bound: crashes, failed updates and lost answers

ASSUME OutboxAssumption ==
    /\ Refused \subseteq Events
    /\ BatchSize \in Nat \ {0}
    /\ MaxFaults \in Nat

VARIABLES
    status,    \* outbox_event.status; "open" while its INSERT is uncommitted
    older,     \* the rows with a smaller created_at
    sent,      \* how many times the topic holds the event
    running,   \* OutboxPoller.running
    pc,        \* what a cycle does next
    todo,      \* the events it has read and not yet tried
    published, \* the ids it has collected
    faults     \* faults so far, bounded by MaxFaults

cycle == <<pc, todo, published>>
vars  == <<status, older, sent, running, cycle, faults>>
-----------------------------------------------------------------------------
TypeOK ==
    /\ status \in [Events -> {"absent", "open", "PENDING", "PUBLISHED"}]
    /\ older \in [Events -> SUBSET Events]
    /\ sent \in [Events -> Nat]
    /\ running \in BOOLEAN
    /\ pc \in [Cycles -> {"idle", "find", "publish", "mark"}]
    /\ todo \in [Cycles -> SUBSET Events]
    /\ published \in [Cycles -> SUBSET Events]
    /\ faults \in 0 .. MaxFaults

Init ==
    /\ status = [e \in Events |-> "absent"]
    /\ older = [e \in Events |-> {}]
    /\ sent = [e \in Events |-> 0]
    /\ running = FALSE
    /\ pc = [c \in Cycles |-> "idle"]
    /\ todo = [c \in Cycles |-> {}]
    /\ published = [c \in Cycles |-> {}]
    /\ faults = 0
-----------------------------------------------------------------------------
\* append(): the INSERT of an issue transaction, which sets created_at ...
Append(e) ==
    /\ status[e] = "absent"
    /\ status' = [status EXCEPT ![e] = "open"]
    /\ older' = [older EXCEPT ![e] = {f \in Events : status[f] # "absent"}]
    /\ UNCHANGED <<sent, running, cycle, faults>>

\* ... and its COMMIT, in any order among the open transactions ...
CommitEvent(e) ==
    /\ status[e] = "open"
    /\ status' = [status EXCEPT ![e] = "PENDING"]
    /\ UNCHANGED <<older, sent, running, cycle, faults>>

\* ... or its rollback.
RollBack(e) ==
    /\ status[e] = "open"
    /\ status' = [status EXCEPT ![e] = "absent"]
    /\ older' = [f \in Events |-> IF f = e THEN {} ELSE older[f] \ {e}]
    /\ UNCHANGED <<sent, running, cycle, faults>>
-----------------------------------------------------------------------------
\* Faulty variant: ticks overlap.
TickUnguarded(c) ==
    /\ pc[c] = "idle"
    /\ running' = TRUE
    /\ pc' = [pc EXCEPT ![c] = "find"]
    /\ UNCHANGED <<status, older, sent, todo, published, faults>>

\* poll(): at bootstrap and every 500 ms, unless the previous cycle is running.
Tick(c) ==
    /\ pc[c] = "idle"
    /\ ~ running
    /\ running' = TRUE
    /\ pc' = [pc EXCEPT ![c] = "find"]
    /\ UNCHANGED <<status, older, sent, todo, published, faults>>

\* poll() returns, by whatever way: the catch, and the finally.
End(c) ==
    /\ running' = FALSE
    /\ pc' = [pc EXCEPT ![c] = "idle"]
    /\ todo' = [todo EXCEPT ![c] = {}]
    /\ published' = [published EXCEPT ![c] = {}]

Pending == {e \in Events : status[e] = "PENDING"}
Oldest  == {e \in Pending : Cardinality(Pending \cap older[e]) < BatchSize}

\* Faulty variant: the rows are claimed under a status of their own.
FindAndClaim(c) ==
    /\ pc[c] = "find"
    /\ todo' = [todo EXCEPT ![c] = Oldest]
    /\ status' = [e \in Events |-> IF e \in Oldest THEN "SENDING" ELSE status[e]]
    /\ pc' = [pc EXCEPT ![c] = "publish"]
    /\ UNCHANGED <<older, sent, running, published, faults>>

\* findPending(batchSize): the committed PENDING rows, the oldest ones.
FindPending(c) ==
    /\ pc[c] = "find"
    /\ todo' = [todo EXCEPT ![c] = Oldest]
    /\ pc' = [pc EXCEPT ![c] = "publish"]
    /\ UNCHANGED <<status, older, sent, running, published, faults>>

\* The SELECT throws: the cycle is over.
FindFails(c) ==
    /\ pc[c] = "find"
    /\ End(c)
    /\ UNCHANGED <<status, older, sent, faults>>

\* The batch is published in the order of created_at.
NextOf(c, e) ==
    /\ pc[c] = "publish"
    /\ e \in todo[c]
    /\ older[e] \cap todo[c] = {}
    /\ todo' = [todo EXCEPT ![c] = @ \ {e}]

\* publish() resolved: the brokers have it.
PublishSucceeds(c, e) ==
    /\ NextOf(c, e)
    /\ e \notin Refused
    /\ sent' = [sent EXCEPT ![e] = @ + 1]
    /\ published' = [published EXCEPT ![c] = @ \union {e}]
    /\ UNCHANGED <<status, older, running, pc, faults>>

\* Faulty variant: the id is collected before the publish.
PublishFailsCollected(c, e) ==
    /\ NextOf(c, e)
    /\ published' = [published EXCEPT ![c] = @ \union {e}]
    /\ UNCHANGED <<status, older, sent, running, pc, faults>>

\* Faulty variant: the failure is not caught inside the loop.
PublishFailsThrows(c, e) ==
    /\ pc[c] = "publish"
    /\ e \in todo[c]
    /\ older[e] \cap todo[c] = {}
    /\ End(c)
    /\ UNCHANGED <<status, older, sent, faults>>

\* publish() rejected, the producer not connected included: the row stays
\* PENDING and the loop goes on.
PublishFails(c, e) ==
    /\ NextOf(c, e)
    /\ UNCHANGED <<status, older, sent, running, pc, published, faults>>

\* publish() rejected although the brokers have it.
PublishUnanswered(c, e) ==
    /\ NextOf(c, e)
    /\ e \notin Refused
    /\ faults < MaxFaults
    /\ faults' = faults + 1
    /\ sent' = [sent EXCEPT ![e] = @ + 1]
    /\ UNCHANGED <<status, older, running, pc, published>>

\* The loop is through; without a published id the cycle is over.
LoopEnds(c) ==
    /\ pc[c] = "publish"
    /\ todo[c] = {}
    /\ IF published[c] = {}
         THEN End(c)
         ELSE /\ pc' = [pc EXCEPT ![c] = "mark"]
              /\ UNCHANGED <<running, todo, published>>
    /\ UNCHANGED <<status, older, sent, faults>>

\* markPublished(published): one UPDATE.
MarkPublished(c) ==
    /\ pc[c] = "mark"
    /\ status' = [e \in Events |-> IF e \in published[c] THEN "PUBLISHED" ELSE status[e]]
    /\ End(c)
    /\ UNCHANGED <<older, sent, faults>>

\* The UPDATE throws: all of the batch stays PENDING.
MarkFails(c) ==
    /\ pc[c] = "mark"
    /\ faults < MaxFaults
    /\ faults' = faults + 1
    /\ End(c)
    /\ UNCHANGED <<status, older, sent>>

\* The process dies and is started again; the open transactions, on other
\* connections of the same process, end by themselves (RollBack).
Crash ==
    /\ running
    /\ faults < MaxFaults
    /\ faults' = faults + 1
    /\ running' = FALSE
    /\ pc' = [c \in Cycles |-> "idle"]
    /\ todo' = [c \in Cycles |-> {}]
    /\ published' = [c \in Cycles |-> {}]
    /\ UNCHANGED <<status, older, sent>>

Work(c) ==
    \/ FindPending(c) \/ LoopEnds(c) \/ MarkPublished(c)
    \/ \E e \in Events : PublishSucceeds(c, e) \/ PublishFails(c, e)

Next ==
    \/ \E e \in Events : Append(e) \/ CommitEvent(e) \/ RollBack(e)
    \/ \E c \in Cycles :
          \/ Tick(c) \/ Work(c) \/ FindFails(c) \/ MarkFails(c)
          \/ \E e \in Events : PublishUnanswered(c, e)
    \/ Crash

Spec == Init /\ [][Next]_vars

\* The interval fires, a cycle runs on, and failures are transient: a SELECT,
\* or the publishing of an event that is not refused, tried again and again is
\* answered at last.
FairSpec ==
    /\ Spec
    /\ WF_vars(\E c \in Cycles : Tick(c))
    /\ \A c \in Cycles : WF_vars(Work(c))
    /\ SF_vars(\E c \in Cycles : FindPending(c))
    /\ \A e \in Events : SF_vars(\E c \in Cycles : PublishSucceeds(c, e))
-----------------------------------------------------------------------------
(* No result is lost: a row is PUBLISHED only if the topic has it, whatever *)
(* failed between the publish and the update.                              *)
PublishedWasSent ==
    \A e \in Events : status[e] = "PUBLISHED" => sent[e] > 0

(* No result is announced of a transaction that has not committed or is    *)
(* rolled back.                                                            *)
OnlyCommittedSent ==
    \A e \in Events : sent[e] > 0 => status[e] \in {"PENDING", "PUBLISHED"}

(* Duplicates are paid for: every copy of an event beyond the first comes  *)
(* from a crash, a failed update or a lost answer, never from overlapping  *)
(* cycles of the one process.                                              *)
CopiesBounded == \A e \in Events : sent[e] <= 1 + faults

(* Every committed result is announced at last, although younger and       *)
(* refused rows compete for the batch, which must exceed the refused ones. *)
EveryEventAnnounced ==
    \A e \in Events \ Refused : status[e] = "PENDING" ~> status[e] = "PUBLISHED"
-----------------------------------------------------------------------------
\* The inductive invariant, part by part.
\* One cycle at a time, and only while the flag says so.
RunInv ==
    /\ \A c \in Cycles : pc[c] # "idle" => running
    /\ \A c, d \in Cycles : pc[c] # "idle" /\ pc[d] # "idle" => c = d
    /\ \A c \in Cycles : pc[c] \in {"idle", "find"} => todo[c] = {} /\ published[c] = {}

\* A cycle holds committed rows, still PENDING; the collected ones are sent.
BatchInv ==
    \A c \in Cycles :
       /\ \A e \in todo[c] \union published[c] : status[e] = "PENDING"
       /\ \A e \in published[c] : sent[e] > 0
       /\ todo[c] \cap published[c] = {}

\* A PENDING row that no cycle has collected has only copies that faults made.
CopyInv ==
    \A e \in Events :
       (status[e] # "PUBLISHED" /\ \A c \in Cycles : e \notin published[c])
          => sent[e] <= faults

(* What a cycle holds stays true of the table while it publishes.          *)
IInv ==
    RunInv /\ BatchInv /\ CopyInv /\ PublishedWasSent /\ OnlyCommittedSent
       /\ CopiesBounded
=============================================================================
