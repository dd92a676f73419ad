------------------------- MODULE OutboxPollerProofs -------------------------
(***************************************************************************)
(* The safety properties of OutboxPoller, for every number of events and   *)
(* cycles, every batch size and every number of faults.                    *)
(***************************************************************************)
EXTENDS OutboxPoller, TLAPS

\* Every variable starts in its type.
LEMMA TypeInit == Init => TypeOK
  <1>1. 0 \in Nat /\ 0 \in 0 .. MaxFaults
    BY OutboxAssumption
  <1>2. Init => running \in BOOLEAN
    BY DEF Init
  <1>3. Init => /\ status \in [Events -> {"absent", "open", "PENDING", "PUBLISHED"}]
                /\ sent \in [Events -> Nat]
                /\ faults \in 0 .. MaxFaults
    BY <1>1 DEF Init
  <1>4. Init => /\ older \in [Events -> SUBSET Events]
                /\ pc \in [Cycles -> {"idle", "find", "publish", "mark"}]
                /\ todo \in [Cycles -> SUBSET Events]
                /\ published \in [Cycles -> SUBSET Events]
    BY DEF Init
  <1> QED BY <1>2, <1>3, <1>4 DEF TypeOK

\* Every action keeps every variable in its type.
LEMMA TypeStep == TypeOK /\ [Next]_vars => TypeOK'
  <1> SUFFICES ASSUME TypeOK, [Next]_vars PROVE TypeOK'
    OBVIOUS
  <1> USE OutboxAssumption DEF TypeOK, cycle, End, NextOf
  <1>1. CASE UNCHANGED vars
    BY <1>1 DEF vars
  <1>2. ASSUME NEW e \in Events, Append(e) \/ CommitEvent(e) \/ RollBack(e) PROVE TypeOK'
    <2>1. CASE Append(e)
      BY <2>1 DEF Append
    <2>2. CASE CommitEvent(e)
      BY <2>2 DEF CommitEvent
    <2>3. CASE RollBack(e)
      BY <2>3 DEF RollBack
    <2> QED BY <1>2, <2>1, <2>2, <2>3
  <1>3. ASSUME NEW c \in Cycles, Tick(c) \/ FindPending(c) \/ FindFails(c) \/ LoopEnds(c)
        PROVE  TypeOK'
    <2>1. CASE Tick(c)
      BY <2>1 DEF Tick
    <2>2. CASE FindPending(c)
      BY <2>2 DEF FindPending, Oldest, Pending
    <2>3. CASE FindFails(c)
      BY <2>3 DEF FindFails
    <2>4. CASE LoopEnds(c)
      BY <2>4 DEF LoopEnds
    <2> QED BY <1>3, <2>1, <2>2, <2>3, <2>4
  <1>4. ASSUME NEW c \in Cycles, NEW e \in Events,
               PublishSucceeds(c, e) \/ PublishFails(c, e) \/ PublishUnanswered(c, e)
        PROVE  TypeOK'
    <2>1. CASE PublishSucceeds(c, e)
      BY <2>1 DEF PublishSucceeds
    <2>2. CASE PublishFails(c, e)
      BY <2>2 DEF PublishFails
    <2>3. CASE PublishUnanswered(c, e)
      BY <2>3 DEF PublishUnanswered
    <2> QED BY <1>4, <2>1, <2>2, <2>3
  <1>5. ASSUME NEW c \in Cycles, MarkPublished(c) \/ MarkFails(c) PROVE TypeOK'
    <2>1. CASE MarkPublished(c)
      BY <2>1 DEF MarkPublished
    <2>2. CASE MarkFails(c)
      <3>1. faults' \in 0 .. MaxFaults
        BY <2>2 DEF MarkFails
      <3> QED BY <2>2, <3>1 DEF MarkFails
    <2> QED BY <1>5, <2>1, <2>2
  <1>6. CASE Crash
    <2>1. faults' \in 0 .. MaxFaults
      BY <1>6 DEF Crash
    <2> QED BY <1>6, <2>1 DEF Crash
  <1> QED BY <1>1, <1>2, <1>3, <1>4, <1>5, <1>6 DEF Next, Work

\* Nothing is written, read or sent at first.
LEMMA InvInit == Init => IInv
  BY OutboxAssumption DEF Init, IInv, RunInv, BatchInv, CopyInv, PublishedWasSent,
         OnlyCommittedSent, CopiesBounded

\* The issue transactions touch rows no cycle has read yet.
LEMMA TransactionKeeps ==
    ASSUME TypeOK, IInv, NEW e \in Events,
           Append(e) \/ CommitEvent(e) \/ RollBack(e)
    PROVE  IInv'
  <1> USE DEF TypeOK, IInv, cycle
  <1>1. /\ UNCHANGED <<sent, running, cycle, faults>>
        /\ \A f \in Events \ {e} : status'[f] = status[f]
        /\ status[e] \in {"absent", "open"} /\ status'[e] \in {"absent", "open", "PENDING"}
    BY DEF Append, CommitEvent, RollBack
  <1>2. RunInv' /\ CopiesBounded'
    BY <1>1 DEF RunInv, CopiesBounded
  <1>3. BatchInv'
    BY <1>1 DEF BatchInv
  <1>4. CopyInv' /\ PublishedWasSent'
    BY <1>1 DEF CopyInv, PublishedWasSent
  <1>5. OnlyCommittedSent'
    BY <1>1 DEF OnlyCommittedSent, PublishedWasSent
  <1> QED BY <1>2, <1>3, <1>4, <1>5

\* A cycle that starts or reads takes up committed rows that nobody else holds.
LEMMA ReadKeeps ==
    ASSUME TypeOK, IInv, NEW c \in Cycles, Tick(c) \/ FindPending(c)
    PROVE  IInv'
  <1> USE DEF TypeOK, IInv, cycle
  <1>1. /\ UNCHANGED <<status, sent, published, faults>>
        /\ todo' = todo \/ (todo' = [todo EXCEPT ![c] = Oldest] /\ pc[c] = "find")
    BY DEF Tick, FindPending
  <1>2. RunInv'
    <2>1. CASE Tick(c)
      BY <2>1 DEF Tick, RunInv
    <2>2. CASE FindPending(c)
      BY <2>2 DEF FindPending, RunInv
    <2> QED BY <2>1, <2>2
  <1>3. BatchInv'
    <2>1. \A e \in Oldest : e \in Events /\ status[e] = "PENDING"
      BY DEF Oldest, Pending
    <2>2. pc[c] = "find" => published[c] = {}
      BY DEF RunInv
    <2> QED BY <1>1, <2>1, <2>2 DEF BatchInv
  <1> QED BY <1>1, <1>2, <1>3 DEF CopyInv, PublishedWasSent, OnlyCommittedSent, CopiesBounded

\* One publish: the row it is for is PENDING and collected by no cycle.
LEMMA PublishKeeps ==
    ASSUME TypeOK, IInv, NEW c \in Cycles, NEW e \in Events,
           PublishSucceeds(c, e) \/ PublishFails(c, e) \/ PublishUnanswered(c, e)
    PROVE  IInv'
  <1> USE OutboxAssumption DEF TypeOK, IInv, cycle
  <1>1. /\ pc[c] = "publish" /\ e \in todo[c]
        /\ todo' = [todo EXCEPT ![c] = @ \ {e}]
        /\ UNCHANGED <<status, running, pc>>
        /\ \/ UNCHANGED <<sent, published, faults>>
           \/ /\ sent' = [sent EXCEPT ![e] = @ + 1]
              /\ published' = [published EXCEPT ![c] = @ \union {e}]
              /\ faults' = faults
           \/ /\ sent' = [sent EXCEPT ![e] = @ + 1]
              /\ published' = published
              /\ faults' = faults + 1
    BY DEF PublishSucceeds, PublishFails, PublishUnanswered, NextOf
  <1>2. status[e] = "PENDING" /\ \A d \in Cycles : e \notin published[d]
    BY <1>1 DEF BatchInv, RunInv
  <1>3. sent[e] <= faults
    BY <1>2 DEF CopyInv
  <1>4. RunInv'
    BY <1>1 DEF RunInv
  <1>5. BatchInv'
    BY <1>1 DEF BatchInv
  <1>6. CopyInv' /\ CopiesBounded'
    BY <1>1, <1>2, <1>3 DEF CopyInv, CopiesBounded
  <1>7. PublishedWasSent' /\ OnlyCommittedSent'
    BY <1>1, <1>2 DEF PublishedWasSent, OnlyCommittedSent
  <1> QED BY <1>4, <1>5, <1>6, <1>7

\* A cycle that ends without the update has published nothing, or a fault is
\* counted, which pays for the copies it has made.
LEMMA EndKeeps ==
    ASSUME TypeOK, IInv, NEW c \in Cycles,
           FindFails(c) \/ LoopEnds(c) \/ MarkFails(c)
    PROVE  IInv'
  <1> USE OutboxAssumption DEF TypeOK, IInv, cycle
  <1>1. CASE End(c) /\ UNCHANGED <<status, sent>> /\ pc[c] # "idle"
             /\ ((published[c] = {} /\ faults' = faults) \/ faults' = faults + 1)
    <2>1. RunInv'
      BY <1>1 DEF RunInv, End
    <2>2. BatchInv'
      BY <1>1 DEF BatchInv, End
    <2>3. PublishedWasSent' /\ OnlyCommittedSent' /\ CopiesBounded'
      BY <1>1 DEF PublishedWasSent, OnlyCommittedSent, CopiesBounded
    <2>4. CopyInv'
      <3> SUFFICES ASSUME NEW e \in Events, status[e] # "PUBLISHED",
                          \A d \in Cycles : e \notin published'[d]
                   PROVE  sent[e] <= faults'
        BY <1>1 DEF CopyInv
      <3>1. CASE faults' = faults + 1
        BY <3>1 DEF CopiesBounded
      <3>2. CASE published[c] = {} /\ faults' = faults
        BY <1>1, <3>2 DEF CopyInv, End
      <3> QED BY <1>1, <3>1, <3>2
    <2> QED BY <2>1, <2>2, <2>3, <2>4
  <1>2. CASE LoopEnds(c) /\ published[c] # {}
    <2>1. pc' = [pc EXCEPT ![c] = "mark"] /\ UNCHANGED <<status, sent, running, todo, published, faults>>
          /\ pc[c] = "publish"
      BY <1>2 DEF LoopEnds
    <2> QED BY <2>1 DEF RunInv, BatchInv, CopyInv, PublishedWasSent, OnlyCommittedSent,
                     CopiesBounded
  <1>3. FindFails(c) => published[c] = {}
    BY DEF FindFails, RunInv
  <1> QED BY <1>1, <1>2, <1>3 DEF FindFails, LoopEnds, MarkFails

\* The update turns what the cycle has sent, and nothing else, PUBLISHED.
LEMMA MarkKeeps ==
    ASSUME TypeOK, IInv, NEW c \in Cycles, MarkPublished(c)
    PROVE  IInv'
  <1> USE OutboxAssumption DEF TypeOK, IInv, cycle
  <1>1. /\ pc[c] = "mark"
        /\ status' = [e \in Events |-> IF e \in published[c] THEN "PUBLISHED" ELSE status[e]]
        /\ End(c)
        /\ UNCHANGED <<sent, faults>>
    BY DEF MarkPublished
  <1>2. \A d \in Cycles \ {c} : todo[d] = {} /\ published[d] = {}
    BY <1>1 DEF RunInv
  <1>3. RunInv'
    BY <1>1 DEF RunInv, End
  <1>4. BatchInv'
    BY <1>1, <1>2 DEF BatchInv, End
  <1>5. CopyInv'
    BY <1>1, <1>2 DEF CopyInv, End
  <1>6. PublishedWasSent' /\ OnlyCommittedSent' /\ CopiesBounded'
    BY <1>1 DEF PublishedWasSent, OnlyCommittedSent, CopiesBounded, BatchInv
  <1> QED BY <1>3, <1>4, <1>5, <1>6

\* A crash drops what the cycle has collected, and is counted.
LEMMA CrashKeeps ==
    ASSUME TypeOK, IInv, Crash
    PROVE  IInv'
  <1> USE OutboxAssumption DEF TypeOK, IInv, cycle
  <1>1. RunInv' /\ BatchInv'
    BY DEF Crash, RunInv, BatchInv
  <1>2. CopyInv'
    BY DEF Crash, CopyInv, CopiesBounded
  <1>3. PublishedWasSent' /\ OnlyCommittedSent' /\ CopiesBounded'
    BY DEF Crash, PublishedWasSent, OnlyCommittedSent, CopiesBounded
  <1> QED BY <1>1, <1>2, <1>3

\* The invariant is inductive.
LEMMA InvStep == TypeOK /\ IInv /\ [Next]_vars => IInv'
  <1> SUFFICES ASSUME TypeOK, IInv, [Next]_vars PROVE IInv'
    OBVIOUS
  <1>1. CASE UNCHANGED vars
    BY <1>1 DEF vars, cycle, IInv, RunInv, BatchInv, CopyInv, PublishedWasSent,
                OnlyCommittedSent, CopiesBounded
  <1>2. CASE Next
    BY <1>2, TransactionKeeps, ReadKeeps, PublishKeeps, EndKeeps, MarkKeeps,
       CrashKeeps DEF Next, Work
  <1> QED BY <1>1, <1>2

(* The types are right in every reachable state.                           *)
THEOREM TypeCorrect == Spec => []TypeOK
  <1>1. Init => TypeOK
    BY TypeInit
  <1>2. TypeOK /\ [Next]_vars => TypeOK'
    BY TypeStep
  <1> QED BY <1>1, <1>2, PTL DEF Spec

(* The inductive invariant of the poller: flag, batch, rows and copies.    *)
THEOREM Invariance == Spec => []IInv
  <1>1. Init => IInv
    BY InvInit
  <1>2. TypeOK /\ IInv /\ [Next]_vars => IInv'
    BY InvStep
  <1> QED BY <1>1, <1>2, TypeCorrect, PTL DEF Spec

(* No row turns PUBLISHED before the topic has its result.                 *)
THEOREM NothingLost == Spec => []PublishedWasSent
  <1>1. IInv => PublishedWasSent
    BY DEF IInv
  <1> QED BY <1>1, Invariance, PTL

(* Nothing is announced that is not committed for good.                    *)
THEOREM NothingInvented == Spec => []OnlyCommittedSent
  <1>1. IInv => OnlyCommittedSent
    BY DEF IInv
  <1> QED BY <1>1, Invariance, PTL

(* Without a fault a result is announced at most once.                     *)
THEOREM DuplicatesPaidFor == Spec => []CopiesBounded
  <1>1. IInv => CopiesBounded
    BY DEF IInv
  <1> QED BY <1>1, Invariance, PTL
-----------------------------------------------------------------------------
(* The re-entrance guard.                                                  *)

\* The flag is up exactly while a cycle is on, and one is.
GuardHeld ==
    /\ running <=> \E c \in Cycles : pc[c] # "idle"
    /\ \A c, d \in Cycles : pc[c] # "idle" /\ pc[d] # "idle" => c = d

LEMMA GuardStep == TypeOK /\ RunInv /\ GuardHeld /\ [Next]_vars
                   => (running' => \E c \in Cycles : pc'[c] # "idle")
  <1> SUFFICES ASSUME TypeOK, RunInv, GuardHeld, [Next]_vars, running'
               PROVE  \E c \in Cycles : pc'[c] # "idle"
    OBVIOUS
  <1> USE DEF TypeOK, cycle
  <1>1. ASSUME UNCHANGED <<running, pc>>
        PROVE  \E c \in Cycles : pc'[c] # "idle"
    BY <1>1 DEF GuardHeld
  <1>2. ASSUME NEW e \in Events, Append(e) \/ CommitEvent(e) \/ RollBack(e)
        PROVE  UNCHANGED <<running, pc>>
    BY <1>2 DEF Append, CommitEvent, RollBack
  <1>3. ASSUME NEW c \in Cycles, Tick(c) \/ FindPending(c) \/ LoopEnds(c)
        PROVE  \E d \in Cycles : pc'[d] # "idle"
    <2>1. pc'[c] # "idle"
      BY <1>3 DEF Tick, FindPending, LoopEnds, End
    <2> QED BY <2>1
  <1>4. ASSUME NEW c \in Cycles, NEW e \in Events,
               PublishSucceeds(c, e) \/ PublishFails(c, e) \/ PublishUnanswered(c, e)
        PROVE  UNCHANGED <<running, pc>>
    BY <1>4 DEF PublishSucceeds, PublishFails, PublishUnanswered
  <1>5. ASSUME NEW c \in Cycles, FindFails(c) \/ MarkPublished(c) \/ MarkFails(c)
        PROVE  FALSE
    BY <1>5 DEF FindFails, MarkPublished, MarkFails, End
  <1>6. ~ Crash
    BY DEF Crash
  <1>7. UNCHANGED vars => UNCHANGED <<running, pc>>
    BY DEF vars
  <1> QED BY <1>1, <1>2, <1>3, <1>4, <1>5, <1>6, <1>7 DEF Next, Work

(* Whether a cycle ends by its end, a throwing SELECT or UPDATE or the     *)
(* death of the process, the flag comes down with it: the poller is never  *)
(* locked out by a cycle that is gone, and two never publish at once.      *)
THEOREM PollerNeverLockedOut == Spec => []GuardHeld
  <1>1. Init => GuardHeld
    BY DEF Init, GuardHeld
  <1>2. TypeOK /\ IInv /\ IInv' /\ GuardHeld /\ [Next]_vars => GuardHeld'
    BY GuardStep DEF IInv, RunInv, GuardHeld
  <1> QED BY <1>1, <1>2, TypeCorrect, Invariance, PTL DEF Spec
=============================================================================
