---------------------------- MODULE RedeemProofs ----------------------------
(***************************************************************************)
(* The safety properties of Redeem, for every number of calls and coupons. *)
(***************************************************************************)
EXTENDS Redeem, TLAPS

-----------------------------------------------------------------------------
\* The inductive invariant.
\* The version tells whether the coupon is spent, the status agrees, and the
\* call that has spent it does nothing more.
RowInv ==
    \A c \in Coupons :
       /\ version[c] = IF usedAt[c] = NoCall THEN 0 ELSE 1
       /\ usedAt[c] # NoCall => status[c] = "USED" /\ pc[usedAt[c]] = "done"

\* A call past its SELECT has seen an unspent row of its own.
CallInv ==
    \A r \in Calls : pc[r] \in {"update", "commit"} =>
       Owned(r) /\ seen[r] = 0 /\ answer[r] = "none"

\* Whoever is to commit holds the lock of a row that is still unspent.
LockInv ==
    \A r \in Calls : pc[r] = "commit" =>
       lock[CodeOf[r]] = r /\ usedAt[CodeOf[r]] = NoCall

\* A call that is not done has no answer yet.
AnswerInv == \A r \in Calls : pc[r] # "done" => answer[r] = "none"

(* What a call saw, holds and was told agrees with the row.                *)
IInv ==
    RowInv /\ CallInv /\ LockInv /\ AnswerInv /\ RedeemedOnce /\ ReplayTruthful
       /\ RaceHasWinner
-----------------------------------------------------------------------------
\* Every variable starts in its type.
LEMMA TypeInit == Init => TypeOK
  BY RedeemAssumption DEF Init, TypeOK, Answers

\* Every action keeps every variable in its type.
LEMMA TypeStep == TypeOK /\ [Next]_vars => TypeOK'
  <1> SUFFICES ASSUME TypeOK, [Next]_vars PROVE TypeOK'
    OBVIOUS
  <1> USE RedeemAssumption DEF TypeOK, Answers, row
  <1>1. CASE UNCHANGED vars
    BY <1>1 DEF vars
  <1>2. ASSUME NEW r \in Calls, NotFound(r) \/ Replay(r) \/ Refuse(r) PROVE TypeOK'
    BY <1>2 DEF NotFound, Replay, Refuse, Respond, Owned, Redeemed, Redeemable
  <1>3. ASSUME NEW r \in Calls, Find(r) PROVE TypeOK'
    BY <1>3 DEF Find, Owned, Redeemed, Redeemable
  <1>4. ASSUME NEW r \in Calls, MarkUsed(r) PROVE TypeOK'
    BY <1>4 DEF MarkUsed
  <1>5. ASSUME NEW r \in Calls, LoseRace(r) PROVE TypeOK'
    BY <1>5 DEF LoseRace, Respond
  <1>6. ASSUME NEW r \in Calls, Commit(r) \/ CommitUnanswered(r) PROVE TypeOK'
    BY <1>6 DEF Commit, CommitUnanswered, Spend, Respond
  <1>7. ASSUME NEW r \in Calls, Fail(r) PROVE TypeOK'
    BY <1>7 DEF Fail, Respond
  <1> QED BY <1>1, <1>2, <1>3, <1>4, <1>5, <1>6, <1>7 DEF Next, Step, Answered

\* The actions that end a call without touching a row.
Leaves(r) == NotFound(r) \/ Replay(r) \/ Refuse(r) \/ LoseRace(r) \/ Fail(r)

\* Nothing is spent, locked or answered at first.
LEMMA InvInit == Init => IInv
  BY DEF Init, IInv, RowInv, CallInv, LockInv, AnswerInv, RedeemedOnce,
         ReplayTruthful, RaceHasWinner

\* A call that leaves takes at most its own lock away, and what it is told is
\* so at that moment.
LEMMA LeaveKeeps ==
    ASSUME TypeOK, IInv, NEW r \in Calls, Leaves(r)
    PROVE  IInv'
  <1> USE RedeemAssumption DEF TypeOK, IInv, Leaves
  <1>1. /\ UNCHANGED <<row, seen>>
        /\ pc[r] # "done"
        /\ pc' = [pc EXCEPT ![r] = "done"]
        /\ \A q \in Calls \ {r} : answer'[q] = answer[q] /\ redeemedAt'[q] = redeemedAt[q]
        /\ \A c \in Coupons : lock[c] # r => lock'[c] = lock[c]
    BY DEF NotFound, Replay, Refuse, LoseRace, Fail, Respond
  <1>2. RowInv' /\ CallInv'
    BY <1>1 DEF RowInv, CallInv, Owned, row
  <1>3. LockInv'
    BY <1>1 DEF LockInv, CallInv, Owned, row
  <1>4. AnswerInv'
    BY <1>1 DEF AnswerInv
  <1>5. answer'[r] # "redeemed"
    BY DEF NotFound, Replay, Refuse, LoseRace, Fail, Respond
  <1>6. answer'[r] = "alreadyRedeemed" =>
           redeemedAt'[r] = usedAt[CodeOf[r]] /\ usedAt[CodeOf[r]] # NoCall
    BY DEF NotFound, Replay, Refuse, LoseRace, Fail, Respond, Redeemed
  <1>7. answer'[r] = "raceRetry" => usedAt[CodeOf[r]] \in Calls \ {r}
    <2>1. CASE LoseRace(r)
      <3>1. CodeOf[r] \in Coupons /\ seen[r] = 0 /\ version[CodeOf[r]] # 0 /\ pc[r] # "done"
        BY <2>1 DEF LoseRace, CallInv, Owned, Redeemed, Redeemable
      <3> QED BY <3>1 DEF RowInv
    <2>2. CASE ~ LoseRace(r)
      BY <2>2 DEF NotFound, Replay, Refuse, Fail, Respond
    <2> QED BY <2>1, <2>2
  <1> QED BY <1>1, <1>2, <1>3, <1>4, <1>5, <1>6, <1>7
          DEF RedeemedOnce, ReplayTruthful, RaceHasWinner, row

\* A call that has read the row or taken its lock tells nobody anything.
LEMMA ReadKeeps ==
    ASSUME TypeOK, IInv, NEW r \in Calls, Find(r) \/ MarkUsed(r)
    PROVE  IInv'
  <1> USE RedeemAssumption DEF TypeOK, IInv
  <1>1. /\ UNCHANGED <<row, answer, redeemedAt>>
        /\ pc[r] # "done" /\ pc'[r] # "done"
        /\ \A q \in Calls \ {r} : pc'[q] = pc[q]
    BY DEF Find, MarkUsed
  <1>2. RowInv' /\ RedeemedOnce' /\ ReplayTruthful' /\ RaceHasWinner'
    BY <1>1 DEF RowInv, RedeemedOnce, ReplayTruthful, RaceHasWinner, row
  <1>3. CallInv' /\ AnswerInv'
    BY <1>1 DEF Find, MarkUsed, CallInv, AnswerInv, RowInv, Owned, Redeemed,
           Redeemable, row
  <1>4. LockInv'
    <2>1. CASE Find(r)
      BY <1>1, <2>1 DEF Find, LockInv, row
    <2>2. CASE MarkUsed(r)
      BY <1>1, <2>2 DEF MarkUsed, LockInv, CallInv, RowInv, Owned, Redeemed,
             Redeemable, row
    <2> QED BY <2>1, <2>2
  <1> QED BY <1>2, <1>3, <1>4

\* The COMMIT: the row was unspent until now, so nobody has been told of it,
\* and no other call is past the UPDATE.
LEMMA SpendKeeps ==
    ASSUME TypeOK, IInv, NEW r \in Calls, Commit(r) \/ CommitUnanswered(r)
    PROVE  IInv'
  <1> USE RedeemAssumption DEF TypeOK, IInv
  <1> DEFINE c == CodeOf[r]
  <1>1. /\ pc[r] = "commit" /\ c \in Coupons
        /\ lock[c] = r /\ usedAt[c] = NoCall /\ version[c] = 0
    BY DEF Commit, CommitUnanswered, Spend, LockInv, CallInv, RowInv, Owned,
           Redeemed, Redeemable
  <1>2. /\ status' = [status EXCEPT ![c] = "USED"]
        /\ usedAt' = [usedAt EXCEPT ![c] = r]
        /\ version' = [version EXCEPT ![c] = @ + 1]
        /\ lock' = [lock EXCEPT ![c] = NoCall]
        /\ pc' = [pc EXCEPT ![r] = "done"]
        /\ seen' = seen
        /\ answer'[r] \in {"redeemed", "error"}
        /\ \A q \in Calls \ {r} : answer'[q] = answer[q] /\ redeemedAt'[q] = redeemedAt[q]
    BY DEF Commit, CommitUnanswered, Spend, Respond
  <1>3. RowInv'
    BY <1>1, <1>2 DEF RowInv
  <1>4. CallInv' /\ AnswerInv'
    BY <1>2 DEF CallInv, AnswerInv, Owned, Redeemed, Redeemable
  <1>5. LockInv'
    <2> SUFFICES ASSUME NEW q \in Calls, pc'[q] = "commit"
                 PROVE  lock'[CodeOf[q]] = q /\ usedAt'[CodeOf[q]] = NoCall
      BY DEF LockInv
    <2>1. q # r /\ pc[q] = "commit"
      BY <1>2
    <2>2. lock[CodeOf[q]] = q /\ usedAt[CodeOf[q]] = NoCall /\ CodeOf[q] \in Coupons
      BY <2>1 DEF LockInv, CallInv, Owned
    <2>3. CodeOf[q] # c
      BY <1>1, <2>1, <2>2
    <2> QED BY <1>2, <2>2, <2>3
  <1>6. RedeemedOnce'
    <2>1. ASSUME NEW q \in Calls \ {r}, answer[q] = "redeemed" PROVE CodeOf[q] # c
      BY <1>1, <2>1 DEF RedeemedOnce
    <2> QED BY <1>1, <1>2, <2>1 DEF RedeemedOnce
  <1>7. ReplayTruthful'
    <2>1. ASSUME NEW q \in Calls \ {r}, answer[q] = "alreadyRedeemed"
          PROVE  CodeOf[q] # c
      BY <1>1, <2>1 DEF ReplayTruthful
    <2> QED BY <1>1, <1>2, <2>1 DEF ReplayTruthful
  <1>8. RaceHasWinner'
    <2>1. ASSUME NEW q \in Calls \ {r}, answer[q] = "raceRetry"
          PROVE  CodeOf[q] # c
      BY <1>1, <2>1 DEF RaceHasWinner
    <2> QED BY <1>1, <1>2, <2>1 DEF RaceHasWinner
  <1> QED BY <1>3, <1>4, <1>5, <1>6, <1>7, <1>8

\* The invariant is inductive.
LEMMA InvStep == TypeOK /\ IInv /\ [Next]_vars => IInv'
  <1> SUFFICES ASSUME TypeOK, IInv, [Next]_vars PROVE IInv'
    OBVIOUS
  <1>1. CASE UNCHANGED vars
    BY <1>1 DEF vars, row, IInv, RowInv, CallInv, Owned, Redeemed, Redeemable,
           LockInv, AnswerInv, RedeemedOnce, ReplayTruthful, RaceHasWinner
  <1>2. CASE Next
    <2>1. ASSUME NEW r \in Calls, Step(r) \/ CommitUnanswered(r) \/ Fail(r) PROVE IInv'
      <3>1. CASE Leaves(r)
        BY <3>1, LeaveKeeps
      <3>2. CASE Find(r) \/ MarkUsed(r)
        BY <3>2, ReadKeeps
      <3>3. CASE Commit(r) \/ CommitUnanswered(r)
        BY <3>3, SpendKeeps
      <3> QED BY <2>1, <3>1, <3>2, <3>3 DEF Step, Leaves
    <2> QED BY <1>1, <1>2, <2>1 DEF Next, Answered
  <1> QED BY <1>1, <1>2

(* The types are right in every reachable state.                           *)
THEOREM TypeCorrect == Spec => []TypeOK
  <1>1. Init => TypeOK
    BY TypeInit
  <1>2. TypeOK /\ [Next]_vars => TypeOK'
    BY TypeStep
  <1> QED BY <1>1, <1>2, PTL DEF Spec

(* The inductive invariant of redeem(): row, lock and answers agree.       *)
THEOREM Invariance == Spec => []IInv
  <1>1. Init => IInv
    BY InvInit
  <1>2. TypeOK /\ IInv /\ [Next]_vars => IInv'
    BY InvStep
  <1> QED BY <1>1, <1>2, TypeCorrect, PTL DEF Spec

(* However many calls race for it, a coupon is redeemed by one of them.    *)
THEOREM OneWinner == Spec => []RedeemedOnce
  <1>1. IInv => RedeemedOnce
    BY DEF IInv
  <1> QED BY <1>1, Invariance, PTL

(* The idempotent answer carries the time that is in the row for good.     *)
THEOREM ReplaysAgree == Spec => []ReplayTruthful
  <1>1. IInv => ReplayTruthful
    BY DEF IInv
  <1> QED BY <1>1, Invariance, PTL

(* RACE_RETRY is never said of a coupon that is still unspent.             *)
THEOREM LosersHaveWinner == Spec => []RaceHasWinner
  <1>1. IInv => RaceHasWinner
    BY DEF IInv
  <1> QED BY <1>1, Invariance, PTL

(* No later UPDATE overwrites the first time of use.                       *)
THEOREM FirstUseStays == Spec => FirstUseIsFinal
  <1>1. TypeOK /\ IInv /\ [Next]_vars =>
           [\A c \in Coupons : usedAt[c] # NoCall => usedAt'[c] = usedAt[c]]_usedAt
    <2> SUFFICES ASSUME TypeOK, IInv, [Next]_vars,
                        NEW c \in Coupons, usedAt[c] # NoCall
                 PROVE  usedAt'[c] = usedAt[c]
      OBVIOUS
    <2>1. ASSUME NEW r \in Calls, Commit(r) \/ CommitUnanswered(r)
          PROVE  usedAt'[c] = usedAt[c]
      <3>1. usedAt[CodeOf[r]] = NoCall
        BY <2>1 DEF Commit, CommitUnanswered, Spend, IInv, LockInv
      <3> QED BY <2>1, <3>1 DEF Commit, CommitUnanswered, Spend, TypeOK
    <2>2. ASSUME NEW r \in Calls, Leaves(r) \/ Find(r) \/ MarkUsed(r)
          PROVE  usedAt' = usedAt
      BY <2>2 DEF Leaves, NotFound, Replay, Refuse, LoseRace, Fail, Find, MarkUsed, row
    <2>3. CASE UNCHANGED vars
      BY <2>3 DEF vars, row
    <2> QED BY <2>1, <2>2, <2>3 DEF Next, Step, Answered, Leaves
  <1> QED BY <1>1, TypeCorrect, Invariance, PTL DEF Spec, FirstUseIsFinal

\* A row lock belongs to a call that has run its UPDATE on that row and has
\* only its COMMIT left: nobody waits for a call that is waiting or gone.
LocksLive ==
    \A c \in Coupons : lock[c] # NoCall => pc[lock[c]] = "commit" /\ CodeOf[lock[c]] = c

(* A lock goes with its call, by COMMIT, rollback or death, so that those  *)
(* who wait at the UPDATE wait for one COMMIT at most before it is free.   *)
THEOREM NoOrphanedLock == Spec => []LocksLive
  <1>1. Init => LocksLive
    BY DEF Init, LocksLive
  <1>2. TypeOK /\ IInv /\ LocksLive /\ [Next]_vars => LocksLive'
    <2> SUFFICES ASSUME TypeOK, IInv, LocksLive, [Next]_vars PROVE LocksLive'
      OBVIOUS
    <2> USE RedeemAssumption DEF TypeOK, IInv, LocksLive
    <2>1. ASSUME NEW r \in Calls, NotFound(r) \/ Replay(r) \/ Refuse(r) \/ LoseRace(r)
                                     \/ Find(r)
          PROVE  LocksLive'
      BY <2>1 DEF NotFound, Replay, Refuse, LoseRace, Find, Respond
    <2>2. ASSUME NEW r \in Calls, MarkUsed(r)
          PROVE  LocksLive'
      BY <2>2 DEF MarkUsed
    <2>3. ASSUME NEW r \in Calls, Commit(r) \/ CommitUnanswered(r)
          PROVE  LocksLive'
      BY <2>3 DEF Commit, CommitUnanswered, Spend, Respond
    <2>4. ASSUME NEW r \in Calls, Fail(r)
          PROVE  LocksLive'
      BY <2>4 DEF Fail, Respond
    <2>5. CASE UNCHANGED vars
      BY <2>5 DEF vars
    <2> QED BY <2>1, <2>2, <2>3, <2>4, <2>5 DEF Next, Step, Answered
  <1> QED BY <1>1, <1>2, TypeCorrect, Invariance, PTL DEF Spec
=============================================================================
