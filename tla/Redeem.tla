------------------------------- MODULE Redeem -------------------------------
(***************************************************************************)
(* server-c: RedeemCouponService.redeem, which spends an issued coupon in  *)
(* a transaction of one plain SELECT and one conditional UPDATE.  Calls    *)
(* run concurrently; only the version in the UPDATE's WHERE and the row    *)
(* lock the UPDATE takes keep them apart.                                  *)
(***************************************************************************)
EXTENDS Naturals, FiniteSets

CONSTANTS Coupons,    \* rows of user_coupon, named by their code
          Users,
          OwnerOf,    \* the user_id of a row
          Calls,      \* calls of redeem()
          NoCall,     \* a row nobody has spent or locked
          UserOf,     \* who calls
          CodeOf      \* the code a call names, which may have no row

ASSUME RedeemAssumption ==
    /\ NoCall \notin Calls
    /\ OwnerOf \in [Coupons -> Users]
    /\ UserOf \in [Calls -> Users]

VARIABLES
    status,     \* user_coupon.status
    usedAt,     \* user_coupon.used_at: the call whose clock it is
    version,    \* user_coupon.version
    lock,       \* the call whose transaction has updated the row
    pc,         \* what a call does next
    seen,       \* the version of the entity it has read
    answer,     \* its result
    redeemedAt  \* and the time the result carries

row  == <<status, usedAt, version>>
vars == <<row, lock, pc, seen, answer, redeemedAt>>
-----------------------------------------------------------------------------
Answers == {"none", "redeemed", "alreadyRedeemed", "notFound", "invalidState",
            "raceRetry", "error"}

TypeOK ==
    /\ status \in [Coupons -> {"SUCCESS", "SOLD_OUT", "FAILED", "USED"}]
    /\ usedAt \in [Coupons -> Calls \union {NoCall}]
    /\ version \in [Coupons -> Nat]
    /\ lock \in [Coupons -> Calls \union {NoCall}]
    /\ pc \in [Calls -> {"find", "update", "commit", "done"}]
    /\ seen \in [Calls -> Nat]
    /\ answer \in [Calls -> Answers]
    /\ redeemedAt \in [Calls -> Calls \union {NoCall}]

Init ==
    /\ status \in [Coupons -> {"SUCCESS", "SOLD_OUT", "FAILED"}]
    /\ usedAt = [c \in Coupons |-> NoCall]
    /\ version = [c \in Coupons |-> 0]
    /\ lock = [c \in Coupons |-> NoCall]
    /\ pc = [r \in Calls |-> "find"]
    /\ seen = [r \in Calls |-> 0]
    /\ answer = [r \in Calls |-> "none"]
    /\ redeemedAt = [r \in Calls |-> NoCall]
-----------------------------------------------------------------------------
\* The call returns or throws.
Respond(r, a, t) ==
    /\ answer' = [answer EXCEPT ![r] = a]
    /\ redeemedAt' = [redeemedAt EXCEPT ![r] = t]
    /\ pc' = [pc EXCEPT ![r] = "done"]

\* isOwnedBy, of a row that is there; isRedeemed; isRedeemable.
Owned(r)      == CodeOf[r] \in Coupons /\ OwnerOf[CodeOf[r]] = UserOf[r]
Redeemed(r)   == usedAt[CodeOf[r]] # NoCall
Redeemable(r) == status[CodeOf[r]] = "SUCCESS" /\ usedAt[CodeOf[r]] = NoCall

\* findByCode finds no row, or another user's, which must look the same.
NotFound(r) ==
    /\ pc[r] = "find"
    /\ ~ Owned(r)
    /\ Respond(r, "notFound", NoCall)
    /\ UNCHANGED <<row, lock, seen>>

\* isRedeemed: the repeated call is answered with the first time of use.
Replay(r) ==
    /\ pc[r] = "find"
    /\ Owned(r)
    /\ Redeemed(r)
    /\ Respond(r, "alreadyRedeemed", usedAt[CodeOf[r]])
    /\ UNCHANGED <<row, lock, seen>>

\* ~ isRedeemable: the row of a request that was refused.
Refuse(r) ==
    /\ pc[r] = "find"
    /\ Owned(r)
    /\ ~ Redeemed(r)
    /\ ~ Redeemable(r)
    /\ Respond(r, "invalidState", NoCall)
    /\ UNCHANGED <<row, lock, seen>>

\* The entity is redeemable; its version is remembered.
Find(r) ==
    /\ pc[r] = "find"
    /\ Owned(r)
    /\ ~ Redeemed(r)
    /\ Redeemable(r)
    /\ seen' = [seen EXCEPT ![r] = version[CodeOf[r]]]
    /\ pc' = [pc EXCEPT ![r] = "update"]
    /\ UNCHANGED <<row, lock, answer, redeemedAt>>

\* Faulty variant: the WHERE clause has the id alone, as with save().
MarkUsedById(r) ==
    /\ pc[r] = "update"
    /\ lock[CodeOf[r]] = NoCall
    /\ lock' = [lock EXCEPT ![CodeOf[r]] = r]
    /\ pc' = [pc EXCEPT ![r] = "commit"]
    /\ UNCHANGED <<row, seen, answer, redeemedAt>>

\* UPDATE ... WHERE user_coupon_id = id AND version = expectedVersion, which
\* waits for the row lock and then sees the committed version.
MarkUsed(r) ==
    /\ pc[r] = "update"
    /\ lock[CodeOf[r]] = NoCall
    /\ version[CodeOf[r]] = seen[r]
    /\ lock' = [lock EXCEPT ![CodeOf[r]] = r]
    /\ pc' = [pc EXCEPT ![r] = "commit"]
    /\ UNCHANGED <<row, seen, answer, redeemedAt>>

\* Faulty variant: the UPDATE does not wait, as with NOWAIT.
LoseRaceAtOnce(r) ==
    /\ pc[r] = "update"
    /\ lock[CodeOf[r]] # NoCall \/ version[CodeOf[r]] # seen[r]
    /\ Respond(r, "raceRetry", NoCall)
    /\ UNCHANGED <<row, lock, seen>>

\* Faulty variant: the caller tries again with the version it has read.
LoseRaceSpins(r) ==
    /\ pc[r] = "update"
    /\ lock[CodeOf[r]] = NoCall
    /\ version[CodeOf[r]] # seen[r]
    /\ UNCHANGED vars

\* affected = 0.
LoseRace(r) ==
    /\ pc[r] = "update"
    /\ lock[CodeOf[r]] = NoCall
    /\ version[CodeOf[r]] # seen[r]
    /\ Respond(r, "raceRetry", NoCall)
    /\ UNCHANGED <<row, lock, seen>>

\* Faulty variant: used_at is written without the status.
SpendTimeOnly(r) ==
    /\ pc[r] = "commit"
    /\ usedAt' = [usedAt EXCEPT ![CodeOf[r]] = r]
    /\ version' = [version EXCEPT ![CodeOf[r]] = @ + 1]
    /\ lock' = [lock EXCEPT ![CodeOf[r]] = NoCall]
    /\ UNCHANGED <<status, seen>>

\* Faulty variant: the row gets the name the answer has for it, which is no
\* status of a user_coupon.
SpendAsRedeemed(r) ==
    /\ pc[r] = "commit"
    /\ status' = [status EXCEPT ![CodeOf[r]] = "REDEEMED"]
    /\ usedAt' = [usedAt EXCEPT ![CodeOf[r]] = r]
    /\ version' = [version EXCEPT ![CodeOf[r]] = @ + 1]
    /\ lock' = [lock EXCEPT ![CodeOf[r]] = NoCall]
    /\ UNCHANGED seen

\* COMMIT of the UPDATE.
Spend(r) ==
    /\ pc[r] = "commit"
    /\ status' = [status EXCEPT ![CodeOf[r]] = "USED"]
    /\ usedAt' = [usedAt EXCEPT ![CodeOf[r]] = r]
    /\ version' = [version EXCEPT ![CodeOf[r]] = @ + 1]
    /\ lock' = [lock EXCEPT ![CodeOf[r]] = NoCall]
    /\ UNCHANGED seen

\* The answer of the COMMIT arrives ...
Commit(r) == Spend(r) /\ Respond(r, "redeemed", r)
\* ... or is lost: the caller gets an error for a coupon it has spent.
CommitUnanswered(r) == Spend(r) /\ Respond(r, "error", NoCall)

\* A statement fails or the process dies: the transaction is rolled back.
Fail(r) ==
    /\ pc[r] # "done"
    /\ Respond(r, "error", NoCall)
    /\ lock' = [c \in Coupons |-> IF lock[c] = r THEN NoCall ELSE lock[c]]
    /\ UNCHANGED <<row, seen>>

\* Every call has been answered.
Answered == (\A r \in Calls : pc[r] = "done") /\ UNCHANGED vars

Step(r) ==
    \/ NotFound(r) \/ Replay(r) \/ Refuse(r) \/ Find(r) \/ MarkUsed(r)
    \/ LoseRace(r) \/ Commit(r)

Next == (\E r \in Calls : Step(r) \/ CommitUnanswered(r) \/ Fail(r)) \/ Answered

Spec == Init /\ [][Next]_vars

\* The database answers; it need not fail.
FairSpec == Spec /\ \A r \in Calls : WF_vars(Step(r))
-----------------------------------------------------------------------------
(* A coupon is spent at most once, however its redemptions interleave, and *)
(* only by its owner's call: whoever is told "redeemed" is the one call    *)
(* whose time is in the row.                                               *)
RedeemedOnce ==
    \A r \in Calls : answer[r] = "redeemed" =>
       usedAt[CodeOf[r]] = r /\ status[CodeOf[r]] = "USED"

(* The repeated call reports the committed first use, never a time that a  *)
(* rollback or a later call would take away.                               *)
ReplayTruthful ==
    \A r \in Calls : answer[r] = "alreadyRedeemed" =>
       redeemedAt[r] # NoCall /\ redeemedAt[r] = usedAt[CodeOf[r]]

(* RACE_RETRY is said only when another call has really won: the coupon is *)
(* spent, and the retry the 409 asks for will be answered as a replay.     *)
RaceHasWinner ==
    \A r \in Calls : answer[r] = "raceRetry" => usedAt[CodeOf[r]] \in Calls \ {r}

(* The first time of use is final.                                         *)
FirstUseIsFinal ==
    [][\A c \in Coupons : usedAt[c] # NoCall => usedAt'[c] = usedAt[c]]_usedAt

(* Every call is answered: nobody waits for a row lock for ever.           *)
EveryCallAnswered == \A r \in Calls : <>(answer[r] # "none")
=============================================================================
