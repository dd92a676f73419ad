---------------------------- MODULE Reservation ----------------------------
(***************************************************************************)
(* What server-b promises about reservations, whatever Redis commands,     *)
(* sweeps, result messages and crashes are underneath: a pair is given to  *)
(* at most one call, and the others are duplicates; a reservation leaves   *)
(* the work list only when a conclusion is shown for it; and the SUCCESS   *)
(* and SOLD_OUT it shows are server-c's.  PendingIssue implements it.      *)
(***************************************************************************)
CONSTANTS Pairs,    \* (userId, couponTypeId) pairs
          Calls,    \* calls of accept()
          PairOf    \* the pair a call is for

VARIABLES taken,      \* pairs that are reserved
          tracked,    \* pairs on the work list
          shown,      \* the status a pair has in server-b
          truth,      \* the status it has in server-c
          answer,     \* what each call was told, or whether it holds its pair
          forgotten   \* whether a reservation has been dropped by its TTL

vars == <<taken, tracked, shown, truth, answer, forgotten>>
-----------------------------------------------------------------------------
Final == {"SUCCESS", "SOLD_OUT", "FAILED"}

Init ==
    /\ taken = {}
    /\ tracked = {}
    /\ shown = [k \in Pairs |-> "none"]
    /\ truth = [k \in Pairs |-> "none"]
    /\ answer = [c \in Calls |-> "idle"]
    /\ forgotten = FALSE

Reserve(c) ==
    /\ answer[c] = "idle"
    /\ PairOf[c] \notin taken
    /\ taken' = taken \union {PairOf[c]}
    /\ answer' = [answer EXCEPT ![c] = "holding"]
    /\ UNCHANGED <<tracked, shown, truth, forgotten>>

Refuse(c) ==
    /\ answer[c] = "idle"
    /\ PairOf[c] \in taken
    /\ answer' = [answer EXCEPT ![c] = "DUPLICATE"]
    /\ UNCHANGED <<taken, tracked, shown, truth, forgotten>>

\* A reservation whose answer was lost looks like another's to its own call.
ReserveUnheard(c) ==
    /\ answer[c] = "idle"
    /\ PairOf[c] \notin taken
    /\ taken' = taken \union {PairOf[c]}
    /\ answer' = [answer EXCEPT ![c] = "DUPLICATE"]
    /\ UNCHANGED <<tracked, shown, truth, forgotten>>

\* Only a call that holds its pair may declare it pending.
Open(c) ==
    /\ answer[c] = "holding"
    /\ shown' = [shown EXCEPT ![PairOf[c]] = "PENDING"]
    /\ UNCHANGED <<taken, tracked, truth, answer, forgotten>>

\* ACCEPTED is a promise: the pair will be worked on, or is concluded.
Confirm(c) ==
    /\ answer[c] = "holding"
    /\ PairOf[c] \in tracked \/ shown[PairOf[c]] \in Final \/ forgotten
    /\ answer' = [answer EXCEPT ![c] = "ACCEPTED"]
    /\ UNCHANGED <<taken, tracked, shown, truth, forgotten>>

\* One call fails, or the process takes all of them with it.
Fail(C) ==
    /\ \A c \in C : answer[c] \in {"idle", "holding"}
    /\ answer' = [c \in Calls |-> IF c \in C THEN "ERROR" ELSE answer[c]]
    /\ UNCHANGED <<taken, tracked, shown, truth, forgotten>>

\* FAILED is server-b's own verdict; the others are server-c's.
Show(k, s) ==
    /\ \/ s = "FAILED"
       \/ s = "SOLD_OUT" /\ truth[k] = "SOLD_OUT"
       \/ s = "SUCCESS" /\ truth[k] \in {"SUCCESS", "USED"}
    /\ shown' = [shown EXCEPT ![k] = s]
    /\ UNCHANGED <<taken, tracked, truth, answer, forgotten>>

Track(k) ==
    /\ tracked' = tracked \union {k}
    /\ UNCHANGED <<taken, shown, truth, answer, forgotten>>

\* A repeated result of an earlier life is told from nothing.
Untrack(k) ==
    /\ shown[k] \in Final \/ forgotten
    /\ tracked' = tracked \ {k}
    /\ UNCHANGED <<taken, shown, truth, answer, forgotten>>

\* The TTL drops a reservation, never under the call that holds it.
Forget(k) ==
    /\ \A c \in Calls : PairOf[c] = k => answer[c] # "holding"
    /\ taken' = taken \ {k}
    /\ shown' = [shown EXCEPT ![k] = "none"]
    /\ forgotten' = TRUE
    /\ UNCHANGED <<tracked, truth, answer>>

\* server-c concludes a pair once; a coupon is spent once.
Decide(k, s) ==
    /\ \/ truth[k] = "none" /\ s \in Final
       \/ truth[k] = "SUCCESS" /\ s = "USED"
    /\ truth' = [truth EXCEPT ![k] = s]
    /\ UNCHANGED <<taken, tracked, shown, answer, forgotten>>

Next ==
    \/ \E c \in Calls : Reserve(c) \/ Refuse(c) \/ ReserveUnheard(c) \/ Open(c) \/ Confirm(c)
    \/ \E C \in SUBSET Calls : Fail(C)
    \/ \E k \in Pairs : Track(k) \/ Untrack(k) \/ Forget(k)
    \/ \E k \in Pairs : \E s \in Final \union {"USED"} : Show(k, s) \/ Decide(k, s)

Spec == Init /\ [][Next]_vars
=============================================================================
