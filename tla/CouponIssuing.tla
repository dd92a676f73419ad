--------------------------- MODULE CouponIssuing ---------------------------
(***************************************************************************)
(* What server-c promises about issuing, whatever transactions, workers,   *)
(* retries and crashes are underneath: a request is concluded in one       *)
(* indivisible step that gives the (user, coupon type) its only row, takes *)
(* one coupon from the stock exactly when that row is a SUCCESS, and       *)
(* records the result to announce.  The stock comes from an administrator, *)
(* who may add to it.  IssueProcessor implements it.                       *)
(***************************************************************************)
EXTENDS IssuingData

VARIABLES coupon,       \* the user_coupon table, by (user_id, coupon_type_id)
          available,    \* coupon_type_inventory.available_count
          total,        \* coupon_type_inventory.total_inventory
          outbox,       \* the results recorded in outbox_event, by requestId
          soldOutKey    \* whether the coupon-available negative key is in Redis

vars == <<coupon, available, total, outbox, soldOutKey>>
-----------------------------------------------------------------------------
HasRow(k) == coupon[k].status # "none"

TypeOK ==
    /\ coupon \in [Keys -> Rows \union {NoRow}]
    /\ available \in [Types -> Nat]
    /\ total \in [Types -> Nat]
    /\ outbox \in [Requests -> Seq(Statuses)]
    /\ soldOutKey \in [Types -> BOOLEAN]

Init ==
    /\ coupon = [k \in Keys |-> NoRow]
    /\ available = Total
    /\ total = Total
    /\ outbox = [r \in Requests |-> << >>]
    /\ soldOutKey = [t \in Types |-> FALSE]

\* The row and the announcement of a concluded request appear together.
Record(r, s) ==
    /\ ~ HasRow(KeyOf(r))
    /\ coupon' = [coupon EXCEPT ![KeyOf(r)] = [status |-> s, request |-> r]]
    /\ outbox' = [outbox EXCEPT ![r] = Append(@, s)]
    /\ UNCHANGED <<total, soldOutKey>>

\* A coupon is issued and leaves the stock.
Issue(r) ==
    /\ available[TypeOf[r]] > 0
    /\ available' = [available EXCEPT ![TypeOf[r]] = @ - 1]
    /\ Record(r, "SUCCESS")

\* The user comes after the last coupon.
RefuseSoldOut(r) ==
    /\ available[TypeOf[r]] = 0
    /\ UNCHANGED available
    /\ Record(r, "SOLD_OUT")

\* The event is not running.
RefuseInactive(r) ==
    /\ UNCHANGED available
    /\ Record(r, "FAILED")

\* An administrator adds to the inventory row (nothing in src/ does).
Restock(t) ==
    /\ \E n \in 1 .. (MaxTotal - total[t]) :
          /\ available' = [available EXCEPT ![t] = @ + n]
          /\ total' = [total EXCEPT ![t] = @ + n]
    /\ UNCHANGED <<coupon, outbox, soldOutKey>>

Restocked(t) == total[t] > Total[t]

\* The negative key is set when the stock is gone, or by somebody who has seen
\* it gone before a restock ...
HintSoldOut(t) ==
    /\ available[t] = 0 \/ Restocked(t)
    /\ soldOutKey' = [soldOutKey EXCEPT ![t] = TRUE]
    /\ UNCHANGED <<coupon, available, total, outbox>>

\* ... and its TTL, or an operator after a restock, may drop it at any time.
ForgetHint(t) ==
    /\ soldOutKey' = [soldOutKey EXCEPT ![t] = FALSE]
    /\ UNCHANGED <<coupon, available, total, outbox>>

Next ==
    \/ \E r \in Requests : Issue(r) \/ RefuseSoldOut(r) \/ RefuseInactive(r)
    \/ \E t \in Types : HintSoldOut(t) \/ ForgetHint(t) \/ Restock(t)

Spec == Init /\ [][Next]_vars
-----------------------------------------------------------------------------
Issued(t) == {u \in Users : coupon[<<u, t>>].status = "SUCCESS"}

(* No coupon is created or leaked: the stock that is left and the coupons  *)
(* issued always add up to the total the administrator has put in.         *)
InventoryConserved ==
    \A t \in Types : available[t] + Cardinality(Issued(t)) = total[t]

(* Every row has exactly one result recorded for it, with its status and   *)
(* under the request that made it, and no result is recorded without one.  *)
ResultRecordedOnce ==
    /\ \A k \in Keys : HasRow(k) =>
          /\ KeyOf(coupon[k].request) = k
          /\ outbox[coupon[k].request] = <<coupon[k].status>>
    /\ \A r \in Requests : outbox[r] # << >> => coupon[KeyOf(r)].request = r

(* Nobody is told "sold out", by a row or by the negative key server-a     *)
(* reads, while a coupon is left, unless the stock has been added to.      *)
(* After a restock the row and the key that said so stay, the key for up   *)
(* to its 24 hours: cache.md asks the operator to delete it.               *)
SoldOutTruthful ==
    \A t \in Types :
       (soldOutKey[t] \/ \E u \in Users : coupon[<<u, t>>].status = "SOLD_OUT")
          => available[t] = 0 \/ Restocked(t)
=============================================================================
