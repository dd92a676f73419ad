---------------------------- MODULE IssuingData ----------------------------
(***************************************************************************)
(* The data server-c issues over: the request payload (requestId, user,    *)
(* coupon type), the user_coupon row and the inventory row.                *)
(***************************************************************************)
EXTENDS Naturals, Sequences, FiniteSets

CONSTANTS Users,      \* user_id values
          Types,      \* coupon_type_id values, each with its inventory row
          Requests,   \* requestId values, made by server-b
          NoRequest,  \* stands for "no request"
          UserOf,     \* the user a request is for
          TypeOf,     \* the coupon type a request is for
          Total,      \* total_inventory of each coupon type at the start
          MaxTotal    \* bound: total_inventory after the restocks

ASSUME IssuingAssumption ==
    /\ IsFiniteSet(Users)
    /\ NoRequest \notin Requests
    /\ UserOf \in [Requests -> Users]
    /\ TypeOf \in [Requests -> Types]
    /\ Total \in [Types -> Nat]
    /\ MaxTotal \in Nat

\* The status a row is created with (redeeming, which turns SUCCESS into
\* USED, is another component).
Statuses == {"SUCCESS", "SOLD_OUT", "FAILED"}

\* UNIQUE (user_id, coupon_type_id)
Keys     == Users \X Types
KeyOf(r) == <<UserOf[r], TypeOf[r]>>

\* A row keeps its status and, through the code column, the request that made
\* it: a SOLD_OUT or FAILED row's placeholder code is cut from the requestId.
NoRow == [status |-> "none", request |-> NoRequest]
Rows  == [status : Statuses, request : Requests]
=============================================================================
