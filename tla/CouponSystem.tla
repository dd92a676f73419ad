---------------------------- MODULE CouponSystem ----------------------------
(***************************************************************************)
(* The three servers together.  server-b is PendingIssue, Redis command by *)
(* command; server-c is the promise of CouponIssuing, which IssueProcessor *)
(* implements; of server-a there is the sold-out key, read before a        *)
(* request reaches server-b.  A request in the topic is served by both     *)
(* modules in one step, and the row server-b looks up is server-c's.  An   *)
(* administrator may add to the stock; the key stays when he does.         *)
(* Redeeming is left to Redeem and PendingIssue.                           *)
(***************************************************************************)
EXTENDS PendingIssue

CONSTANTS Users, Types, \* userIds and couponTypeIds
          Others,       \* requests whose way through server-b is not followed
          UserOf,       \* the user a call or another request is for
          TypeOf,       \* the coupon type it is for
          Total,        \* total_inventory of each coupon type at the start
          MaxTotal      \* bound: total_inventory after the restocks

VARIABLES coupon, available, total, outbox, soldOutKey, \* of CouponIssuing
          turnedAway    \* calls server-a answered SOLD_OUT by itself

serverC    == <<coupon, available, total, outbox, soldOutKey>>
systemVars == <<vars, serverC, turnedAway>>

C == INSTANCE CouponIssuing WITH Requests <- Calls \union Others, NoRequest <- NoCall

ASSUME SystemAssumption ==
    /\ C!IssuingAssumption
    /\ \A c \in Calls : PairOf[c] = C!KeyOf(c)
    /\ Pairs \subseteq C!Keys
    /\ \A r \in Others : C!KeyOf(r) \notin Pairs
-----------------------------------------------------------------------------
SystemInit == Init /\ C!Init /\ turnedAway = {}

\* isSoldOut() found the key: the request ends in server-a.
TurnAway(c) ==
    /\ call[c] = "idle"
    /\ c \notin turnedAway
    /\ soldOutKey[TypeOf[c]]
    /\ turnedAway' = turnedAway \union {c}
    /\ UNCHANGED <<vars, serverC>>

\* server-b and Kafka, for the calls that got that far.
ServerB ==
    /\ Outside
    /\ \A c \in turnedAway : call'[c] = call[c]
    /\ UNCHANGED <<serverC, turnedAway>>

\* The processor commits the row, the stock and the announcement in one.
Processed(r) == C!Issue(r) \/ C!RefuseSoldOut(r) \/ C!RefuseInactive(r)

Decide(r) ==
    /\ Serve(r)
    /\ Processed(r)
    /\ row'[PairOf[r]] = coupon'[PairOf[r]].status
    /\ UNCHANGED turnedAway

\* Somebody else's request takes a coupon.  (Refused, it would leave a row and an
\* announcement of its own, which nobody here reads, and the stock as it is.)
DecideOther(r) == C!Issue(r) /\ UNCHANGED <<vars, turnedAway>>

\* The negative key comes, after the last coupon, and goes with its TTL; a
\* restock leaves it alone.
Hint(t) ==
    /\ C!HintSoldOut(t) \/ C!ForgetHint(t)
    /\ UNCHANGED <<vars, turnedAway>>

Restock(t) ==
    /\ C!Restock(t)
    /\ UNCHANGED <<vars, turnedAway>>

SystemNext ==
    \/ ServerB
    \/ \E c \in Calls : TurnAway(c) \/ Decide(c)
    \/ \E r \in Others : DecideOther(r)
    \/ \E t \in Types : Hint(t) \/ Restock(t)

\* Of the environment nothing is assumed, as in PendingIssue.
SystemSpec == SystemInit /\ [][SystemNext]_systemVars /\ Fairness
-----------------------------------------------------------------------------
\* Pairs of a coupon type that server-b shows a status for.
ShownAs(s, t) == {k \in Pairs : k[2] = t /\ hash[k].status = s}

(* What users are told adds up across the servers: server-b never shows    *)
(* more SUCCESSes than coupons have left the stock, and while a type has   *)
(* not been restocked neither its SOLD_OUT nor server-a's short cut is     *)
(* given with a coupon left.  After a restock the key goes on turning      *)
(* users away, for up to 24 hours or until an operator deletes it, as      *)
(* cache.md:112 and coupon-availability.cache.ts:12-14 say.                *)
AnswersAddUp ==
    \A t \in Types :
       /\ Cardinality(ShownAs("SUCCESS", t)) + available[t] <= total[t]
       /\ ShownAs("SOLD_OUT", t) # {} \/ (\E c \in turnedAway : TypeOf[c] = t)
             => available[t] = 0 \/ C!Restocked(t)
=============================================================================
