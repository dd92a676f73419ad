--------------------------- MODULE MCCouponSystem ---------------------------
(***************************************************************************)
(* A small instance of CouponSystem.                                       *)
(***************************************************************************)
EXTENDS CouponSystem, TLC

CONSTANTS u1, u2, u3, t1, c1, c2, r3

\* Two users; one coupon, which a third may take.
UserKeys == {<<u1, t1>>, <<u2, t1>>}
AskedFor == c1 :> <<u1, t1>> @@ c2 :> <<u2, t1>>
Callers  == c1 :> u1 @@ c2 :> u2 @@ r3 :> u3
Asked    == c1 :> t1 @@ c2 :> t1 @@ r3 :> t1
OneLeft  == t1 :> 1

\* The second user is 0, whom the publisher refuses.
UserZero == {<<u2, t1>>}
=============================================================================
