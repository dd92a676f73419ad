------------------------------ MODULE MCRedeem ------------------------------
(***************************************************************************)
(* A small instance of Redeem.                                             *)
(***************************************************************************)
EXTENDS Redeem, TLC

CONSTANTS a, b, u1, u2, r1, r2, r3, r4

\* The owner's phone and laptop call three times for the same coupon; another
\* user tries it too.
TwoCoupons == a :> u1 @@ b :> u2
Callers    == r1 :> u1 @@ r2 :> u1 @@ r3 :> u1 @@ r4 :> u2
Codes      == r1 :> a @@ r2 :> a @@ r3 :> a @@ r4 :> a
=============================================================================
