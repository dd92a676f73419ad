-------------------------- MODULE MCIssueProcessor --------------------------
(***************************************************************************)
(* Small instances of IssueProcessor.                                      *)
(***************************************************************************)
EXTENDS IssueProcessor, TLC

CONSTANTS u1, u2, t1, r1, r2, r3, m1, m2, m3

\* Two users race for the coupons; the first has asked twice, the second time
\* with a new requestId, as after the 24 hours that the reservation in server-b
\* lives.
RaceUserOf  == r1 :> u1 @@ r2 :> u1 @@ r3 :> u2
RaceTypeOf  == r1 :> t1 @@ r2 :> t1 @@ r3 :> t1
RaceOf      == m1 :> r1 @@ m2 :> r2 @@ m3 :> r3
OneLeft     == t1 :> 1

\* The workers are alike (only safety is checked under this symmetry).
WorkerSymmetry == Permutations(Workers)

\* One request can be concluded; the two others name an event and a coupon type
\* that do not exist.
PoisonUserOf == r1 :> u1 @@ r2 :> u2 @@ r3 :> u2
PoisonTypeOf == r1 :> t1 @@ r2 :> t1 @@ r3 :> t1
PoisonOf     == m1 :> r1 @@ m2 :> r2 @@ m3 :> r3
=============================================================================
