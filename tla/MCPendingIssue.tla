--------------------------- MODULE MCPendingIssue ---------------------------
(***************************************************************************)
(* Small instances of PendingIssue.                                        *)
(***************************************************************************)
EXTENDS PendingIssue, TLC

CONSTANTS k1, c1, c2

\* A user who asks twice for the same coupon type.
AskedTwice == c1 :> k1 @@ c2 :> k1

\* Which slot a sweep runs in makes no difference.
SweepSymmetry == Permutations(Sweeps)
=============================================================================
