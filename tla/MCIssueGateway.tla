--------------------------- MODULE MCIssueGateway ---------------------------
(***************************************************************************)
(* Small instances of IssueGateway: a window of two outcomes, which opens  *)
(* when both are failures.                                                 *)
(***************************************************************************)
EXTENDS IssueGateway

CONSTANT p1
=============================================================================
