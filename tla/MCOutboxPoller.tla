--------------------------- MODULE MCOutboxPoller ---------------------------
(***************************************************************************)
(* A small instance of OutboxPoller: one event more than a batch, one of   *)
(* them never taken by the broker.                                         *)
(***************************************************************************)
EXTENDS OutboxPoller

CONSTANTS e1, e2, e3, c1, c2
=============================================================================
