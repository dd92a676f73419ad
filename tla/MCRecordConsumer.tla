-------------------------- MODULE MCRecordConsumer --------------------------
(***************************************************************************)
(* A small instance of RecordConsumer.                                     *)
(***************************************************************************)
EXTENDS RecordConsumer, TLC
=============================================================================
