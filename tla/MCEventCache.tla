---------------------------- MODULE MCEventCache ----------------------------
(***************************************************************************)
(* A small instance of EventCache.                                         *)
(***************************************************************************)
EXTENDS EventCache, TLC
=============================================================================
