--------------------------- MODULE RecordDelivery ---------------------------
(***************************************************************************)
(* What a consumer group promises about a partition, whatever its members  *)
(* suffer: records are handed over for the first time in their order, some *)
(* of them again, and the group's position passes none that was not.       *)
(* RecordConsumer implements it.                                           *)
(***************************************************************************)
EXTENDS Naturals

VARIABLES end,       \* the records of the partition are 0 .. end - 1
          delivered, \* those handed over to deliver() at least once
          committed  \* where a group that starts anew resumes

vars == <<end, delivered, committed>>
-----------------------------------------------------------------------------
Before(n) == 0 .. (n - 1)

Init == end = 0 /\ delivered = {} /\ committed = 0

Produce == end' = end + 1 /\ UNCHANGED <<delivered, committed>>

\* A record is handed over, again perhaps, but not before those ahead of it.
HandOver(n) ==
    /\ n < end
    /\ Before(n) \subseteq delivered
    /\ delivered' = delivered \union {n}
    /\ UNCHANGED <<end, committed>>

\* The position moves on, over records that have been handed over.
Advance(n) ==
    /\ n >= committed
    /\ Before(n) \subseteq delivered
    /\ committed' = n
    /\ UNCHANGED <<end, delivered>>

Next == Produce \/ \E n \in 0 .. end : HandOver(n) \/ Advance(n)

Spec == Init /\ [][Next]_vars
=============================================================================
