------------------------- MODULE PendingIssueProofs -------------------------
(***************************************************************************)
(* The safety invariants of PendingIssue, and that it implements           *)
(* Reservation, for any pairs, calls, attempts, faults and expiries; then  *)
(* what the three servers of CouponSystem promise together, for any number *)
(* of users, coupon types, calls and other requests.                       *)
(***************************************************************************)
EXTENDS CouponSystem, FiniteSetTheorems, TLAPS

-----------------------------------------------------------------------------
\* Who has, or was given, the reservation of a pair.
Holder(c)  == Holding(c) \/ call[c] = "ACCEPTED"
Holders(k) == {c \in Calls : PairOf[c] = k /\ Holder(c)}

\* Every life of a reservation has its holder, the present one included.
HoldersBounded ==
    \A k \in Pairs :
       Cardinality(Holders(k)) <= expiries + (IF hash[k].user THEN 1 ELSE 0)

\* In its first life a pair is taken once a call holds it or was given it, and
\* that is one call.
HolderInv ==
    expiries = 0 =>
       /\ \A c \in Calls : Holder(c) => hash[PairOf[c]].user
       /\ \A c, d \in Calls : Holder(c) /\ Holder(d) /\ PairOf[c] = PairOf[d] => c = d

\* What a sweep has of a pair in its hands: the counter it has read is not
\* behind the one in Redis.
Fits(p) ==
    /\ p.request \in Calls /\ PairOf[p.request] = p.key
    /\ p.attempts >= 1 /\ hash[p.key].attempts <= p.attempts

\* A sweep holds a pair once: to be read, in its batch, or in its hands.
BatchInv(s) ==
    /\ step[s] # "read" => scanning[s] = {}
    /\ step[s] \in {"idle", "scan"} => batch[s] = {}
    /\ \A p \in batch[s] : /\ Fits(p)
                           /\ p.key \notin scanning[s]
                           /\ Working(s) => p.key # item[s].key
    /\ \A p, q \in batch[s] : p.key = q.key => p = q
    /\ Working(s) => item[s].request \in Calls /\ PairOf[item[s].request] = item[s].key
    /\ step[s] = "count" => Fits(item[s]) /\ item[s].attempts < MaxPublishAttempts

\* One sweep is open at most.
SweepInv ==
    /\ \A s \in Sweeps : step[s] # "idle" => running
    /\ \A s, t \in Sweeps : step[s] # "idle" /\ step[t] # "idle" => s = t
    /\ \A s \in Sweeps : BatchInv(s)
    /\ \A k \in Pairs : hash[k].request # NoCall => PairOf[hash[k].request] = k

Issued  == {"SUCCESS", "USED"}
Marking == {"status", "code", "zrem"}

\* An outcome that agrees with server-c's row.
Agrees(o, r) ==
    /\ o.status \in Terminal
    /\ o.status = "SUCCESS" => r \in Issued
    /\ o.status = "SOLD_OUT" => r = "SOLD_OUT"
    /\ o.code = "real" => r \in Issued
    /\ o.code = "placeholder" => r \in {"SOLD_OUT", "FAILED"}

\* A message is of a row, and the consumer's is due; who writes a result writes
\* the one of the row.
OutcomeInv ==
    /\ \A k \in Pairs : result[k] # "none" => row[k] # "none"
    /\ step[Consumer] \in Marking => result[item[Consumer].key] = "due"
    /\ \A p \in Writers : step[p] \in Marking => Agrees(outcome[p], row[item[p].key])

\* The consumer writes the code of an issued coupon; a sweep that writes none
\* gives the pair up.
CarryInv ==
    /\ step[Consumer] \in Marking \union {"idle"}
    /\ step[Consumer] \in Marking /\ row[item[Consumer].key] \in Issued =>
          outcome[Consumer].code = "real"
    /\ \A s \in Sweeps : step[s] \in Marking /\ outcome[s].code = "none" =>
                            outcome[s].status = "FAILED"
    /\ \A p \in Writers : step[p] = "code" => outcome[p].code # "none"
    /\ \A p \in Writers : step[p] = "zrem" /\ outcome[p].code = "real" =>
                             hash[item[p].key].code = "real"

\* The code of a pair is there, or there is a message that carries it.
CodeSafe(k) == hash[k].code = "real" \/ result[k] \in {"due", "skipped"}

\* A sweep that gives a pair up does not hide a SUCCESS without its code.
GiveUpInv ==
    \A s \in Sweeps :
       step[s] \in Marking /\ outcome[s].code = "none"
             /\ hash[item[s].key].status = "SUCCESS" => CodeSafe(item[s].key)

\* A member that went while a sweep held it went with its result.
HeldInv ==
    \A s \in Sweeps, k \in Pairs : Held(s, k) /\ zset[k] = "out" =>
       row[k] # "none" /\ (row[k] \in Issued => hash[k].code = "real")

\* Nobody but the call that reserves it knows of a pair ...
Untouched(k) ==
    /\ zset[k] = "out" /\ row[k] = "none" /\ result[k] = "none"
    /\ \A r \in sending \union topic : PairOf[r] # k
    /\ \A s \in Sweeps : ~ Held(s, k)

\* ... until its fields are written, in its first life.
Fresh(k) == ~ hash[k].user \/ \E c \in Calls : PairOf[c] = k /\ call[c] = "hset"
UntouchedInv == expiries = 0 => \A k \in Pairs : Fresh(k) => Untouched(k)

\* In its first life a pair has its status when its member is taken out ...
MarkedInv ==
    expiries = 0 =>
       \A p \in Writers : step[p] \in {"code", "zrem"} => Concluded(item[p].key)

\* ... so that whoever was promised a conclusion has it, or its member is there.
PromiseInv ==
    expiries = 0 =>
       \A c \in Calls : call[c] \in {"publish", "await", "ACCEPTED"} =>
          Concluded(PairOf[c]) \/ zset[PairOf[c]] # "out"

IInv ==
    /\ TypeOK
    /\ HoldersBounded /\ HolderInv
    /\ SweepInv /\ RepublishCapped
    /\ OutcomeInv /\ ResultTruthful
    /\ CarryInv /\ GiveUpInv /\ HeldInv /\ SuccessCarriesCode
    /\ UntouchedInv /\ MarkedInv /\ PromiseInv

\* What stands for "nothing" has the type of what it stands for.
LEMMA Nothing == NoItem \in Items /\ NoHash \in Hashes /\ NoOutcome \in Outcomes
  <1>1. (CHOOSE k \in Pairs : TRUE) \in Pairs
    BY PendingAssumption
  <1> QED BY <1>1 DEF NoItem, Items, NoHash, Hashes, NoOutcome, Outcomes, Terminal, Codes

\* Writing a field of a hash makes a hash.
LEMMA HashField ==
    \A h \in Hashes :
       /\ [h EXCEPT !.user = TRUE] \in Hashes
       /\ [h EXCEPT !.ttl = TRUE] \in Hashes
       /\ \A o \in Outcomes : /\ [h EXCEPT !.status = o.status] \in Hashes
                               /\ [h EXCEPT !.code = o.code] \in Hashes
       /\ \A n \in Nat : [h EXCEPT !.attempts = n] \in Hashes
       /\ \A r \in Calls :
             [h EXCEPT !.request = r, !.status = "PENDING", !.attempts = 1] \in Hashes
  BY DEF Hashes, Outcomes, Terminal, Codes
-----------------------------------------------------------------------------
(* Its steps, part by part.                                                *)

\* The actions, one by one.
LEMMA Actions == [Next]_vars =>
    \/ \E c \in Calls : Reserve(c)
    \/ \E c \in Calls : ReserveTwice(c)
    \/ \E c \in Calls : WriteFields(c)
    \/ \E c \in Calls : SetTtl(c)
    \/ \E c \in Calls : Enqueue(c)
    \/ \E c \in Calls : Publish(c)
    \/ \E c \in Calls : Accepted(c)
    \/ \E c \in Calls : AcceptFails(c)
    \/ \E r \in Calls : SendArrives(r)
    \/ \E r \in Calls : SendLost(r)
    \/ \E r \in Calls : Serve(r)
    \/ \E r \in Calls : ServeAgain(r)
    \/ \E r \in Calls : ServeGivesUp(r)
    \/ \E k \in Pairs : Redeliver(k)
    \/ \E k \in Pairs : Redeem(k)
    \/ \E k \in Pairs : Age(k)
    \/ \E k \in Pairs : Expire(k)
    \/ \E k \in Pairs : Consume(k)
    \/ \E p \in Writers : MarkStatus(p)
    \/ \E p \in Writers : MarkCode(p)
    \/ \E s \in Sweeps : Tick(s)
    \/ \E s \in Sweeps : Scan(s)
    \/ \E s \in Sweeps : ReadAll(s)
    \/ \E s \in Sweeps : SweepMarked(s)
    \/ \E s \in Sweeps : Count(s)
    \/ \E s \in Sweeps : CountTwice(s)
    \/ \E s \in Sweeps : Postpone(s)
    \/ \E s \in Sweeps : SendAgain(s)
    \/ \E s \in Sweeps : SweepEnds(s)
    \/ \E s \in Sweeps : ScanFails(s)
    \/ \E s \in Sweeps : ItemFails(s)
    \/ \E s \in Sweeps : \E k \in Pairs : Read(s, k)
    \/ \E s \in Sweeps : \E p \in batch[s] : LookUp(s, p)
    \/ \E s \in Sweeps : \E p \in batch[s] : LookupFails(s, p)
    \/ Consumed
    \/ ConsumeFails
    \/ Crash
    \/ UNCHANGED vars
  BY DEF Next, Outside, ServerC, AcceptStep, SweepStep, ConsumerStep,
         Environment, Failure, Writers

\* Every action keeps every variable in its type.
LEMMA TypeStep == TypeOK /\ SweepInv /\ [Next]_vars => TypeOK'
  <1> SUFFICES ASSUME TypeOK, SweepInv, [Next]_vars
               PROVE  TypeOK'
    OBVIOUS
  <1> USE PendingAssumption, Nothing
          DEF TypeOK, Writers, redis, kafka, outside, sweeps, hand, writers,
              local, bounds
  <1>1. ASSUME NEW c \in Calls, Reserve(c)
        PROVE  TypeOK'
    <2>1. hash' \in [Pairs -> Hashes]
      <3>1. hash[PairOf[c]] \in Hashes /\ [hash[PairOf[c]] EXCEPT !.user = TRUE] \in Hashes
        BY HashField
      <3>2. hash' = hash \/ hash' = [hash EXCEPT ![PairOf[c]] =
                [hash[PairOf[c]] EXCEPT !.user = TRUE]]
        BY <1>1 DEF Reserve, Answer
      <3>3. CASE hash' = hash
        BY <3>3
      <3>4. CASE hash' = [hash EXCEPT ![PairOf[c]] = [hash[PairOf[c]] EXCEPT !.user = TRUE]]
        BY <3>1, <3>4
      <3> QED BY <3>2, <3>3, <3>4
    <2> QED BY <1>1, <2>1
           DEF Reserve, Answer
  <1>1T. ASSUME NEW c \in Calls, ReserveTwice(c)
         PROVE  TypeOK'
    <2>1. hash' \in [Pairs -> Hashes]
      <3>1. hash[PairOf[c]] \in Hashes /\ [hash[PairOf[c]] EXCEPT !.user = TRUE] \in Hashes
        BY HashField
      <3>2. hash' = [hash EXCEPT ![PairOf[c]] = [hash[PairOf[c]] EXCEPT !.user = TRUE]]
        BY <1>1T DEF ReserveTwice, Answer
      <3> QED BY <3>1, <3>2
    <2> QED BY <1>1T, <2>1
           DEF ReserveTwice, Answer, Fault
  <1>2. ASSUME NEW c \in Calls, WriteFields(c)
        PROVE  TypeOK'
    <2>1. hash' \in [Pairs -> Hashes]
      <3>1. PairOf[c] \in Pairs /\ hash[PairOf[c]] \in Hashes
        BY DEF Items
      <3>2. [hash[PairOf[c]] EXCEPT !.request = c, !.status = "PENDING", !.attempts = 1] \in Hashes
        BY <3>1, HashField
      <3>3. hash' = [hash EXCEPT ![PairOf[c]] =
                [hash[PairOf[c]] EXCEPT !.request = c, !.status = "PENDING", !.attempts = 1]]
        BY <1>2 DEF WriteFields, Answer
      <3> QED BY <3>1, <3>2, <3>3
    <2> QED BY <1>2, <2>1
           DEF WriteFields, Answer
  <1>3. ASSUME NEW c \in Calls, SetTtl(c)
        PROVE  TypeOK'
    <2>1. hash' \in [Pairs -> Hashes]
      <3>1. PairOf[c] \in Pairs /\ hash[PairOf[c]] \in Hashes
        BY DEF Items
      <3>2. [hash[PairOf[c]] EXCEPT !.ttl = TRUE] \in Hashes
        BY <3>1, HashField
      <3>3. hash' = [hash EXCEPT ![PairOf[c]] = [hash[PairOf[c]] EXCEPT !.ttl = TRUE]]
        BY <1>3 DEF SetTtl, Answer
      <3> QED BY <3>1, <3>2, <3>3
    <2> QED BY <1>3, <2>1
           DEF SetTtl, Answer
  <1>4. ASSUME NEW c \in Calls, Enqueue(c)
        PROVE  TypeOK'
    BY <1>4
       DEF Enqueue, Answer
  <1>5. ASSUME NEW c \in Calls, Publish(c)
        PROVE  TypeOK'
    BY <1>5
       DEF Publish, Answer, Published
  <1>6. ASSUME NEW c \in Calls, Accepted(c)
        PROVE  TypeOK'
    BY <1>6
       DEF Accepted, Answer
  <1>7. ASSUME NEW c \in Calls, AcceptFails(c)
        PROVE  TypeOK'
    BY <1>7
       DEF AcceptFails, Answer, Fault
  <1>8. ASSUME NEW r \in Calls, SendArrives(r)
        PROVE  TypeOK'
    BY <1>8
       DEF SendArrives
  <1>9. ASSUME NEW r \in Calls, SendLost(r)
        PROVE  TypeOK'
    BY <1>9
       DEF SendLost
  <1>10. ASSUME NEW r \in Calls, Serve(r)
        PROVE  TypeOK'
    BY <1>10
       DEF Serve, Terminal
  <1>11. ASSUME NEW r \in Calls, ServeAgain(r)
        PROVE  TypeOK'
    BY <1>11
       DEF ServeAgain
  <1>12. ASSUME NEW r \in Calls, ServeGivesUp(r)
        PROVE  TypeOK'
    BY <1>12
       DEF ServeGivesUp
  <1>13. ASSUME NEW k \in Pairs, Redeliver(k)
        PROVE  TypeOK'
    BY <1>13
       DEF Redeliver, Fault
  <1>14. ASSUME NEW k \in Pairs, Redeem(k)
        PROVE  TypeOK'
    BY <1>14
       DEF Redeem, Terminal
  <1>15. ASSUME NEW k \in Pairs, Age(k)
        PROVE  TypeOK'
    BY <1>15
       DEF Age
  <1>16. ASSUME NEW k \in Pairs, Expire(k)
        PROVE  TypeOK'
    BY <1>16
       DEF Expire, Hashes
  <1>17. ASSUME NEW k \in Pairs, Consume(k)
        PROVE  TypeOK'
    <2>1. item' \in [Writers -> Items]
      BY <1>17
         DEF Consume, GoTo, Items
    <2>2. outcome' \in [Writers -> Outcomes]
      BY <1>17
         DEF Consume, GoTo, Outcomes, Terminal, Codes, MapStatus, CouponCode
    <2> QED BY <1>17, <2>1, <2>2
           DEF Consume, GoTo
  <1>18. ASSUME NEW p \in Writers, MarkStatus(p)
        PROVE  TypeOK'
    <2>1. hash' \in [Pairs -> Hashes]
      <3>1. item[p].key \in Pairs /\ hash[item[p].key] \in Hashes
        BY DEF Items
      <3>2. [hash[item[p].key] EXCEPT !.status = outcome[p].status] \in Hashes
        <4>1. outcome[p] \in Outcomes
          OBVIOUS
        <4> QED BY <3>1, <4>1, HashField
      <3>3. hash' = [hash EXCEPT ![item[p].key] =
                [hash[item[p].key] EXCEPT !.status = outcome[p].status]]
        BY <1>18 DEF MarkStatus, GoTo
      <3> QED BY <3>1, <3>2, <3>3
    <2> QED BY <1>18, <2>1
           DEF MarkStatus, GoTo
  <1>19. ASSUME NEW p \in Writers, MarkCode(p)
        PROVE  TypeOK'
    <2>1. hash' \in [Pairs -> Hashes]
      <3>1. item[p].key \in Pairs /\ hash[item[p].key] \in Hashes
        BY DEF Items
      <3>2. [hash[item[p].key] EXCEPT !.code = outcome[p].code] \in Hashes
        <4>1. outcome[p] \in Outcomes
          OBVIOUS
        <4> QED BY <3>1, <4>1, HashField
      <3>3. hash' = [hash EXCEPT ![item[p].key] =
                [hash[item[p].key] EXCEPT !.code = outcome[p].code]]
        BY <1>19 DEF MarkCode, GoTo
      <3> QED BY <3>1, <3>2, <3>3
    <2> QED BY <1>19, <2>1
           DEF MarkCode, GoTo
  <1>20. ASSUME NEW s \in Sweeps, Tick(s)
        PROVE  TypeOK'
    BY <1>20
       DEF Tick, GoTo
  <1>21. ASSUME NEW s \in Sweeps, Scan(s)
        PROVE  TypeOK'
    <2>1. scanning' \in [Sweeps -> SUBSET Pairs]
      <3>1. PICK S \in SUBSET Stale : scanning' = [scanning EXCEPT ![s] = S]
        BY <1>21 DEF Scan
      <3>2. S \subseteq Pairs
        BY DEF Stale
      <3> QED BY <3>1, <3>2
    <2> QED BY <1>21, <2>1
           DEF Scan, GoTo
  <1>22. ASSUME NEW s \in Sweeps, ReadAll(s)
        PROVE  TypeOK'
    BY <1>22
       DEF ReadAll, GoTo
  <1>23. ASSUME NEW s \in Sweeps, SweepMarked(s)
        PROVE  TypeOK'
    <2>1. hash' \in [Pairs -> Hashes]
      <3>1. item[s].key \in Pairs /\ hash[item[s].key] \in Hashes
        BY DEF Items
      <3>2. [hash[item[s].key] EXCEPT !.ttl = TRUE] \in Hashes
        BY <3>1, HashField
      <3>3. hash' = [hash EXCEPT ![item[s].key] = [hash[item[s].key] EXCEPT !.ttl = TRUE]]
        BY <1>23 DEF SweepMarked, GoTo, Conclude, Release
      <3> QED BY <3>1, <3>2, <3>3
    <2>2. zset' \in [Pairs -> {"out", "fresh", "stale"}]
      BY <1>23
         DEF SweepMarked, GoTo, Conclude, Release
    <2>3. item' \in [Writers -> Items]
      BY <1>23
         DEF SweepMarked, GoTo, Conclude, Release, Items
    <2>4. outcome' \in [Writers -> Outcomes]
      BY <1>23
         DEF SweepMarked, GoTo, Conclude, Release, Outcomes, Terminal, Codes
    <2>5. gaveUp' \subseteq Pairs
      <3>1. item[s].key \in Pairs
        BY DEF Items
      <3>2. gaveUp' \subseteq gaveUp \union {item[s].key}
        BY <1>23 DEF SweepMarked
      <3> QED BY <3>1, <3>2
    <2> QED BY <1>23, <2>1, <2>2, <2>3, <2>4, <2>5
           DEF SweepMarked, GoTo, Conclude, Release
  <1>24. ASSUME NEW s \in Sweeps, Count(s)
        PROVE  TypeOK'
    <2>1. hash' \in [Pairs -> Hashes]
      <3>1. item[s].key \in Pairs /\ hash[item[s].key] \in Hashes
        BY DEF Items
      <3>2. [hash[item[s].key] EXCEPT !.attempts = hash[item[s].key].attempts + 1] \in Hashes
        <4>1. hash[item[s].key].attempts + 1 \in Nat
          BY <3>1 DEF Hashes
        <4> QED BY <3>1, <4>1, HashField
      <3>3. hash' = [hash EXCEPT ![item[s].key] =
                [hash[item[s].key] EXCEPT !.attempts = hash[item[s].key].attempts + 1]]
        BY <1>24 DEF Count, GoTo
      <3> QED BY <3>1, <3>2, <3>3
    <2> QED BY <1>24, <2>1
           DEF Count, GoTo
  <1>24T. ASSUME NEW s \in Sweeps, CountTwice(s)
         PROVE  TypeOK'
    <2>1. hash' \in [Pairs -> Hashes]
      <3>1. item[s].key \in Pairs /\ hash[item[s].key] \in Hashes
        BY DEF Items
      <3>2. [hash[item[s].key] EXCEPT !.attempts = hash[item[s].key].attempts + 2] \in Hashes
        <4>1. hash[item[s].key].attempts + 2 \in Nat
          BY <3>1 DEF Hashes
        <4> QED BY <3>1, <4>1, HashField
      <3>3. hash' = [hash EXCEPT ![item[s].key] =
                [hash[item[s].key] EXCEPT !.attempts = hash[item[s].key].attempts + 2]]
        BY <1>24T DEF CountTwice, Fault, GoTo
      <3> QED BY <3>1, <3>2, <3>3
    <2> QED BY <1>24T, <2>1
           DEF CountTwice, Fault, GoTo
  <1>25. ASSUME NEW s \in Sweeps, Postpone(s)
        PROVE  TypeOK'
    BY <1>25
       DEF Postpone, GoTo
  <1>26. ASSUME NEW s \in Sweeps, SendAgain(s)
        PROVE  TypeOK'
    <2>1. sending' \subseteq Calls
      <3>1. item[s].request \in Calls
        BY <1>26 DEF SendAgain, SweepInv, BatchInv, Working
      <3>2. sending' \subseteq sending \union {item[s].request}
        BY <1>26 DEF SendAgain, Published
      <3> QED BY <3>1, <3>2
    <2>2. item' \in [Writers -> Items]
      BY <1>26
         DEF SendAgain, GoTo, Release, Published, Items
    <2>3. outcome' \in [Writers -> Outcomes]
      BY <1>26
         DEF SendAgain, GoTo, Release, Published, Outcomes, Terminal, Codes
    <2> QED BY <1>26, <2>1, <2>2, <2>3
           DEF SendAgain, GoTo, Release, Published
  <1>27. ASSUME NEW s \in Sweeps, SweepEnds(s)
        PROVE  TypeOK'
    BY <1>27
       DEF SweepEnds, Closed, GoTo
  <1>28. ASSUME NEW s \in Sweeps, ScanFails(s)
        PROVE  TypeOK'
    <2>1. running' \in BOOLEAN
      BY <1>28
         DEF ScanFails, Closed, GoTo, Fault
    <2>2. scanning' \in [Sweeps -> SUBSET Pairs]
      BY <1>28
         DEF ScanFails, Closed, GoTo, Fault
    <2>3. batch' \in [Sweeps -> SUBSET Items]
      BY <1>28
         DEF ScanFails, Closed, GoTo, Fault, Items
    <2>4. faults' \in 0 .. MaxFaults
      BY <1>28
         DEF ScanFails, Closed, GoTo, Fault
    <2> QED BY <1>28, <2>1, <2>2, <2>3, <2>4
           DEF ScanFails, Closed, GoTo, Fault
  <1>29. ASSUME NEW s \in Sweeps, ItemFails(s)
        PROVE  TypeOK'
    <2>1. item' \in [Writers -> Items]
      BY <1>29
         DEF ItemFails, GoTo, Release, Fault, Items
    <2>2. outcome' \in [Writers -> Outcomes]
      BY <1>29
         DEF ItemFails, GoTo, Release, Fault, Outcomes, Terminal, Codes
    <2>3. faults' \in 0 .. MaxFaults
      BY <1>29
         DEF ItemFails, GoTo, Release, Fault
    <2> QED BY <1>29, <2>1, <2>2, <2>3
           DEF ItemFails, GoTo, Release, Fault
  <1>30. ASSUME NEW s \in Sweeps, NEW k \in Pairs, Read(s, k)
        PROVE  TypeOK'
    <2>1. zset' \in [Pairs -> {"out", "fresh", "stale"}]
      BY <1>30
         DEF Read
    <2>2. scanning' \in [Sweeps -> SUBSET Pairs]
      BY <1>30
         DEF Read
    <2>3. batch' \in [Sweeps -> SUBSET Items]
      BY <1>30
         DEF Read, Items, PendingOf, Complete, Hashes
    <2> QED BY <1>30, <2>1, <2>2, <2>3
           DEF Read
  <1>31. ASSUME NEW s \in Sweeps, NEW p \in batch[s], LookUp(s, p)
        PROVE  TypeOK'
    <2>1. batch' \in [Sweeps -> SUBSET Items]
      BY <1>31
         DEF LookUp, GoTo, Items
    <2>2. item' \in [Writers -> Items]
      BY <1>31
         DEF LookUp, GoTo, Items
    <2>3. outcome' \in [Writers -> Outcomes]
      <3>1. row[p.key] \in Terminal \union {"none", "USED"}
        BY DEF Items
      <3>2. PICK o : outcome' = [outcome EXCEPT ![s] = o]
                    /\ o = IF row[p.key] = "none" THEN [status |-> "FAILED", code |-> "none"]
                           ELSE [status |-> MapStatus(row[p.key]), code |-> CodeColumn(row[p.key])]
        BY <1>31 DEF LookUp, Found
      <3>3. o \in Outcomes
        BY <3>1, <3>2 DEF Outcomes, Terminal, Codes, MapStatus, CodeColumn
      <3> QED BY <3>2, <3>3
    <2> QED BY <1>31, <2>1, <2>2, <2>3
           DEF LookUp, GoTo, NextStep, Found
  <1>32. ASSUME NEW s \in Sweeps, NEW p \in batch[s], LookupFails(s, p)
        PROVE  TypeOK'
    BY <1>32
       DEF LookupFails, Fault
  <1>33. ASSUME Consumed
        PROVE  TypeOK'
    <2>1. hash' \in [Pairs -> Hashes]
      <3>1. item[Consumer].key \in Pairs /\ hash[item[Consumer].key] \in Hashes
        BY DEF Items
      <3>2. [hash[item[Consumer].key] EXCEPT !.ttl = TRUE] \in Hashes
        BY <3>1, HashField
      <3>3. hash' = [hash EXCEPT ![item[Consumer].key] =
                [hash[item[Consumer].key] EXCEPT !.ttl = TRUE]]
        BY <1>33 DEF Consumed, GoTo, Conclude, Release, Settle
      <3> QED BY <3>1, <3>2, <3>3
    <2>2. zset' \in [Pairs -> {"out", "fresh", "stale"}]
      BY <1>33
         DEF Consumed, GoTo, Conclude, Release, Settle
    <2>3. result' \in [Pairs -> {"none", "due", "consumed", "skipped"}]
      BY <1>33
         DEF Consumed, GoTo, Conclude, Release, Settle
    <2>4. item' \in [Writers -> Items]
      BY <1>33
         DEF Consumed, GoTo, Conclude, Release, Settle, Items
    <2>5. outcome' \in [Writers -> Outcomes]
      BY <1>33
         DEF Consumed, GoTo, Conclude, Release, Settle, Outcomes, Terminal,
             Codes
    <2>6. tries' \in 1 .. MaxDeliveryAttempts
      BY <1>33
         DEF Consumed, GoTo, Conclude, Release, Settle
    <2> QED BY <1>33, <2>1, <2>2, <2>3, <2>4, <2>5, <2>6
           DEF Consumed, GoTo, Conclude, Release, Settle
  <1>34. ASSUME ConsumeFails
        PROVE  TypeOK'
    <2>1. result' \in [Pairs -> {"none", "due", "consumed", "skipped"}]
      BY <1>34
         DEF ConsumeFails, GoTo, Release, Settle, Fault
    <2>2. item' \in [Writers -> Items]
      BY <1>34
         DEF ConsumeFails, GoTo, Release, Settle, Fault, Items
    <2>3. outcome' \in [Writers -> Outcomes]
      BY <1>34
         DEF ConsumeFails, GoTo, Release, Settle, Fault, Outcomes, Terminal,
             Codes
    <2>4. tries' \in 1 .. MaxDeliveryAttempts
      BY <1>34
         DEF ConsumeFails, GoTo, Release, Settle, Fault
    <2>5. faults' \in 0 .. MaxFaults
      BY <1>34
         DEF ConsumeFails, GoTo, Release, Settle, Fault
    <2> QED BY <1>34, <2>1, <2>2, <2>3, <2>4, <2>5
           DEF ConsumeFails, GoTo, Release, Settle, Fault
  <1>35. ASSUME Crash
        PROVE  TypeOK'
    <2>1. running' \in BOOLEAN
      BY <1>35
         DEF Crash, Fault
    <2>2. scanning' \in [Sweeps -> SUBSET Pairs]
      BY <1>35
         DEF Crash, Fault
    <2>3. batch' \in [Sweeps -> SUBSET Items]
      BY <1>35
         DEF Crash, Fault, Items
    <2>4. item' \in [Writers -> Items]
      BY <1>35
         DEF Crash, Fault, Items
    <2>5. outcome' \in [Writers -> Outcomes]
      BY <1>35
         DEF Crash, Fault, Outcomes, Terminal, Codes
    <2>6. tries' \in 1 .. MaxDeliveryAttempts
      BY <1>35
         DEF Crash, Fault
    <2>7. faults' \in 0 .. MaxFaults
      BY <1>35
         DEF Crash, Fault
    <2> QED BY <1>35, <2>1, <2>2, <2>3, <2>4, <2>5, <2>6, <2>7
           DEF Crash, Fault
  <1>36. CASE UNCHANGED vars
    BY <1>36 DEF vars
  <1> HIDE DEF TypeOK, Writers, redis, kafka, outside, sweeps, hand, writers,
               local, bounds
  <1> QED BY <1>1, <1>1T, <1>2, <1>3, <1>4, <1>5, <1>6, <1>7, <1>8, <1>9,
             <1>10, <1>11, <1>12, <1>13, <1>14, <1>15, <1>16, <1>17, <1>18,
             <1>19, <1>20, <1>21, <1>22, <1>23, <1>24, <1>24T, <1>25, <1>26,
             <1>27, <1>28, <1>29, <1>30, <1>31, <1>32, <1>33, <1>34, <1>35,
             <1>36, Actions

\* In its first life a pair stays with the call that reserved it.
LEMMA HolderStep == TypeOK /\ HolderInv /\ [Next]_vars => HolderInv'
  <1> SUFFICES ASSUME TypeOK, HolderInv, [Next]_vars
               PROVE  HolderInv'
    OBVIOUS
  <1> USE PendingAssumption
          DEF TypeOK, Hashes, NoHash, HolderInv, Holding, Holder, redis,
              kafka, outside, sweeps, hand, writers, local, bounds
  <1>1. ASSUME NEW c \in Calls, Reserve(c)
        PROVE  HolderInv'
    <2>1. CASE hash[PairOf[c]].user
      BY <1>1, <2>1 DEF Reserve, Answer
    <2>2. CASE ~ hash[PairOf[c]].user
      <3>1. PairOf[c] \in Pairs /\ hash[PairOf[c]] \in Hashes
        BY DEF Hashes
      <3>2. /\ hash' = [hash EXCEPT ![PairOf[c]].user = TRUE]
            /\ call' = [call EXCEPT ![c] = "hset"]
            /\ expiries' = expiries
        BY <1>1, <2>2 DEF Reserve, Answer
      <3>3. \A d \in Calls : d # c => (Holder(d)' <=> Holder(d))
        BY <3>2
      <3>4. \A k \in Pairs : (hash'[k].user <=> (hash[k].user \/ k = PairOf[c]))
        BY <3>1, <3>2
      <3> QED BY <2>2, <3>2, <3>3, <3>4
    <2> QED BY <2>1, <2>2
  <1>1T. ASSUME NEW c \in Calls, ReserveTwice(c)
         PROVE  HolderInv'
    <2>1. PairOf[c] \in Pairs /\ hash[PairOf[c]] \in Hashes
      BY DEF Hashes
    <2>2. /\ hash' = [hash EXCEPT ![PairOf[c]].user = TRUE]
          /\ call[c] = "idle" /\ call' = [call EXCEPT ![c] = "DUPLICATE"]
          /\ expiries' = expiries /\ ~ hash[PairOf[c]].user
      BY <1>1T DEF ReserveTwice, Answer
    <2>3. \A d \in Calls : (Holder(d)' <=> Holder(d))
      BY <2>2
    <2>4. \A k \in Pairs : (hash'[k].user <=> (hash[k].user \/ k = PairOf[c]))
      BY <2>1, <2>2
    <2> QED BY <2>2, <2>3, <2>4
  <1>2. ASSUME NEW c \in Calls, WriteFields(c)
        PROVE  HolderInv'
    BY <1>2
       DEF WriteFields, Answer
  <1>3. ASSUME NEW c \in Calls, SetTtl(c)
        PROVE  HolderInv'
    BY <1>3
       DEF SetTtl, Answer
  <1>4. ASSUME NEW c \in Calls, Enqueue(c)
        PROVE  HolderInv'
    BY <1>4
       DEF Enqueue, Answer
  <1>5. ASSUME NEW c \in Calls, Publish(c)
        PROVE  HolderInv'
    BY <1>5
       DEF Publish, Answer, Published
  <1>6. ASSUME NEW c \in Calls, Accepted(c)
        PROVE  HolderInv'
    BY <1>6
       DEF Accepted, Answer
  <1>7. ASSUME NEW c \in Calls, AcceptFails(c)
        PROVE  HolderInv'
    BY <1>7
       DEF AcceptFails, Answer, Fault
  <1>8. ASSUME NEW k \in Pairs, Expire(k)
        PROVE  HolderInv'
    BY <1>8
       DEF Expire, Busy
  <1>9. ASSUME NEW p \in Writers, MarkStatus(p)
        PROVE  HolderInv'
    BY <1>9
       DEF MarkStatus, GoTo
  <1>10. ASSUME NEW p \in Writers, MarkCode(p)
        PROVE  HolderInv'
    BY <1>10
       DEF MarkCode, GoTo
  <1>11. ASSUME NEW s \in Sweeps, SweepMarked(s)
        PROVE  HolderInv'
    BY <1>11
       DEF SweepMarked, GoTo, Conclude, Release
  <1>12. ASSUME NEW s \in Sweeps, Count(s)
        PROVE  HolderInv'
    BY <1>12
       DEF Count, GoTo
  <1>12T. ASSUME NEW s \in Sweeps, CountTwice(s)
         PROVE  HolderInv'
    BY <1>12T
       DEF CountTwice, Fault, GoTo
  <1>13. ASSUME Consumed
        PROVE  HolderInv'
    BY <1>13
       DEF Consumed, GoTo, Conclude, Release, Settle
  <1>14. ASSUME Crash
        PROVE  HolderInv'
    BY <1>14
       DEF Crash, Fault
  <1>15. ASSUME NEW r \in Calls,
                SendArrives(r) \/ SendLost(r) \/ Serve(r) \/ ServeAgain(r)
                   \/ ServeGivesUp(r)
        PROVE  HolderInv'
    <2>1. UNCHANGED <<hash, call, expiries>>
      BY <1>15
         DEF SendArrives, SendLost, Serve, ServeAgain, ServeGivesUp
    <2> QED BY <2>1
  <1>16. ASSUME NEW k \in Pairs,
                Redeliver(k) \/ Redeem(k) \/ Age(k) \/ Consume(k)
        PROVE  HolderInv'
    <2>1. UNCHANGED <<hash, call, expiries>>
      BY <1>16
         DEF Redeliver, Fault, Redeem, Age, Consume, GoTo
    <2> QED BY <2>1
  <1>17. ASSUME NEW s \in Sweeps,
                Tick(s) \/ Scan(s) \/ ReadAll(s) \/ Postpone(s)
                   \/ SendAgain(s) \/ SweepEnds(s) \/ ScanFails(s)
                   \/ ItemFails(s)
        PROVE  HolderInv'
    <2>1. UNCHANGED <<hash, call, expiries>>
      BY <1>17
         DEF Tick, GoTo, Scan, ReadAll, Postpone, SendAgain, Release,
             Published, SweepEnds, Closed, ScanFails, Fault, ItemFails
    <2> QED BY <2>1
  <1>18. ASSUME NEW s \in Sweeps, NEW k \in Pairs, Read(s, k)
        PROVE  HolderInv'
    <2>1. UNCHANGED <<hash, call, expiries>>
      BY <1>18
         DEF Read
    <2> QED BY <2>1
  <1>19. ASSUME NEW s \in Sweeps, NEW p \in batch[s],
                LookUp(s, p) \/ LookupFails(s, p)
        PROVE  HolderInv'
    <2>1. UNCHANGED <<hash, call, expiries>>
      BY <1>19
         DEF LookUp, GoTo, LookupFails, Fault
    <2> QED BY <2>1
  <1>20. ASSUME ConsumeFails
        PROVE  HolderInv'
    <2>1. UNCHANGED <<hash, call, expiries>>
      BY <1>20
         DEF ConsumeFails, GoTo, Release, Settle, Fault
    <2> QED BY <2>1
  <1>21. CASE UNCHANGED vars
    BY <1>21 DEF vars
  <1> HIDE DEF TypeOK, Hashes, NoHash, HolderInv, Holding, Holder, redis,
               kafka, outside, sweeps, hand, writers, local, bounds
  <1> QED BY <1>1, <1>1T, <1>2, <1>3, <1>4, <1>5, <1>6, <1>7, <1>8, <1>9,
             <1>10, <1>11, <1>12, <1>12T, <1>13, <1>14, <1>15, <1>16, <1>17,
             <1>18, <1>19, <1>20, <1>21, Actions

\* Calls that lose their holdings, or keep them, leave the bound alone.
LEMMA FewerHolders ==
    ASSUME HoldersBounded, expiries' = expiries, expiries \in Nat,
           \A k \in Pairs : /\ Holders(k)' \subseteq Holders(k)
                            /\ hash[k].user => hash'[k].user
    PROVE  HoldersBounded'
  <1> SUFFICES ASSUME NEW k \in Pairs
               PROVE  Cardinality(Holders(k)') <= expiries + (IF hash'[k].user THEN 1 ELSE 0)
    BY DEF HoldersBounded
  <1>1. IsFiniteSet(Holders(k))
    BY PendingAssumption, FS_Subset DEF Holders
  <1>2. IsFiniteSet(Holders(k)') /\ Cardinality(Holders(k)') <= Cardinality(Holders(k))
    BY <1>1, FS_Subset
  <1>3. Cardinality(Holders(k)) \in Nat /\ Cardinality(Holders(k)') \in Nat
    BY <1>1, <1>2, FS_CardinalityType
  <1> QED BY <1>2, <1>3 DEF HoldersBounded

\* Every life of a reservation has one holder.
LEMMA HoldersStep == TypeOK /\ HoldersBounded /\ [Next]_vars
                     => HoldersBounded'
  <1> SUFFICES ASSUME TypeOK, HoldersBounded, [Next]_vars
               PROVE  HoldersBounded'
    OBVIOUS
  <1> USE PendingAssumption
          DEF TypeOK, Hashes, NoHash, redis, kafka, outside, sweeps, hand,
              writers, local, bounds
  <1>1. ASSUME NEW c \in Calls, Reserve(c)
        PROVE  HoldersBounded'
    <2>1. CASE hash[PairOf[c]].user
      <3>1. hash' = hash /\ expiries' = expiries /\ call' = [call EXCEPT ![c] = "DUPLICATE"]
        BY <1>1, <2>1 DEF Reserve, Answer
      <3>2. \A k \in Pairs : Holders(k)' \subseteq Holders(k)
        BY <3>1 DEF Holders, Holder, Holding
      <3> QED BY <3>1, <3>2, FewerHolders
    <2>2. CASE ~ hash[PairOf[c]].user
      <3>1. PairOf[c] \in Pairs /\ hash[PairOf[c]] \in Hashes
        OBVIOUS
      <3>2. /\ hash' = [hash EXCEPT ![PairOf[c]].user = TRUE]
            /\ call' = [call EXCEPT ![c] = "hset"]
            /\ expiries' = expiries
        BY <1>1, <2>2 DEF Reserve, Answer
      <3>3. ASSUME NEW k \in Pairs
            PROVE  Cardinality(Holders(k)') <= expiries + (IF hash'[k].user THEN 1 ELSE 0)
        <4>1. IsFiniteSet(Holders(k)) /\ Cardinality(Holders(k)) \in Nat
          BY FS_Subset, FS_CardinalityType DEF Holders
        <4>2. CASE k = PairOf[c]
          <5>1. Holders(k)' \subseteq Holders(k) \union {c}
            BY <3>2 DEF Holders, Holder, Holding
          <5>2. /\ IsFiniteSet(Holders(k) \union {c})
                /\ Cardinality(Holders(k) \union {c}) =
                      IF c \in Holders(k) THEN Cardinality(Holders(k))
                                          ELSE Cardinality(Holders(k)) + 1
            BY <4>1, FS_AddElement
          <5>3. /\ Cardinality(Holders(k)') <= Cardinality(Holders(k) \union {c})
                /\ Cardinality(Holders(k)') \in Nat
                /\ Cardinality(Holders(k) \union {c}) \in Nat
            BY <5>1, <5>2, FS_Subset, FS_CardinalityType
          <5>4. Cardinality(Holders(k)) <= expiries
            BY <2>2, <4>2 DEF HoldersBounded
          <5>5. hash'[k].user
            BY <3>1, <3>2, <4>2
          <5> QED BY <4>1, <5>2, <5>3, <5>4, <5>5
        <4>3. CASE k # PairOf[c]
          <5>1. Holders(k)' \subseteq Holders(k) /\ (hash'[k].user <=> hash[k].user)
            BY <3>2, <4>3 DEF Holders, Holder, Holding
          <5>2. Cardinality(Holders(k)') <= Cardinality(Holders(k))
                /\ Cardinality(Holders(k)') \in Nat
            BY <4>1, <5>1, FS_Subset, FS_CardinalityType
          <5> QED BY <4>1, <5>1, <5>2 DEF HoldersBounded
        <4> QED BY <4>2, <4>3
      <3> QED BY <3>2, <3>3 DEF HoldersBounded
    <2> QED BY <2>1, <2>2
  <1>1T. ASSUME NEW c \in Calls, ReserveTwice(c)
         PROVE  HoldersBounded'
    <2>1. /\ hash' = [hash EXCEPT ![PairOf[c]].user = TRUE]
          /\ call' = [call EXCEPT ![c] = "DUPLICATE"] /\ expiries' = expiries
      BY <1>1T DEF ReserveTwice, Answer
    <2>2. \A k \in Pairs : Holders(k)' \subseteq Holders(k)
      BY <2>1 DEF Holders, Holder, Holding
    <2>3. \A k \in Pairs : hash[k].user => hash'[k].user
      BY <2>1
    <2> QED BY <2>1, <2>2, <2>3, FewerHolders
  <1>2. ASSUME NEW c \in Calls, WriteFields(c)
        PROVE  HoldersBounded'
    <2>1. \A k \in Pairs : Holders(k)' \subseteq Holders(k)
      BY <1>2
         DEF WriteFields, Answer, Holders, Holder, Holding
    <2>2. expiries' = expiries /\ \A k \in Pairs : (hash'[k].user <=> hash[k].user)
      BY <1>2
         DEF WriteFields, Answer
    <2> QED BY <2>1, <2>2, FewerHolders
  <1>3. ASSUME NEW c \in Calls, SetTtl(c)
        PROVE  HoldersBounded'
    <2>1. \A k \in Pairs : Holders(k)' \subseteq Holders(k)
      BY <1>3
         DEF SetTtl, Answer, Holders, Holder, Holding
    <2>2. expiries' = expiries /\ \A k \in Pairs : (hash'[k].user <=> hash[k].user)
      BY <1>3
         DEF SetTtl, Answer
    <2> QED BY <2>1, <2>2, FewerHolders
  <1>4. ASSUME NEW c \in Calls, Enqueue(c)
        PROVE  HoldersBounded'
    <2>1. \A k \in Pairs : Holders(k)' \subseteq Holders(k)
      BY <1>4
         DEF Enqueue, Answer, Holders, Holder, Holding
    <2>2. expiries' = expiries /\ \A k \in Pairs : (hash'[k].user <=> hash[k].user)
      BY <1>4
         DEF Enqueue, Answer
    <2> QED BY <2>1, <2>2, FewerHolders
  <1>5. ASSUME NEW c \in Calls, Publish(c)
        PROVE  HoldersBounded'
    <2>1. \A k \in Pairs : Holders(k)' \subseteq Holders(k)
      BY <1>5
         DEF Publish, Answer, Published, Holders, Holder, Holding
    <2>2. expiries' = expiries /\ \A k \in Pairs : (hash'[k].user <=> hash[k].user)
      BY <1>5
         DEF Publish, Answer, Published
    <2> QED BY <2>1, <2>2, FewerHolders
  <1>6. ASSUME NEW c \in Calls, Accepted(c)
        PROVE  HoldersBounded'
    <2>1. \A k \in Pairs : Holders(k)' \subseteq Holders(k)
      BY <1>6
         DEF Accepted, Answer, Holders, Holder, Holding
    <2>2. expiries' = expiries /\ \A k \in Pairs : (hash'[k].user <=> hash[k].user)
      BY <1>6
         DEF Accepted, Answer
    <2> QED BY <2>1, <2>2, FewerHolders
  <1>7. ASSUME NEW c \in Calls, AcceptFails(c)
        PROVE  HoldersBounded'
    <2>1. \A k \in Pairs : Holders(k)' \subseteq Holders(k)
      BY <1>7
         DEF AcceptFails, Answer, Fault, Holders, Holder, Holding
    <2>2. expiries' = expiries /\ \A k \in Pairs : (hash'[k].user <=> hash[k].user)
      BY <1>7
         DEF AcceptFails, Answer, Fault
    <2> QED BY <2>1, <2>2, FewerHolders
  <1>8. ASSUME NEW k \in Pairs, Expire(k)
        PROVE  HoldersBounded'
    <2>1. /\ expiries' = expiries + 1 /\ call' = call
          /\ hash' = [hash EXCEPT ![k] = NoHash]
      BY <1>8 DEF Expire
    <2>2. ASSUME NEW j \in Pairs
          PROVE  Cardinality(Holders(j)') <= expiries' + (IF hash'[j].user THEN 1 ELSE 0)
      <3>1. Holders(j)' = Holders(j)
        BY <2>1 DEF Holders, Holder, Holding
      <3>2. Cardinality(Holders(j)) \in Nat
        BY FS_Subset, FS_CardinalityType DEF Holders
      <3>3. Cardinality(Holders(j)) <= expiries + 1
        BY <3>2 DEF HoldersBounded
      <3>4. j # k => (hash'[j].user <=> hash[j].user)
        BY <2>1
      <3>5. j = k => ~ hash'[j].user
        BY <2>1
      <3> QED BY <2>1, <3>1, <3>2, <3>3, <3>4, <3>5 DEF HoldersBounded
    <2> QED BY <2>2 DEF HoldersBounded
  <1>9. ASSUME NEW p \in Writers, MarkStatus(p)
        PROVE  HoldersBounded'
    <2>1. \A k \in Pairs : Holders(k)' \subseteq Holders(k)
      BY <1>9
         DEF MarkStatus, GoTo, Holders, Holder, Holding
    <2>2. expiries' = expiries /\ \A k \in Pairs : (hash'[k].user <=> hash[k].user)
      BY <1>9
         DEF MarkStatus, GoTo
    <2> QED BY <2>1, <2>2, FewerHolders
  <1>10. ASSUME NEW p \in Writers, MarkCode(p)
        PROVE  HoldersBounded'
    <2>1. \A k \in Pairs : Holders(k)' \subseteq Holders(k)
      BY <1>10
         DEF MarkCode, GoTo, Holders, Holder, Holding
    <2>2. expiries' = expiries /\ \A k \in Pairs : (hash'[k].user <=> hash[k].user)
      BY <1>10
         DEF MarkCode, GoTo
    <2> QED BY <2>1, <2>2, FewerHolders
  <1>11. ASSUME NEW s \in Sweeps, SweepMarked(s)
        PROVE  HoldersBounded'
    <2>1. \A k \in Pairs : Holders(k)' \subseteq Holders(k)
      BY <1>11
         DEF SweepMarked, GoTo, Conclude, Release, Holders, Holder, Holding
    <2>2. expiries' = expiries /\ \A k \in Pairs : (hash'[k].user <=> hash[k].user)
      BY <1>11
         DEF SweepMarked, GoTo, Conclude, Release
    <2> QED BY <2>1, <2>2, FewerHolders
  <1>12. ASSUME NEW s \in Sweeps, Count(s)
        PROVE  HoldersBounded'
    <2>1. \A k \in Pairs : Holders(k)' \subseteq Holders(k)
      BY <1>12
         DEF Count, GoTo, Holders, Holder, Holding
    <2>2. expiries' = expiries /\ \A k \in Pairs : (hash'[k].user <=> hash[k].user)
      BY <1>12
         DEF Count, GoTo
    <2> QED BY <2>1, <2>2, FewerHolders
  <1>12T. ASSUME NEW s \in Sweeps, CountTwice(s)
         PROVE  HoldersBounded'
    <2>1. \A k \in Pairs : Holders(k)' \subseteq Holders(k)
      BY <1>12T
         DEF CountTwice, Fault, GoTo, Holders, Holder, Holding
    <2>2. expiries' = expiries /\ \A k \in Pairs : (hash'[k].user <=> hash[k].user)
      BY <1>12T
         DEF CountTwice, Fault, GoTo
    <2> QED BY <2>1, <2>2, FewerHolders
  <1>13. ASSUME Consumed
        PROVE  HoldersBounded'
    <2>1. \A k \in Pairs : Holders(k)' \subseteq Holders(k)
      BY <1>13
         DEF Consumed, GoTo, Conclude, Release, Settle, Holders, Holder,
             Holding
    <2>2. expiries' = expiries /\ \A k \in Pairs : (hash'[k].user <=> hash[k].user)
      BY <1>13
         DEF Consumed, GoTo, Conclude, Release, Settle
    <2> QED BY <2>1, <2>2, FewerHolders
  <1>14. ASSUME Crash
        PROVE  HoldersBounded'
    <2>1. \A k \in Pairs : Holders(k)' \subseteq Holders(k)
      BY <1>14
         DEF Crash, Fault, Holders, Holder, Holding
    <2>2. expiries' = expiries /\ \A k \in Pairs : (hash'[k].user <=> hash[k].user)
      BY <1>14
         DEF Crash, Fault
    <2> QED BY <2>1, <2>2, FewerHolders
  <1>15. ASSUME NEW r \in Calls,
                SendArrives(r) \/ SendLost(r) \/ Serve(r) \/ ServeAgain(r)
                   \/ ServeGivesUp(r)
        PROVE  HoldersBounded'
    <2>1. UNCHANGED <<hash, call, expiries>>
      BY <1>15
         DEF SendArrives, SendLost, Serve, ServeAgain, ServeGivesUp
    <2> QED BY <2>1, FewerHolders DEF Holders, Holder, Holding
  <1>16. ASSUME NEW k \in Pairs,
                Redeliver(k) \/ Redeem(k) \/ Age(k) \/ Consume(k)
        PROVE  HoldersBounded'
    <2>1. UNCHANGED <<hash, call, expiries>>
      BY <1>16
         DEF Redeliver, Fault, Redeem, Age, Consume, GoTo
    <2> QED BY <2>1, FewerHolders DEF Holders, Holder, Holding
  <1>17. ASSUME NEW s \in Sweeps,
                Tick(s) \/ Scan(s) \/ ReadAll(s) \/ Postpone(s)
                   \/ SendAgain(s) \/ SweepEnds(s) \/ ScanFails(s)
                   \/ ItemFails(s)
        PROVE  HoldersBounded'
    <2>1. UNCHANGED <<hash, call, expiries>>
      BY <1>17
         DEF Tick, GoTo, Scan, ReadAll, Postpone, SendAgain, Release,
             Published, SweepEnds, Closed, ScanFails, Fault, ItemFails
    <2> QED BY <2>1, FewerHolders DEF Holders, Holder, Holding
  <1>18. ASSUME NEW s \in Sweeps, NEW k \in Pairs, Read(s, k)
        PROVE  HoldersBounded'
    <2>1. UNCHANGED <<hash, call, expiries>>
      BY <1>18
         DEF Read
    <2> QED BY <2>1, FewerHolders DEF Holders, Holder, Holding
  <1>19. ASSUME NEW s \in Sweeps, NEW p \in batch[s],
                LookUp(s, p) \/ LookupFails(s, p)
        PROVE  HoldersBounded'
    <2>1. UNCHANGED <<hash, call, expiries>>
      BY <1>19
         DEF LookUp, GoTo, LookupFails, Fault
    <2> QED BY <2>1, FewerHolders DEF Holders, Holder, Holding
  <1>20. ASSUME ConsumeFails
        PROVE  HoldersBounded'
    <2>1. UNCHANGED <<hash, call, expiries>>
      BY <1>20
         DEF ConsumeFails, GoTo, Release, Settle, Fault
    <2> QED BY <2>1, FewerHolders DEF Holders, Holder, Holding
  <1>21. CASE UNCHANGED vars
    <2>1. UNCHANGED <<hash, call, expiries>>
      BY <1>21 DEF vars
    <2> QED BY <2>1, FewerHolders DEF Holders, Holder, Holding
  <1> HIDE DEF TypeOK, Hashes, NoHash, redis, kafka, outside, sweeps, hand,
               writers, local, bounds
  <1> QED BY <1>1, <1>1T, <1>2, <1>3, <1>4, <1>5, <1>6, <1>7, <1>8, <1>9,
             <1>10, <1>11, <1>12, <1>12T, <1>13, <1>14, <1>15, <1>16, <1>17,
             <1>18, <1>19, <1>20, <1>21, Actions

\* Of a hash, a call that reserves the pair writes userId only.
LEMMA ReserveKeeps ==
    ASSUME TypeOK, NEW c \in Calls, Reserve(c) \/ ReserveTwice(c)
    PROVE  \A k \in Pairs : /\ hash'[k].request = hash[k].request
                            /\ hash'[k].attempts = hash[k].attempts
                            /\ hash'[k].status = hash[k].status
                            /\ hash'[k].code = hash[k].code
  <1> USE PendingAssumption DEF TypeOK, Hashes
  <1>1. hash' = hash \/ hash' = [hash EXCEPT ![PairOf[c]].user = TRUE]
    BY DEF Reserve, ReserveTwice
  <1> QED BY <1>1

\* One sweep is open, and what it has in its hands fits.
LEMMA SweepInvStep == TypeOK /\ SweepInv /\ [Next]_vars => SweepInv'
  <1> SUFFICES ASSUME TypeOK, SweepInv, [Next]_vars
               PROVE  SweepInv'
    OBVIOUS
  <1> USE PendingAssumption
          DEF TypeOK, Hashes, Items, NoHash, Writers, SweepInv, BatchInv,
              Fits, Working, redis, kafka, outside, sweeps, hand, writers,
              local, bounds
  <1>1. ASSUME NEW c \in Calls, Reserve(c)
        PROVE  SweepInv'
    <2>1. UNCHANGED <<step, running, scanning, batch, item>>
      BY <1>1 DEF Reserve
    <2> QED BY <1>1, <2>1, ReserveKeeps
  <1>1T. ASSUME NEW c \in Calls, ReserveTwice(c)
         PROVE  SweepInv'
    <2>1. UNCHANGED <<step, running, scanning, batch, item>>
      BY <1>1T DEF ReserveTwice, Fault
    <2> QED BY <1>1T, <2>1, ReserveKeeps
  <1>2. ASSUME NEW c \in Calls, WriteFields(c)
        PROVE  SweepInv'
    BY <1>2
       DEF WriteFields, Answer
  <1>3. ASSUME NEW c \in Calls, SetTtl(c)
        PROVE  SweepInv'
    BY <1>3
       DEF SetTtl, Answer
  <1>4. ASSUME NEW k \in Pairs, Expire(k)
        PROVE  SweepInv'
    BY <1>4
       DEF Expire
  <1>5. ASSUME NEW k \in Pairs, Consume(k)
        PROVE  SweepInv'
    BY <1>5
       DEF Consume, GoTo
  <1>6. ASSUME NEW p \in Writers, MarkStatus(p)
        PROVE  SweepInv'
    BY <1>6
       DEF MarkStatus, GoTo
  <1>7. ASSUME NEW p \in Writers, MarkCode(p)
        PROVE  SweepInv'
    BY <1>7
       DEF MarkCode, GoTo
  <1>8. ASSUME NEW s \in Sweeps, Tick(s)
        PROVE  SweepInv'
    BY <1>8
       DEF Tick, GoTo
  <1>9. ASSUME NEW s \in Sweeps, Scan(s)
        PROVE  SweepInv'
    BY <1>9
       DEF Scan, GoTo
  <1>10. ASSUME NEW s \in Sweeps, ReadAll(s)
        PROVE  SweepInv'
    BY <1>10
       DEF ReadAll, GoTo
  <1>11. ASSUME NEW s \in Sweeps, SweepMarked(s)
        PROVE  SweepInv'
    BY <1>11
       DEF SweepMarked, GoTo, Conclude, Release
  <1>12. ASSUME NEW s \in Sweeps, Count(s)
        PROVE  SweepInv'
    BY <1>12
       DEF Count, GoTo
  <1>12T. ASSUME NEW s \in Sweeps, CountTwice(s)
         PROVE  SweepInv'
    BY <1>12T
       DEF CountTwice, Fault, GoTo
  <1>13. ASSUME NEW s \in Sweeps, Postpone(s)
        PROVE  SweepInv'
    BY <1>13
       DEF Postpone, GoTo
  <1>14. ASSUME NEW s \in Sweeps, SendAgain(s)
        PROVE  SweepInv'
    BY <1>14
       DEF SendAgain, GoTo, Release, Published
  <1>15. ASSUME NEW s \in Sweeps, SweepEnds(s)
        PROVE  SweepInv'
    BY <1>15
       DEF SweepEnds, Closed, GoTo
  <1>16. ASSUME NEW s \in Sweeps, ScanFails(s)
        PROVE  SweepInv'
    BY <1>16
       DEF ScanFails, Closed, GoTo, Fault
  <1>17. ASSUME NEW s \in Sweeps, ItemFails(s)
        PROVE  SweepInv'
    BY <1>17
       DEF ItemFails, GoTo, Release, Fault
  <1>18. ASSUME NEW s \in Sweeps, NEW k \in Pairs, Read(s, k)
        PROVE  SweepInv'
    BY <1>18
       DEF Read, PendingOf, Complete
  <1>19. ASSUME NEW s \in Sweeps, NEW p \in batch[s], LookUp(s, p)
        PROVE  SweepInv'
    <2>1. /\ batch' = [batch EXCEPT ![s] = batch[s] \ {p}]
          /\ item' = [item EXCEPT ![s] = p]
          /\ step' = [step EXCEPT ![s] = NextStep(p)]
          /\ step[s] = "lookup"
          /\ UNCHANGED <<hash, running, scanning>>
      BY <1>19 DEF LookUp, GoTo
    <2>2. NextStep(p) \in {"status", "count"}
          /\ (NextStep(p) = "count" => p.attempts < MaxPublishAttempts)
      BY DEF NextStep
    <2>3. Fits(p) /\ p \in Items
      OBVIOUS
    <2>4. /\ scanning'[s] = {} /\ batch'[s] = batch[s] \ {p} /\ item'[s] = p
          /\ step'[s] \in {"status", "count"}
          /\ step'[s] = "count" => p.attempts < MaxPublishAttempts
      BY <2>1, <2>2
    <2>5. \A q \in batch'[s] : Fits(q)' /\ q.key # p.key
      BY <2>1, <2>3, <2>4
    <2>6. BatchInv(s)'
      BY <2>1, <2>3, <2>4, <2>5
    <2>7. ASSUME NEW t \in Sweeps, t # s
          PROVE  BatchInv(t)'
      BY <2>1, <2>7
    <2> QED BY <2>1, <2>2, <2>6, <2>7
  <1>20. ASSUME NEW s \in Sweeps, NEW p \in batch[s], LookupFails(s, p)
        PROVE  SweepInv'
    BY <1>20
       DEF LookupFails, Fault
  <1>21. ASSUME Consumed
        PROVE  SweepInv'
    BY <1>21
       DEF Consumed, GoTo, Conclude, Release, Settle
  <1>22. ASSUME ConsumeFails
        PROVE  SweepInv'
    BY <1>22
       DEF ConsumeFails, GoTo, Release, Settle, Fault
  <1>23. ASSUME Crash
        PROVE  SweepInv'
    BY <1>23
       DEF Crash, Fault
  <1>24. ASSUME NEW c \in Calls,
                Enqueue(c) \/ Publish(c) \/ Accepted(c) \/ AcceptFails(c)
        PROVE  SweepInv'
    <2>1. UNCHANGED <<hash, running, step, scanning, batch, item>>
      BY <1>24
         DEF Enqueue, Answer, Publish, Published, Accepted, AcceptFails,
             Fault
    <2> QED BY <2>1
  <1>25. ASSUME NEW r \in Calls,
                SendArrives(r) \/ SendLost(r) \/ Serve(r) \/ ServeAgain(r)
                   \/ ServeGivesUp(r)
        PROVE  SweepInv'
    <2>1. UNCHANGED <<hash, running, step, scanning, batch, item>>
      BY <1>25
         DEF SendArrives, SendLost, Serve, ServeAgain, ServeGivesUp
    <2> QED BY <2>1
  <1>26. ASSUME NEW k \in Pairs, Redeliver(k) \/ Redeem(k) \/ Age(k)
        PROVE  SweepInv'
    <2>1. UNCHANGED <<hash, running, step, scanning, batch, item>>
      BY <1>26
         DEF Redeliver, Fault, Redeem, Age
    <2> QED BY <2>1
  <1>27. CASE UNCHANGED vars
    BY <1>27 DEF vars
  <1> HIDE DEF TypeOK, Hashes, Items, NoHash, Writers, SweepInv, BatchInv,
               Fits, Working, redis, kafka, outside, sweeps, hand, writers,
               local, bounds
  <1> QED BY <1>1, <1>1T, <1>2, <1>3, <1>4, <1>5, <1>6, <1>7, <1>8, <1>9,
             <1>10, <1>11, <1>12, <1>12T, <1>13, <1>14, <1>15, <1>16, <1>17,
             <1>18, <1>19, <1>20, <1>21, <1>22, <1>23, <1>24, <1>25, <1>26,
             <1>27, Actions

\* A fault is counted, and nothing else is.
LEMMA FaultSteps ==
    ASSUME TypeOK, [Next]_vars
    PROVE  faults \in Nat /\ (faults' = faults \/ faults' = faults + 1)
  <1>1. faults \in Nat
    BY PendingAssumption DEF TypeOK
  <1>2. faults' = faults \/ Fault
    <2>1. ASSUME NEW c \in Calls, AcceptStep(c) \/ AcceptFails(c) \/ ReserveTwice(c)
          PROVE  faults' = faults \/ Fault
      BY <2>1 DEF bounds, AcceptStep, Reserve, WriteFields, SetTtl, Enqueue, Publish, Accepted,
         AcceptFails, ReserveTwice
    <2>2. ASSUME NEW r \in Calls,
                 SendArrives(r) \/ SendLost(r) \/ Serve(r) \/ ServeAgain(r) \/ ServeGivesUp(r)
          PROVE  faults' = faults \/ Fault
      BY <2>2 DEF bounds, SendArrives, SendLost, Serve, ServeAgain, ServeGivesUp
    <2>3. ASSUME NEW k \in Pairs, Redeliver(k) \/ Redeem(k) \/ Age(k) \/ Expire(k) \/ Consume(k)
          PROVE  faults' = faults \/ Fault
      BY <2>3 DEF bounds, Redeliver, Redeem, Age, Expire, Consume
    <2>4. ASSUME NEW s \in Sweeps,
                 \/ Tick(s) \/ Scan(s) \/ ReadAll(s) \/ SweepMarked(s) \/ Count(s)
                 \/ CountTwice(s) \/ Postpone(s)
                 \/ SendAgain(s) \/ SweepEnds(s) \/ ScanFails(s) \/ ItemFails(s)
                 \/ \E k \in Pairs : Read(s, k)
                 \/ \E p \in batch[s] : LookUp(s, p) \/ LookupFails(s, p)
          PROVE  faults' = faults \/ Fault
      BY <2>4 DEF bounds, Tick, Scan, ReadAll, SweepMarked, Count, CountTwice, Postpone,
          SendAgain, SweepEnds, ScanFails, ItemFails, Read, LookUp, LookupFails
    <2>5. ASSUME NEW p \in Writers, MarkStatus(p) \/ MarkCode(p)
          PROVE  faults' = faults \/ Fault
      BY <2>5 DEF bounds, MarkStatus, MarkCode
    <2>6. Consumed \/ ConsumeFails \/ Crash \/ UNCHANGED vars => faults' = faults \/ Fault
      BY DEF bounds, vars, Consumed, ConsumeFails, Crash
    <2> QED BY <2>1, <2>2, <2>3, <2>4, <2>5, <2>6, Actions DEF AcceptStep
  <1> QED BY <1>1, <1>2 DEF Fault

\* The counter a sweep raises is the one it has checked.
LEMMA CappedStep == TypeOK /\ SweepInv /\ RepublishCapped /\ [Next]_vars
                    => RepublishCapped'
  <1> SUFFICES ASSUME TypeOK, SweepInv, RepublishCapped, [Next]_vars
               PROVE  RepublishCapped'
    OBVIOUS
  <1> DEFINE Kept == \A k \in Pairs : \/ hash'[k].attempts <= hash[k].attempts
                                      \/ hash'[k].attempts <= MaxPublishAttempts
                                      \/ faults' > 0 /\ hash'[k].attempts <= MaxPublishAttempts + 1
  <1> USE PendingAssumption
          DEF TypeOK, Hashes, NoHash, Items, Writers, redis, kafka, outside,
              sweeps, hand, writers, local, bounds
  <1>1. ASSUME NEW c \in Calls, Reserve(c)
        PROVE  Kept
    BY <1>1, ReserveKeeps
  <1>1T. ASSUME NEW c \in Calls, ReserveTwice(c)
         PROVE  Kept
    BY <1>1T, ReserveKeeps
  <1>2. ASSUME NEW c \in Calls, WriteFields(c)
        PROVE  Kept
    BY <1>2
       DEF WriteFields, Answer
  <1>3. ASSUME NEW c \in Calls, SetTtl(c)
        PROVE  Kept
    BY <1>3
       DEF SetTtl, Answer
  <1>4. ASSUME NEW k \in Pairs, Expire(k)
        PROVE  Kept
    BY <1>4
       DEF Expire
  <1>5. ASSUME NEW p \in Writers, MarkStatus(p)
        PROVE  Kept
    BY <1>5
       DEF MarkStatus, GoTo
  <1>6. ASSUME NEW p \in Writers, MarkCode(p)
        PROVE  Kept
    BY <1>6
       DEF MarkCode, GoTo
  <1>7. ASSUME NEW s \in Sweeps, SweepMarked(s)
        PROVE  Kept
    BY <1>7
       DEF SweepMarked, GoTo, Conclude, Release
  <1>8. ASSUME NEW s \in Sweeps, Count(s)
        PROVE  Kept
    BY <1>8
       DEF Count, GoTo, SweepInv, BatchInv, Fits
  <1>8T. ASSUME NEW s \in Sweeps, CountTwice(s)
         PROVE  Kept
    <2>1. /\ hash' = [hash EXCEPT ![item[s].key].attempts = hash[item[s].key].attempts + 2]
          /\ faults' = faults + 1 /\ step[s] = "count"
      BY <1>8T DEF CountTwice, Fault
    <2>2. item[s].key \in Pairs /\ hash[item[s].key].attempts < MaxPublishAttempts
      BY <2>1 DEF SweepInv, BatchInv, Fits, Working
    <2>3. \A k \in Pairs : hash'[k].attempts = IF k = item[s].key THEN hash[k].attempts + 2
                                                                ELSE hash[k].attempts
      BY <2>1, <2>2
    <2> QED BY <2>1, <2>2, <2>3
  <1>9. ASSUME Consumed
        PROVE  Kept
    BY <1>9
       DEF Consumed, GoTo, Conclude, Release, Settle
  <1>10. ASSUME NEW c \in Calls,
                Enqueue(c) \/ Publish(c) \/ Accepted(c) \/ AcceptFails(c)
        PROVE  Kept
    <2>1. UNCHANGED <<hash>>
      BY <1>10
         DEF Enqueue, Answer, Publish, Published, Accepted, AcceptFails,
             Fault
    <2> QED BY <2>1
  <1>11. ASSUME NEW r \in Calls,
                SendArrives(r) \/ SendLost(r) \/ Serve(r) \/ ServeAgain(r)
                   \/ ServeGivesUp(r)
        PROVE  Kept
    <2>1. UNCHANGED <<hash>>
      BY <1>11
         DEF SendArrives, SendLost, Serve, ServeAgain, ServeGivesUp
    <2> QED BY <2>1
  <1>12. ASSUME NEW k \in Pairs,
                Redeliver(k) \/ Redeem(k) \/ Age(k) \/ Consume(k)
        PROVE  Kept
    <2>1. UNCHANGED <<hash>>
      BY <1>12
         DEF Redeliver, Fault, Redeem, Age, Consume, GoTo
    <2> QED BY <2>1
  <1>13. ASSUME NEW s \in Sweeps,
                Tick(s) \/ Scan(s) \/ ReadAll(s) \/ Postpone(s)
                   \/ SendAgain(s) \/ SweepEnds(s) \/ ScanFails(s)
                   \/ ItemFails(s)
        PROVE  Kept
    <2>1. UNCHANGED <<hash>>
      BY <1>13
         DEF Tick, GoTo, Scan, ReadAll, Postpone, SendAgain, Release,
             Published, SweepEnds, Closed, ScanFails, Fault, ItemFails
    <2> QED BY <2>1
  <1>14. ASSUME NEW s \in Sweeps, NEW k \in Pairs, Read(s, k)
        PROVE  Kept
    <2>1. UNCHANGED <<hash>>
      BY <1>14
         DEF Read
    <2> QED BY <2>1
  <1>15. ASSUME NEW s \in Sweeps, NEW p \in batch[s],
                LookUp(s, p) \/ LookupFails(s, p)
        PROVE  Kept
    <2>1. UNCHANGED <<hash>>
      BY <1>15
         DEF LookUp, GoTo, LookupFails, Fault
    <2> QED BY <2>1
  <1>16. ASSUME ConsumeFails \/ Crash
        PROVE  Kept
    <2>1. UNCHANGED <<hash>>
      BY <1>16
         DEF ConsumeFails, GoTo, Release, Settle, Fault, Crash
    <2> QED BY <2>1
  <1>17. ASSUME UNCHANGED vars
         PROVE  Kept
    BY <1>17 DEF vars
  <1> HIDE DEF Kept, TypeOK, Hashes, NoHash, Items, Writers, redis, kafka,
               outside, sweeps, hand, writers, local, bounds
  <1>18. Kept
    BY <1>1, <1>1T, <1>2, <1>3, <1>4, <1>5, <1>6, <1>7, <1>8, <1>8T,
       <1>9, <1>10, <1>11, <1>12, <1>13, <1>14, <1>15, <1>16, <1>17,
       Actions
  <1>19. \A k \in Pairs : hash[k].attempts \in Nat /\ hash'[k].attempts \in Nat
    BY TypeStep DEF TypeOK, Hashes
  <1>20. faults \in Nat /\ (faults' = faults \/ faults' = faults + 1)
    BY FaultSteps
  <1> QED BY <1>18, <1>19, <1>20 DEF Kept, RepublishCapped

\* Who writes a result writes the one of server-c.
LEMMA OutcomeStep == TypeOK /\ OutcomeInv /\ [Next]_vars => OutcomeInv'
  <1> SUFFICES ASSUME TypeOK, OutcomeInv, [Next]_vars
               PROVE  OutcomeInv'
    OBVIOUS
  <1> USE PendingAssumption
          DEF TypeOK, Items, Outcomes, Terminal, Issued, Marking, Agrees,
              Writers, OutcomeInv, redis, kafka, outside, sweeps, hand,
              writers, local, bounds
  <1>1. ASSUME NEW r \in Calls, Serve(r)
        PROVE  OutcomeInv'
    BY <1>1
       DEF Serve
  <1>2. ASSUME NEW k \in Pairs, Redeliver(k)
        PROVE  OutcomeInv'
    BY <1>2
       DEF Redeliver, Fault
  <1>3. ASSUME NEW k \in Pairs, Redeem(k)
        PROVE  OutcomeInv'
    BY <1>3
       DEF Redeem
  <1>4. ASSUME NEW k \in Pairs, Consume(k)
        PROVE  OutcomeInv'
    BY <1>4
       DEF Consume, GoTo, MapStatus, CouponCode
  <1>5. ASSUME NEW p \in Writers, MarkStatus(p)
        PROVE  OutcomeInv'
    BY <1>5
       DEF MarkStatus, GoTo
  <1>6. ASSUME NEW p \in Writers, MarkCode(p)
        PROVE  OutcomeInv'
    BY <1>6
       DEF MarkCode, GoTo
  <1>7. ASSUME NEW s \in Sweeps, Tick(s)
        PROVE  OutcomeInv'
    BY <1>7
       DEF Tick, GoTo
  <1>8. ASSUME NEW s \in Sweeps, Scan(s)
        PROVE  OutcomeInv'
    BY <1>8
       DEF Scan, GoTo
  <1>9. ASSUME NEW s \in Sweeps, ReadAll(s)
        PROVE  OutcomeInv'
    BY <1>9
       DEF ReadAll, GoTo
  <1>10. ASSUME NEW s \in Sweeps, SweepMarked(s)
        PROVE  OutcomeInv'
    BY <1>10
       DEF SweepMarked, GoTo, Conclude, Release
  <1>11. ASSUME NEW s \in Sweeps, Count(s)
        PROVE  OutcomeInv'
    BY <1>11
       DEF Count, GoTo
  <1>11T. ASSUME NEW s \in Sweeps, CountTwice(s)
         PROVE  OutcomeInv'
    BY <1>11T
       DEF CountTwice, Fault, GoTo
  <1>12. ASSUME NEW s \in Sweeps, Postpone(s)
        PROVE  OutcomeInv'
    BY <1>12
       DEF Postpone, GoTo
  <1>13. ASSUME NEW s \in Sweeps, SendAgain(s)
        PROVE  OutcomeInv'
    BY <1>13
       DEF SendAgain, GoTo, Release, Published
  <1>14. ASSUME NEW s \in Sweeps, SweepEnds(s)
        PROVE  OutcomeInv'
    BY <1>14
       DEF SweepEnds, Closed, GoTo
  <1>15. ASSUME NEW s \in Sweeps, ScanFails(s)
        PROVE  OutcomeInv'
    BY <1>15
       DEF ScanFails, Closed, GoTo, Fault
  <1>16. ASSUME NEW s \in Sweeps, ItemFails(s)
        PROVE  OutcomeInv'
    BY <1>16
       DEF ItemFails, GoTo, Release, Fault
  <1>17. ASSUME NEW s \in Sweeps, NEW p \in batch[s], LookUp(s, p)
        PROVE  OutcomeInv'
    BY <1>17
       DEF LookUp, GoTo, NextStep, Found, MapStatus, CodeColumn
  <1>18. ASSUME Consumed
        PROVE  OutcomeInv'
    BY <1>18
       DEF Consumed, GoTo, Conclude, Release, Settle
  <1>19. ASSUME ConsumeFails
        PROVE  OutcomeInv'
    BY <1>19
       DEF ConsumeFails, GoTo, Release, Settle, Fault
  <1>20. ASSUME Crash
        PROVE  OutcomeInv'
    BY <1>20
       DEF Crash, Fault
  <1>21. ASSUME NEW c \in Calls,
                Reserve(c) \/ ReserveTwice(c) \/ WriteFields(c) \/ SetTtl(c)
                   \/ Enqueue(c) \/ Publish(c) \/ Accepted(c) \/ AcceptFails(c)
        PROVE  OutcomeInv'
    <2>1. UNCHANGED <<row, result, step, item, outcome>>
      BY <1>21
         DEF Reserve, ReserveTwice, Answer, WriteFields, SetTtl, Enqueue,
             Publish, Published, Accepted, AcceptFails, Fault
    <2> QED BY <2>1
  <1>22. ASSUME NEW r \in Calls,
                SendArrives(r) \/ SendLost(r) \/ ServeAgain(r)
                   \/ ServeGivesUp(r)
        PROVE  OutcomeInv'
    <2>1. UNCHANGED <<row, result, step, item, outcome>>
      BY <1>22
         DEF SendArrives, SendLost, ServeAgain, ServeGivesUp
    <2> QED BY <2>1
  <1>23. ASSUME NEW k \in Pairs, Age(k) \/ Expire(k)
        PROVE  OutcomeInv'
    <2>1. UNCHANGED <<row, result, step, item, outcome>>
      BY <1>23
         DEF Age, Expire
    <2> QED BY <2>1
  <1>24. ASSUME NEW s \in Sweeps, NEW k \in Pairs, Read(s, k)
        PROVE  OutcomeInv'
    <2>1. UNCHANGED <<row, result, step, item, outcome>>
      BY <1>24
         DEF Read
    <2> QED BY <2>1
  <1>25. ASSUME NEW s \in Sweeps, NEW p \in batch[s], LookupFails(s, p)
        PROVE  OutcomeInv'
    <2>1. UNCHANGED <<row, result, step, item, outcome>>
      BY <1>25
         DEF LookupFails, Fault
    <2> QED BY <2>1
  <1>26. CASE UNCHANGED vars
    BY <1>26 DEF vars
  <1> HIDE DEF TypeOK, Items, Outcomes, Terminal, Issued, Marking, Agrees,
               Writers, OutcomeInv, redis, kafka, outside, sweeps, hand,
               writers, local, bounds
  <1> QED BY <1>1, <1>2, <1>3, <1>4, <1>5, <1>6, <1>7, <1>8, <1>9, <1>10,
             <1>11, <1>11T, <1>12, <1>13, <1>14, <1>15, <1>16, <1>17, <1>18,
             <1>19, <1>20, <1>21, <1>22, <1>23, <1>24, <1>25, <1>26, Actions

\* A result in Redis stays the one of server-c.
LEMMA TruthStep == TypeOK /\ OutcomeInv /\ ResultTruthful /\ [Next]_vars
                   => ResultTruthful'
  <1> SUFFICES ASSUME TypeOK, OutcomeInv, ResultTruthful, [Next]_vars
               PROVE  ResultTruthful'
    OBVIOUS
  <1> USE PendingAssumption
          DEF TypeOK, Hashes, NoHash, Items, Terminal, Writers,
              ResultTruthful, redis, kafka, outside, sweeps, hand, writers,
              local, bounds
  <1>1. ASSUME NEW c \in Calls, Reserve(c)
        PROVE  ResultTruthful'
    <2>1. UNCHANGED <<row>>
      BY <1>1 DEF Reserve
    <2> QED BY <1>1, <2>1, ReserveKeeps
  <1>1T. ASSUME NEW c \in Calls, ReserveTwice(c)
         PROVE  ResultTruthful'
    <2>1. UNCHANGED <<row>>
      BY <1>1T DEF ReserveTwice, Fault
    <2> QED BY <1>1T, <2>1, ReserveKeeps
  <1>2. ASSUME NEW c \in Calls, WriteFields(c)
        PROVE  ResultTruthful'
    BY <1>2
       DEF WriteFields, Answer
  <1>3. ASSUME NEW c \in Calls, SetTtl(c)
        PROVE  ResultTruthful'
    BY <1>3
       DEF SetTtl, Answer
  <1>4. ASSUME NEW r \in Calls, Serve(r)
        PROVE  ResultTruthful'
    BY <1>4
       DEF Serve
  <1>5. ASSUME NEW k \in Pairs, Redeem(k)
        PROVE  ResultTruthful'
    BY <1>5
       DEF Redeem
  <1>6. ASSUME NEW k \in Pairs, Expire(k)
        PROVE  ResultTruthful'
    BY <1>6
       DEF Expire
  <1>7. ASSUME NEW p \in Writers, MarkStatus(p)
        PROVE  ResultTruthful'
    BY <1>7
       DEF MarkStatus, GoTo, OutcomeInv, Marking, Agrees, Issued
  <1>8. ASSUME NEW p \in Writers, MarkCode(p)
        PROVE  ResultTruthful'
    BY <1>8
       DEF MarkCode, GoTo
  <1>9. ASSUME NEW s \in Sweeps, SweepMarked(s)
        PROVE  ResultTruthful'
    BY <1>9
       DEF SweepMarked, GoTo, Conclude, Release
  <1>10. ASSUME NEW s \in Sweeps, Count(s)
        PROVE  ResultTruthful'
    BY <1>10
       DEF Count, GoTo
  <1>10T. ASSUME NEW s \in Sweeps, CountTwice(s)
         PROVE  ResultTruthful'
    BY <1>10T
       DEF CountTwice, Fault, GoTo
  <1>11. ASSUME Consumed
        PROVE  ResultTruthful'
    BY <1>11
       DEF Consumed, GoTo, Conclude, Release, Settle
  <1>12. ASSUME NEW c \in Calls,
                Enqueue(c) \/ Publish(c) \/ Accepted(c) \/ AcceptFails(c)
        PROVE  ResultTruthful'
    <2>1. UNCHANGED <<hash, row>>
      BY <1>12
         DEF Enqueue, Answer, Publish, Published, Accepted, AcceptFails,
             Fault
    <2> QED BY <2>1
  <1>13. ASSUME NEW r \in Calls,
                SendArrives(r) \/ SendLost(r) \/ ServeAgain(r)
                   \/ ServeGivesUp(r)
        PROVE  ResultTruthful'
    <2>1. UNCHANGED <<hash, row>>
      BY <1>13
         DEF SendArrives, SendLost, ServeAgain, ServeGivesUp
    <2> QED BY <2>1
  <1>14. ASSUME NEW k \in Pairs, Redeliver(k) \/ Age(k) \/ Consume(k)
        PROVE  ResultTruthful'
    <2>1. UNCHANGED <<hash, row>>
      BY <1>14
         DEF Redeliver, Fault, Age, Consume, GoTo
    <2> QED BY <2>1
  <1>15. ASSUME NEW s \in Sweeps,
                Tick(s) \/ Scan(s) \/ ReadAll(s) \/ Postpone(s)
                   \/ SendAgain(s) \/ SweepEnds(s) \/ ScanFails(s)
                   \/ ItemFails(s)
        PROVE  ResultTruthful'
    <2>1. UNCHANGED <<hash, row>>
      BY <1>15
         DEF Tick, GoTo, Scan, ReadAll, Postpone, SendAgain, Release,
             Published, SweepEnds, Closed, ScanFails, Fault, ItemFails
    <2> QED BY <2>1
  <1>16. ASSUME NEW s \in Sweeps, NEW k \in Pairs, Read(s, k)
        PROVE  ResultTruthful'
    <2>1. UNCHANGED <<hash, row>>
      BY <1>16
         DEF Read
    <2> QED BY <2>1
  <1>17. ASSUME NEW s \in Sweeps, NEW p \in batch[s],
                LookUp(s, p) \/ LookupFails(s, p)
        PROVE  ResultTruthful'
    <2>1. UNCHANGED <<hash, row>>
      BY <1>17
         DEF LookUp, GoTo, LookupFails, Fault
    <2> QED BY <2>1
  <1>18. ASSUME ConsumeFails \/ Crash
        PROVE  ResultTruthful'
    <2>1. UNCHANGED <<hash, row>>
      BY <1>18
         DEF ConsumeFails, GoTo, Release, Settle, Fault, Crash
    <2> QED BY <2>1
  <1>19. CASE UNCHANGED vars
    BY <1>19 DEF vars
  <1> HIDE DEF TypeOK, Hashes, NoHash, Items, Terminal, Writers,
               ResultTruthful, redis, kafka, outside, sweeps, hand, writers,
               local, bounds
  <1> QED BY <1>1, <1>1T, <1>2, <1>3, <1>4, <1>5, <1>6, <1>7, <1>8, <1>9,
             <1>10, <1>10T, <1>11, <1>12, <1>13, <1>14, <1>15, <1>16, <1>17,
             <1>18, <1>19, Actions

\* markResult writes one field at a time.
LEMMA MarkWrites ==
    ASSUME TypeOK, NEW p \in Writers
    PROVE  /\ item[p].key \in Pairs /\ outcome[p].code \in Codes
           /\ MarkStatus(p) => \A k \in Pairs :
                 /\ hash'[k].status =
                     IF k = item[p].key THEN outcome[p].status ELSE hash[k].status
                 /\ hash'[k].code = hash[k].code /\ hash'[k].user = hash[k].user
           /\ MarkCode(p) => \A k \in Pairs :
                 /\ hash'[k].code = IF k = item[p].key THEN outcome[p].code ELSE hash[k].code
                 /\ hash'[k].status = hash[k].status /\ hash'[k].user = hash[k].user
           /\ Conclude(p) => \A k \in Pairs :
                 /\ zset'[k] = IF k = item[p].key THEN "out" ELSE zset[k]
                 /\ hash'[k].status = hash[k].status /\ hash'[k].code = hash[k].code
                 /\ hash'[k].user = hash[k].user
  <1> USE DEF TypeOK, Hashes, Items, Outcomes
  <1>1. item[p].key \in Pairs /\ outcome[p].code \in Codes
    OBVIOUS
  <1>2. ASSUME MarkStatus(p), NEW k \in Pairs
        PROVE  /\ hash'[k].status = IF k = item[p].key THEN outcome[p].status
                                                       ELSE hash[k].status
               /\ hash'[k].code = hash[k].code /\ hash'[k].user = hash[k].user
    BY <1>1, <1>2 DEF MarkStatus
  <1>3. ASSUME MarkCode(p), NEW k \in Pairs
        PROVE  /\ hash'[k].code = IF k = item[p].key THEN outcome[p].code ELSE hash[k].code
               /\ hash'[k].status = hash[k].status /\ hash'[k].user = hash[k].user
    BY <1>1, <1>3 DEF MarkCode
  <1>4. ASSUME Conclude(p), NEW k \in Pairs
        PROVE  /\ zset'[k] = IF k = item[p].key THEN "out" ELSE zset[k]
               /\ hash'[k].status = hash[k].status /\ hash'[k].code = hash[k].code
               /\ hash'[k].user = hash[k].user
    BY <1>1, <1>4 DEF Conclude
  <1> QED BY <1>1, <1>2, <1>3, <1>4

\* An issued coupon's code is written before its result is concluded.
LEMMA CarryStep == TypeOK /\ SweepInv /\ OutcomeInv /\ CarryInv
                   /\ [Next]_vars => CarryInv'
  <1> SUFFICES ASSUME TypeOK, SweepInv, OutcomeInv, CarryInv, [Next]_vars
               PROVE  CarryInv'
    OBVIOUS
  <1> USE PendingAssumption
          DEF TypeOK, Hashes, Items, Outcomes, Terminal, Issued, Marking,
              Writers, CarryInv, redis, kafka, outside, sweeps, hand,
              writers, local, bounds
  <1>1. ASSUME NEW c \in Calls, Reserve(c)
        PROVE  CarryInv'
    <2>1. UNCHANGED <<row, step, outcome, item>>
      BY <1>1 DEF Reserve
    <2> QED BY <1>1, <2>1, ReserveKeeps
  <1>1T. ASSUME NEW c \in Calls, ReserveTwice(c)
         PROVE  CarryInv'
    <2>1. UNCHANGED <<row, step, outcome, item>>
      BY <1>1T DEF ReserveTwice, Fault
    <2> QED BY <1>1T, <2>1, ReserveKeeps
  <1>2. ASSUME NEW c \in Calls, WriteFields(c)
        PROVE  CarryInv'
    BY <1>2
       DEF WriteFields, Answer
  <1>3. ASSUME NEW c \in Calls, SetTtl(c)
        PROVE  CarryInv'
    BY <1>3
       DEF SetTtl, Answer
  <1>4. ASSUME NEW r \in Calls, Serve(r)
        PROVE  CarryInv'
    BY <1>4
       DEF Serve, OutcomeInv
  <1>5. ASSUME NEW k \in Pairs, Redeem(k)
        PROVE  CarryInv'
    BY <1>5
       DEF Redeem
  <1>6. ASSUME NEW k \in Pairs, Expire(k)
        PROVE  CarryInv'
    BY <1>6
       DEF Expire, Busy, Held, Working, NoHash
  <1>7. ASSUME NEW k \in Pairs, Consume(k)
        PROVE  CarryInv'
    BY <1>7
       DEF Consume, GoTo, MapStatus, CouponCode
  <1>8. ASSUME NEW p \in Writers, MarkStatus(p)
        PROVE  CarryInv'
    BY <1>8
       DEF MarkStatus, GoTo, OutcomeInv, Agrees
  <1>9. ASSUME NEW p \in Writers, MarkCode(p)
        PROVE  CarryInv'
    <2>1. /\ UNCHANGED <<row, outcome, item, result>>
          /\ step[p] = "code" /\ step' = [step EXCEPT ![p] = "zrem"]
      BY <1>9 DEF MarkCode, GoTo
    <2>2. \A q \in Writers : step'[q] = "zrem" /\ outcome[q].code = "real" =>
                               hash'[item[q].key].code = "real"
      <3>1. Agrees(outcome[p], row[item[p].key]) /\ outcome[p].code \in {"real", "placeholder"}
        BY <2>1, MarkWrites DEF OutcomeInv, Codes
      <3>2. \A q \in Writers : step[q] = "zrem" => Agrees(outcome[q], row[item[q].key])
        BY DEF OutcomeInv
      <3>3. \A k \in Pairs : hash'[k].code =
                IF k = item[p].key THEN outcome[p].code ELSE hash[k].code
        BY <1>9, MarkWrites
      <3>4. \A q \in Writers : item[q].key \in Pairs
        BY MarkWrites
      <3> QED BY <2>1, <3>1, <3>2, <3>3, <3>4 DEF Agrees
    <2> QED BY <2>1, <2>2
  <1>10. ASSUME NEW s \in Sweeps, Tick(s)
        PROVE  CarryInv'
    BY <1>10
       DEF Tick, GoTo
  <1>11. ASSUME NEW s \in Sweeps, Scan(s)
        PROVE  CarryInv'
    BY <1>11
       DEF Scan, GoTo
  <1>12. ASSUME NEW s \in Sweeps, ReadAll(s)
        PROVE  CarryInv'
    BY <1>12
       DEF ReadAll, GoTo
  <1>13. ASSUME NEW s \in Sweeps, SweepMarked(s)
        PROVE  CarryInv'
    BY <1>13
       DEF SweepMarked, GoTo, Conclude, Release
  <1>14. ASSUME NEW s \in Sweeps, Count(s)
        PROVE  CarryInv'
    BY <1>14
       DEF Count, GoTo
  <1>14T. ASSUME NEW s \in Sweeps, CountTwice(s)
         PROVE  CarryInv'
    BY <1>14T
       DEF CountTwice, Fault, GoTo
  <1>15. ASSUME NEW s \in Sweeps, Postpone(s)
        PROVE  CarryInv'
    BY <1>15
       DEF Postpone, GoTo
  <1>16. ASSUME NEW s \in Sweeps, SendAgain(s)
        PROVE  CarryInv'
    BY <1>16
       DEF SendAgain, GoTo, Release, Published
  <1>17. ASSUME NEW s \in Sweeps, SweepEnds(s)
        PROVE  CarryInv'
    BY <1>17
       DEF SweepEnds, Closed, GoTo
  <1>18. ASSUME NEW s \in Sweeps, ScanFails(s)
        PROVE  CarryInv'
    BY <1>18
       DEF ScanFails, Closed, GoTo, Fault
  <1>19. ASSUME NEW s \in Sweeps, ItemFails(s)
        PROVE  CarryInv'
    BY <1>19
       DEF ItemFails, GoTo, Release, Fault
  <1>20. ASSUME NEW s \in Sweeps, NEW p \in batch[s], LookUp(s, p)
        PROVE  CarryInv'
    BY <1>20
       DEF LookUp, GoTo, NextStep, Found, MapStatus, CodeColumn
  <1>21. ASSUME Consumed
        PROVE  CarryInv'
    BY <1>21
       DEF Consumed, GoTo, Conclude, Release, Settle
  <1>22. ASSUME ConsumeFails
        PROVE  CarryInv'
    BY <1>22
       DEF ConsumeFails, GoTo, Release, Settle, Fault
  <1>23. ASSUME Crash
        PROVE  CarryInv'
    BY <1>23
       DEF Crash, Fault
  <1>24. ASSUME NEW c \in Calls,
                Enqueue(c) \/ Publish(c) \/ Accepted(c) \/ AcceptFails(c)
        PROVE  CarryInv'
    <2>1. UNCHANGED <<hash, row, step, item, outcome>>
      BY <1>24
         DEF Enqueue, Answer, Publish, Published, Accepted, AcceptFails,
             Fault
    <2> QED BY <2>1
  <1>25. ASSUME NEW r \in Calls,
                SendArrives(r) \/ SendLost(r) \/ ServeAgain(r)
                   \/ ServeGivesUp(r)
        PROVE  CarryInv'
    <2>1. UNCHANGED <<hash, row, step, item, outcome>>
      BY <1>25
         DEF SendArrives, SendLost, ServeAgain, ServeGivesUp
    <2> QED BY <2>1
  <1>26. ASSUME NEW k \in Pairs, Redeliver(k) \/ Age(k)
        PROVE  CarryInv'
    <2>1. UNCHANGED <<hash, row, step, item, outcome>>
      BY <1>26
         DEF Redeliver, Fault, Age
    <2> QED BY <2>1
  <1>27. ASSUME NEW s \in Sweeps, NEW k \in Pairs, Read(s, k)
        PROVE  CarryInv'
    <2>1. UNCHANGED <<hash, row, step, item, outcome>>
      BY <1>27
         DEF Read
    <2> QED BY <2>1
  <1>28. ASSUME NEW s \in Sweeps, NEW p \in batch[s], LookupFails(s, p)
        PROVE  CarryInv'
    <2>1. UNCHANGED <<hash, row, step, item, outcome>>
      BY <1>28
         DEF LookupFails, Fault
    <2> QED BY <2>1
  <1>29. CASE UNCHANGED vars
    BY <1>29 DEF vars
  <1> HIDE DEF TypeOK, Hashes, Items, Outcomes, Terminal, Issued, Marking,
               Writers, CarryInv, redis, kafka, outside, sweeps, hand,
               writers, local, bounds
  <1> QED BY <1>1, <1>1T, <1>2, <1>3, <1>4, <1>5, <1>6, <1>7, <1>8, <1>9,
             <1>10, <1>11, <1>12, <1>13, <1>14, <1>14T, <1>15, <1>16, <1>17,
             <1>18, <1>19, <1>20, <1>21, <1>22, <1>23, <1>24, <1>25, <1>26,
             <1>27, <1>28, <1>29, Actions

\* A sweep that gives a pair up does not hide a code that is still to come.
LEMMA GiveUpStep == TypeOK /\ SweepInv /\ OutcomeInv /\ ResultTruthful
                    /\ CarryInv /\ GiveUpInv /\ [Next]_vars => GiveUpInv'
  <1> SUFFICES ASSUME TypeOK, SweepInv, OutcomeInv, ResultTruthful, CarryInv,
                      GiveUpInv, [Next]_vars
               PROVE  GiveUpInv'
    OBVIOUS
  <1> USE PendingAssumption
          DEF TypeOK, Hashes, Items, Outcomes, Terminal, Issued, Marking,
              Writers, GiveUpInv, CodeSafe, redis, kafka, outside, sweeps,
              hand, writers, local, bounds
  <1>1. ASSUME NEW c \in Calls, Reserve(c)
        PROVE  GiveUpInv'
    <2>1. UNCHANGED <<row, result, step, outcome, item>>
      BY <1>1 DEF Reserve
    <2> QED BY <1>1, <2>1, ReserveKeeps
  <1>1T. ASSUME NEW c \in Calls, ReserveTwice(c)
         PROVE  GiveUpInv'
    <2>1. UNCHANGED <<row, result, step, outcome, item>>
      BY <1>1T DEF ReserveTwice, Fault
    <2> QED BY <1>1T, <2>1, ReserveKeeps
  <1>2. ASSUME NEW c \in Calls, WriteFields(c)
        PROVE  GiveUpInv'
    <2>1. UNCHANGED <<row, result, outcome, item>> /\ step' = step
      BY <1>2 DEF WriteFields, Answer
    <2>2. \A k \in Pairs : /\ hash'[k].code = hash[k].code
                           /\ hash'[k].status = "SUCCESS" => hash[k].status = "SUCCESS"
      BY <1>2 DEF WriteFields, Answer
    <2>3. \A q \in Writers : item[q].key \in Pairs
      BY MarkWrites
    <2> QED BY <2>1, <2>2, <2>3
  <1>3. ASSUME NEW c \in Calls, SetTtl(c)
        PROVE  GiveUpInv'
    <2>1. UNCHANGED <<row, result, outcome, item>> /\ step' = step
      BY <1>3 DEF SetTtl, Answer
    <2>2. \A k \in Pairs : /\ hash'[k].code = hash[k].code
                           /\ hash'[k].status = "SUCCESS" => hash[k].status = "SUCCESS"
      BY <1>3 DEF SetTtl, Answer
    <2>3. \A q \in Writers : item[q].key \in Pairs
      BY MarkWrites
    <2> QED BY <2>1, <2>2, <2>3
  <1>4. ASSUME NEW r \in Calls, Serve(r)
        PROVE  GiveUpInv'
    BY <1>4
       DEF Serve
  <1>5. ASSUME NEW k \in Pairs, Redeliver(k)
        PROVE  GiveUpInv'
    BY <1>5
       DEF Redeliver, Fault
  <1>6. ASSUME NEW k \in Pairs, Redeem(k)
        PROVE  GiveUpInv'
    BY <1>6
       DEF Redeem
  <1>7. ASSUME NEW k \in Pairs, Expire(k)
        PROVE  GiveUpInv'
    BY <1>7
       DEF Expire, Busy, Held, Working, NoHash
  <1>8. ASSUME NEW k \in Pairs, Consume(k)
        PROVE  GiveUpInv'
    BY <1>8
       DEF Consume, GoTo
  <1>9. ASSUME NEW p \in Writers, MarkStatus(p)
        PROVE  GiveUpInv'
    BY <1>9
       DEF MarkStatus, GoTo, OutcomeInv, Agrees, CarryInv, SweepInv
  <1>10. ASSUME NEW p \in Writers, MarkCode(p)
        PROVE  GiveUpInv'
    <2>1. /\ UNCHANGED <<row, result, outcome, item>>
          /\ \A s \in Sweeps : step'[s] \in Marking => step[s] \in Marking
      BY <1>10 DEF MarkCode, GoTo
    <2>2. Agrees(outcome[p], row[item[p].key]) /\ outcome[p].code \in {"real", "placeholder"}
      BY <1>10, MarkWrites DEF OutcomeInv, CarryInv, MarkCode, Codes
    <2>3. \A k \in Pairs :
             /\ hash'[k].code = IF k = item[p].key THEN outcome[p].code ELSE hash[k].code
             /\ hash'[k].status = hash[k].status
      BY <1>10, MarkWrites
    <2>4. \A q \in Writers : item[q].key \in Pairs
      BY MarkWrites
    <2> QED BY <2>1, <2>2, <2>3, <2>4 DEF Agrees, ResultTruthful
  <1>11. ASSUME NEW s \in Sweeps, Tick(s)
        PROVE  GiveUpInv'
    BY <1>11
       DEF Tick, GoTo
  <1>12. ASSUME NEW s \in Sweeps, Scan(s)
        PROVE  GiveUpInv'
    BY <1>12
       DEF Scan, GoTo
  <1>13. ASSUME NEW s \in Sweeps, ReadAll(s)
        PROVE  GiveUpInv'
    BY <1>13
       DEF ReadAll, GoTo
  <1>14. ASSUME NEW s \in Sweeps, SweepMarked(s)
        PROVE  GiveUpInv'
    BY <1>14
       DEF SweepMarked, GoTo, Conclude, Release
  <1>15. ASSUME NEW s \in Sweeps, Count(s)
        PROVE  GiveUpInv'
    <2>1. UNCHANGED <<row, result, outcome, item>> /\ step' = [step EXCEPT ![s] = "zadd"]
      BY <1>15 DEF Count, GoTo
    <2>2. \A k \in Pairs : /\ hash'[k].code = hash[k].code
                           /\ hash'[k].status = "SUCCESS" => hash[k].status = "SUCCESS"
      BY <1>15 DEF Count, GoTo
    <2>3. \A q \in Writers : item[q].key \in Pairs
      BY MarkWrites
    <2> QED BY <2>1, <2>2, <2>3
  <1>15T. ASSUME NEW s \in Sweeps, CountTwice(s)
         PROVE  GiveUpInv'
    <2>1. UNCHANGED <<row, result, outcome, item>> /\ step' = [step EXCEPT ![s] = "zadd"]
      BY <1>15T DEF CountTwice, Fault, GoTo
    <2>2. \A k \in Pairs : /\ hash'[k].code = hash[k].code
                           /\ hash'[k].status = "SUCCESS" => hash[k].status = "SUCCESS"
      BY <1>15T DEF CountTwice, Fault, GoTo
    <2>3. \A q \in Writers : item[q].key \in Pairs
      BY MarkWrites
    <2> QED BY <2>1, <2>2, <2>3
  <1>16. ASSUME NEW s \in Sweeps, Postpone(s)
        PROVE  GiveUpInv'
    BY <1>16
       DEF Postpone, GoTo
  <1>17. ASSUME NEW s \in Sweeps, SendAgain(s)
        PROVE  GiveUpInv'
    BY <1>17
       DEF SendAgain, GoTo, Release, Published
  <1>18. ASSUME NEW s \in Sweeps, SweepEnds(s)
        PROVE  GiveUpInv'
    BY <1>18
       DEF SweepEnds, Closed, GoTo
  <1>19. ASSUME NEW s \in Sweeps, ScanFails(s)
        PROVE  GiveUpInv'
    BY <1>19
       DEF ScanFails, Closed, GoTo, Fault
  <1>20. ASSUME NEW s \in Sweeps, ItemFails(s)
        PROVE  GiveUpInv'
    BY <1>20
       DEF ItemFails, GoTo, Release, Fault
  <1>21. ASSUME NEW s \in Sweeps, NEW p \in batch[s], LookUp(s, p)
        PROVE  GiveUpInv'
    <2>1. /\ UNCHANGED <<hash, row, result>>
          /\ item' = [item EXCEPT ![s] = p]
          /\ step' = [step EXCEPT ![s] = NextStep(p)]
          /\ \A t \in Sweeps : t # s => outcome'[t] = outcome[t]
      BY <1>21 DEF LookUp, GoTo
    <2>2. outcome'[s].code = "none" => row[p.key] = "none"
      BY <1>21 DEF LookUp, Found, CodeColumn
    <2>3. p.key \in Pairs /\ (row[p.key] = "none" => hash[p.key].status # "SUCCESS")
      BY DEF ResultTruthful
    <2> QED BY <2>1, <2>2, <2>3
  <1>22. ASSUME Consumed
        PROVE  GiveUpInv'
    BY <1>22
       DEF Consumed, GoTo, Conclude, Release, Settle, OutcomeInv,
           ResultTruthful, CarryInv
  <1>23. ASSUME ConsumeFails
        PROVE  GiveUpInv'
    BY <1>23
       DEF ConsumeFails, GoTo, Release, Settle, Fault
  <1>24. ASSUME Crash
        PROVE  GiveUpInv'
    BY <1>24
       DEF Crash, Fault
  <1>25. ASSUME NEW c \in Calls,
                Enqueue(c) \/ Publish(c) \/ Accepted(c) \/ AcceptFails(c)
        PROVE  GiveUpInv'
    <2>1. UNCHANGED <<hash, row, result, step, item, outcome>>
      BY <1>25
         DEF Enqueue, Answer, Publish, Published, Accepted, AcceptFails,
             Fault
    <2> QED BY <2>1
  <1>26. ASSUME NEW r \in Calls,
                SendArrives(r) \/ SendLost(r) \/ ServeAgain(r)
                   \/ ServeGivesUp(r)
        PROVE  GiveUpInv'
    <2>1. UNCHANGED <<hash, row, result, step, item, outcome>>
      BY <1>26
         DEF SendArrives, SendLost, ServeAgain, ServeGivesUp
    <2> QED BY <2>1
  <1>27. ASSUME NEW k \in Pairs, Age(k)
        PROVE  GiveUpInv'
    <2>1. UNCHANGED <<hash, row, result, step, item, outcome>>
      BY <1>27
         DEF Age
    <2> QED BY <2>1
  <1>28. ASSUME NEW s \in Sweeps, NEW k \in Pairs, Read(s, k)
        PROVE  GiveUpInv'
    <2>1. UNCHANGED <<hash, row, result, step, item, outcome>>
      BY <1>28
         DEF Read
    <2> QED BY <2>1
  <1>29. ASSUME NEW s \in Sweeps, NEW p \in batch[s], LookupFails(s, p)
        PROVE  GiveUpInv'
    <2>1. UNCHANGED <<hash, row, result, step, item, outcome>>
      BY <1>29
         DEF LookupFails, Fault
    <2> QED BY <2>1
  <1>30. CASE UNCHANGED vars
    BY <1>30 DEF vars
  <1> HIDE DEF TypeOK, Hashes, Items, Outcomes, Terminal, Issued, Marking,
               Writers, GiveUpInv, CodeSafe, redis, kafka, outside, sweeps,
               hand, writers, local, bounds
  <1> QED BY <1>1, <1>1T, <1>2, <1>3, <1>4, <1>5, <1>6, <1>7, <1>8, <1>9,
             <1>10, <1>11, <1>12, <1>13, <1>14, <1>15, <1>15T, <1>16, <1>17,
             <1>18, <1>19, <1>20, <1>21, <1>22, <1>23, <1>24, <1>25, <1>26,
             <1>27, <1>28, <1>29, <1>30, Actions

\* What goes from the work list under a sweep goes with its result.
LEMMA HeldStep == TypeOK /\ SweepInv /\ OutcomeInv /\ CarryInv /\ HeldInv
                  /\ [Next]_vars => HeldInv'
  <1> SUFFICES ASSUME TypeOK, SweepInv, OutcomeInv, CarryInv, HeldInv,
                      [Next]_vars
               PROVE  HeldInv'
    OBVIOUS
  <1> USE PendingAssumption
          DEF TypeOK, Hashes, Items, Issued, Writers, HeldInv, Held, Working,
              redis, kafka, outside, sweeps, hand, writers, local, bounds
  <1>1. ASSUME NEW c \in Calls, Reserve(c)
        PROVE  HeldInv'
    <2>1. UNCHANGED <<row, zset, step, scanning, batch, item>>
      BY <1>1 DEF Reserve
    <2> QED BY <1>1, <2>1, ReserveKeeps
  <1>1T. ASSUME NEW c \in Calls, ReserveTwice(c)
         PROVE  HeldInv'
    <2>1. UNCHANGED <<row, zset, step, scanning, batch, item>>
      BY <1>1T DEF ReserveTwice, Fault
    <2> QED BY <1>1T, <2>1, ReserveKeeps
  <1>2. ASSUME NEW c \in Calls, WriteFields(c)
        PROVE  HeldInv'
    <2>1. UNCHANGED <<zset, row, step, scanning, batch, item>>
          /\ \A k \in Pairs : hash'[k].code = hash[k].code
      BY <1>2 DEF WriteFields, Answer
    <2> QED BY <2>1
  <1>3. ASSUME NEW c \in Calls, SetTtl(c)
        PROVE  HeldInv'
    <2>1. UNCHANGED <<zset, row, step, scanning, batch, item>>
          /\ \A k \in Pairs : hash'[k].code = hash[k].code
      BY <1>3 DEF SetTtl, Answer
    <2> QED BY <2>1
  <1>4. ASSUME NEW c \in Calls, Enqueue(c)
        PROVE  HeldInv'
    BY <1>4
       DEF Enqueue, Answer
  <1>5. ASSUME NEW r \in Calls, Serve(r)
        PROVE  HeldInv'
    BY <1>5
       DEF Serve
  <1>6. ASSUME NEW k \in Pairs, Redeem(k)
        PROVE  HeldInv'
    BY <1>6
       DEF Redeem
  <1>7. ASSUME NEW k \in Pairs, Age(k)
        PROVE  HeldInv'
    BY <1>7
       DEF Age
  <1>8. ASSUME NEW k \in Pairs, Expire(k)
        PROVE  HeldInv'
    BY <1>8
       DEF Expire, Busy, NoHash
  <1>9. ASSUME NEW k \in Pairs, Consume(k)
        PROVE  HeldInv'
    BY <1>9
       DEF Consume, GoTo
  <1>10. ASSUME NEW p \in Writers, MarkStatus(p)
        PROVE  HeldInv'
    BY <1>10
       DEF MarkStatus, GoTo
  <1>11. ASSUME NEW p \in Writers, MarkCode(p)
        PROVE  HeldInv'
    <2>1. UNCHANGED <<zset, row, scanning, batch, item>>
          /\ \A s \in Sweeps : step'[s] \in {"idle", "scan", "read", "lookup"} <=>
                               step[s] \in {"idle", "scan", "read", "lookup"}
      BY <1>11 DEF MarkCode, GoTo
    <2>2. \A s \in Sweeps, k \in Pairs : Held(s, k)' <=> Held(s, k)
      BY <2>1
    <2>3. Agrees(outcome[p], row[item[p].key]) /\ outcome[p].code \in {"real", "placeholder"}
      BY <1>11, MarkWrites DEF OutcomeInv, CarryInv, MarkCode, Codes, Marking
    <2> QED BY <1>11, <2>1, <2>2, <2>3, MarkWrites DEF Agrees
  <1>12. ASSUME NEW s \in Sweeps, Tick(s)
        PROVE  HeldInv'
    BY <1>12
       DEF Tick, GoTo
  <1>13. ASSUME NEW s \in Sweeps, Scan(s)
        PROVE  HeldInv'
    BY <1>13
       DEF Scan, GoTo, Stale
  <1>14. ASSUME NEW s \in Sweeps, ReadAll(s)
        PROVE  HeldInv'
    BY <1>14
       DEF ReadAll, GoTo
  <1>15. ASSUME NEW s \in Sweeps, SweepMarked(s)
        PROVE  HeldInv'
    BY <1>15
       DEF SweepMarked, GoTo, Conclude, Release, SweepInv, BatchInv
  <1>16. ASSUME NEW s \in Sweeps, Count(s)
        PROVE  HeldInv'
    <2>1. /\ UNCHANGED <<zset, row, scanning, batch, item>>
          /\ step[s] = "count" /\ step' = [step EXCEPT ![s] = "zadd"]
      BY <1>16 DEF Count, GoTo
    <2>2. \A k \in Pairs : hash'[k].code = hash[k].code
      BY <1>16 DEF Count
    <2>3. \A t \in Sweeps, k \in Pairs : Held(t, k)' <=> Held(t, k)
      BY <2>1
    <2> QED BY <2>1, <2>2, <2>3
  <1>16T. ASSUME NEW s \in Sweeps, CountTwice(s)
         PROVE  HeldInv'
    <2>1. /\ UNCHANGED <<zset, row, scanning, batch, item>>
          /\ step[s] = "count" /\ step' = [step EXCEPT ![s] = "zadd"]
      BY <1>16T DEF CountTwice, Fault, GoTo
    <2>2. \A k \in Pairs : hash'[k].code = hash[k].code
      BY <1>16T DEF CountTwice, Fault
    <2>3. \A t \in Sweeps, k \in Pairs : Held(t, k)' <=> Held(t, k)
      BY <2>1
    <2> QED BY <2>1, <2>2, <2>3
  <1>17. ASSUME NEW s \in Sweeps, Postpone(s)
        PROVE  HeldInv'
    BY <1>17
       DEF Postpone, GoTo
  <1>18. ASSUME NEW s \in Sweeps, SendAgain(s)
        PROVE  HeldInv'
    BY <1>18
       DEF SendAgain, GoTo, Release, Published
  <1>19. ASSUME NEW s \in Sweeps, SweepEnds(s)
        PROVE  HeldInv'
    BY <1>19
       DEF SweepEnds, Closed, GoTo
  <1>20. ASSUME NEW s \in Sweeps, ScanFails(s)
        PROVE  HeldInv'
    BY <1>20
       DEF ScanFails, Closed, GoTo, Fault
  <1>21. ASSUME NEW s \in Sweeps, ItemFails(s)
        PROVE  HeldInv'
    BY <1>21
       DEF ItemFails, GoTo, Release, Fault
  <1>22. ASSUME NEW s \in Sweeps, NEW k \in Pairs, Read(s, k)
        PROVE  HeldInv'
    BY <1>22
       DEF Read, SweepInv, BatchInv, Complete, PendingOf, NoHash
  <1>23. ASSUME NEW s \in Sweeps, NEW p \in batch[s], LookUp(s, p)
        PROVE  HeldInv'
    <2>1. /\ UNCHANGED <<hash, zset, row, scanning>>
          /\ batch' = [batch EXCEPT ![s] = batch[s] \ {p}]
          /\ item' = [item EXCEPT ![s] = p]
          /\ step' = [step EXCEPT ![s] = NextStep(p)]
      BY <1>23 DEF LookUp, GoTo
    <2>2. \A t \in Sweeps, k \in Pairs : Held(t, k)' => Held(t, k)
      BY <2>1
    <2> QED BY <2>1, <2>2
  <1>24. ASSUME NEW s \in Sweeps, NEW p \in batch[s], LookupFails(s, p)
        PROVE  HeldInv'
    BY <1>24
       DEF LookupFails, Fault
  <1>25. ASSUME Consumed
        PROVE  HeldInv'
    BY <1>25
       DEF Consumed, GoTo, Conclude, Release, Settle, OutcomeInv, CarryInv,
           Marking
  <1>26. ASSUME ConsumeFails
        PROVE  HeldInv'
    <2>1. /\ UNCHANGED <<hash, zset, row, scanning, batch>>
          /\ \A s \in Sweeps : step'[s] = step[s] /\ item'[s] = item[s]
      BY <1>26 DEF ConsumeFails, GoTo, Release, Settle
    <2>2. \A s \in Sweeps, k \in Pairs : Held(s, k)' <=> Held(s, k)
      BY <2>1
    <2> QED BY <2>1, <2>2
  <1>27. ASSUME Crash
        PROVE  HeldInv'
    BY <1>27
       DEF Crash, Fault
  <1>28. ASSUME NEW c \in Calls, Publish(c) \/ Accepted(c) \/ AcceptFails(c)
        PROVE  HeldInv'
    <2>1. UNCHANGED <<hash, zset, row, step, scanning, batch, item>>
      BY <1>28
         DEF Publish, Answer, Published, Accepted, AcceptFails, Fault
    <2> QED BY <2>1
  <1>29. ASSUME NEW r \in Calls,
                SendArrives(r) \/ SendLost(r) \/ ServeAgain(r)
                   \/ ServeGivesUp(r)
        PROVE  HeldInv'
    <2>1. UNCHANGED <<hash, zset, row, step, scanning, batch, item>>
      BY <1>29
         DEF SendArrives, SendLost, ServeAgain, ServeGivesUp
    <2> QED BY <2>1
  <1>30. ASSUME NEW k \in Pairs, Redeliver(k)
        PROVE  HeldInv'
    <2>1. UNCHANGED <<hash, zset, row, step, scanning, batch, item>>
      BY <1>30
         DEF Redeliver, Fault
    <2> QED BY <2>1
  <1>31. CASE UNCHANGED vars
    BY <1>31 DEF vars
  <1> HIDE DEF TypeOK, Hashes, Items, Issued, Writers, HeldInv, Held,
               Working, redis, kafka, outside, sweeps, hand, writers, local,
               bounds
  <1> QED BY <1>1, <1>1T, <1>2, <1>3, <1>4, <1>5, <1>6, <1>7, <1>8, <1>9,
             <1>10, <1>11, <1>12, <1>13, <1>14, <1>15, <1>16, <1>16T, <1>17,
             <1>18, <1>19, <1>20, <1>21, <1>22, <1>23, <1>24, <1>25, <1>26,
             <1>27, <1>28, <1>29, <1>30, <1>31, Actions

\* A SUCCESS off the work list has its code, or a message that carries it.
LEMMA CodeStep == TypeOK /\ OutcomeInv /\ ResultTruthful /\ CarryInv
                  /\ GiveUpInv /\ HeldInv /\ SuccessCarriesCode
                  /\ [Next]_vars => SuccessCarriesCode'
  <1> SUFFICES ASSUME TypeOK, OutcomeInv, ResultTruthful, CarryInv,
                      GiveUpInv, HeldInv, SuccessCarriesCode, [Next]_vars
               PROVE  SuccessCarriesCode'
    OBVIOUS
  <1> USE PendingAssumption
          DEF TypeOK, Hashes, Items, NoHash, Terminal, Issued, Marking,
              Writers, SuccessCarriesCode, CodeSafe, redis, kafka, outside,
              sweeps, hand, writers, local, bounds
  <1>1. ASSUME NEW c \in Calls, Reserve(c)
        PROVE  SuccessCarriesCode'
    <2>1. UNCHANGED <<zset, result>>
      BY <1>1 DEF Reserve
    <2> QED BY <1>1, <2>1, ReserveKeeps
  <1>1T. ASSUME NEW c \in Calls, ReserveTwice(c)
         PROVE  SuccessCarriesCode'
    <2>1. UNCHANGED <<zset, result>>
      BY <1>1T DEF ReserveTwice, Fault
    <2> QED BY <1>1T, <2>1, ReserveKeeps
  <1>2. ASSUME NEW c \in Calls, WriteFields(c)
        PROVE  SuccessCarriesCode'
    BY <1>2
       DEF WriteFields, Answer
  <1>3. ASSUME NEW c \in Calls, SetTtl(c)
        PROVE  SuccessCarriesCode'
    BY <1>3
       DEF SetTtl, Answer
  <1>4. ASSUME NEW c \in Calls, Enqueue(c)
        PROVE  SuccessCarriesCode'
    BY <1>4
       DEF Enqueue, Answer
  <1>5. ASSUME NEW r \in Calls, Serve(r)
        PROVE  SuccessCarriesCode'
    BY <1>5
       DEF Serve
  <1>6. ASSUME NEW k \in Pairs, Redeliver(k)
        PROVE  SuccessCarriesCode'
    BY <1>6
       DEF Redeliver, Fault
  <1>7. ASSUME NEW k \in Pairs, Age(k)
        PROVE  SuccessCarriesCode'
    BY <1>7
       DEF Age
  <1>8. ASSUME NEW k \in Pairs, Expire(k)
        PROVE  SuccessCarriesCode'
    BY <1>8
       DEF Expire
  <1>9. ASSUME NEW p \in Writers, MarkStatus(p)
        PROVE  SuccessCarriesCode'
    <2>1. UNCHANGED <<zset, row, result>>
      BY <1>9 DEF MarkStatus
    <2>2. Agrees(outcome[p], row[item[p].key])
      BY <1>9 DEF OutcomeInv, MarkStatus
    <2>3. CASE p = Consumer
      BY <1>9, <2>1, <2>3, MarkWrites DEF OutcomeInv, MarkStatus
    <2>4. CASE p \in Sweeps
      <3>1. Held(p, item[p].key)
        BY <1>9, <2>4 DEF Held, Working, MarkStatus
      <3> QED BY <1>9, <2>1, <2>2, <2>4, <3>1, MarkWrites DEF HeldInv, Agrees
    <2> QED BY <2>3, <2>4
  <1>10. ASSUME NEW p \in Writers, MarkCode(p)
        PROVE  SuccessCarriesCode'
    <2>1. UNCHANGED <<zset, row, result>>
      BY <1>10 DEF MarkCode
    <2>2. Agrees(outcome[p], row[item[p].key]) /\ outcome[p].code \in {"real", "placeholder"}
      BY <1>10, MarkWrites DEF OutcomeInv, CarryInv, MarkCode, Codes, Marking
    <2> QED BY <1>10, <2>1, <2>2, MarkWrites DEF Agrees, ResultTruthful
  <1>11. ASSUME NEW s \in Sweeps, SweepMarked(s)
        PROVE  SuccessCarriesCode'
    <2>1. /\ UNCHANGED <<row, result>> /\ step[s] = "zrem" /\ Conclude(s)
      BY <1>11 DEF SweepMarked, Conclude
    <2>2. Agrees(outcome[s], row[item[s].key])
      BY <2>1 DEF OutcomeInv
    <2>3. hash[item[s].key].status = "SUCCESS" => CodeSafe(item[s].key)
      BY <2>1, <2>2, MarkWrites DEF Agrees, ResultTruthful, CarryInv, GiveUpInv, Codes
    <2> QED BY <2>1, <2>3, MarkWrites
  <1>12. ASSUME NEW s \in Sweeps, Count(s)
        PROVE  SuccessCarriesCode'
    BY <1>12
       DEF Count, GoTo
  <1>12T. ASSUME NEW s \in Sweeps, CountTwice(s)
         PROVE  SuccessCarriesCode'
    BY <1>12T
       DEF CountTwice, Fault, GoTo
  <1>13. ASSUME NEW s \in Sweeps, Postpone(s)
        PROVE  SuccessCarriesCode'
    BY <1>13
       DEF Postpone, GoTo
  <1>14. ASSUME NEW s \in Sweeps, NEW k \in Pairs, Read(s, k)
        PROVE  SuccessCarriesCode'
    BY <1>14
       DEF Read
  <1>15. ASSUME Consumed
        PROVE  SuccessCarriesCode'
    BY <1>15
       DEF Consumed, GoTo, Conclude, Release, Settle, OutcomeInv,
           ResultTruthful, CarryInv
  <1>16. ASSUME ConsumeFails
        PROVE  SuccessCarriesCode'
    <2>1. UNCHANGED <<hash, zset>>
      BY <1>16 DEF ConsumeFails
    <2>2. CASE result' = result
      BY <2>1, <2>2
    <2>3. CASE result' = [result EXCEPT ![item[Consumer].key] = "skipped"]
      BY <2>1, <2>3
    <2> QED BY <1>16, <2>2, <2>3 DEF ConsumeFails, Settle
  <1>17. ASSUME NEW c \in Calls, Publish(c) \/ Accepted(c) \/ AcceptFails(c)
        PROVE  SuccessCarriesCode'
    <2>1. UNCHANGED <<hash, zset, result>>
      BY <1>17
         DEF Publish, Answer, Published, Accepted, AcceptFails, Fault
    <2> QED BY <2>1
  <1>18. ASSUME NEW r \in Calls,
                SendArrives(r) \/ SendLost(r) \/ ServeAgain(r)
                   \/ ServeGivesUp(r)
        PROVE  SuccessCarriesCode'
    <2>1. UNCHANGED <<hash, zset, result>>
      BY <1>18
         DEF SendArrives, SendLost, ServeAgain, ServeGivesUp
    <2> QED BY <2>1
  <1>19. ASSUME NEW k \in Pairs, Redeem(k) \/ Consume(k)
        PROVE  SuccessCarriesCode'
    <2>1. UNCHANGED <<hash, zset, result>>
      BY <1>19
         DEF Redeem, Consume, GoTo
    <2> QED BY <2>1
  <1>20. ASSUME NEW s \in Sweeps,
                Tick(s) \/ Scan(s) \/ ReadAll(s) \/ SendAgain(s)
                   \/ SweepEnds(s) \/ ScanFails(s) \/ ItemFails(s)
        PROVE  SuccessCarriesCode'
    <2>1. UNCHANGED <<hash, zset, result>>
      BY <1>20
         DEF Tick, GoTo, Scan, ReadAll, SendAgain, Release, Published,
             SweepEnds, Closed, ScanFails, Fault, ItemFails
    <2> QED BY <2>1
  <1>21. ASSUME NEW s \in Sweeps, NEW p \in batch[s],
                LookUp(s, p) \/ LookupFails(s, p)
        PROVE  SuccessCarriesCode'
    <2>1. UNCHANGED <<hash, zset, result>>
      BY <1>21
         DEF LookUp, GoTo, LookupFails, Fault
    <2> QED BY <2>1
  <1>22. ASSUME Crash
        PROVE  SuccessCarriesCode'
    <2>1. UNCHANGED <<hash, zset, result>>
      BY <1>22
         DEF Crash, Fault
    <2> QED BY <2>1
  <1>23. CASE UNCHANGED vars
    BY <1>23 DEF vars
  <1> HIDE DEF TypeOK, Hashes, Items, NoHash, Terminal, Issued, Marking,
               Writers, SuccessCarriesCode, CodeSafe, redis, kafka, outside,
               sweeps, hand, writers, local, bounds
  <1> QED BY <1>1, <1>1T, <1>2, <1>3, <1>4, <1>5, <1>6, <1>7, <1>8, <1>9,
             <1>10, <1>11, <1>12, <1>12T, <1>13, <1>14, <1>15, <1>16, <1>17,
             <1>18, <1>19, <1>20, <1>21, <1>22, <1>23, Actions

\* Whoever has a pair and has written its fields leaves nothing fresh of it.
LEMMA NotFresh ==
    ASSUME HolderInv, expiries = 0, NEW c \in Calls, Holder(c), call[c] # "hset"
    PROVE  ~ Fresh(PairOf[c])
  BY DEF HolderInv, Fresh, Holder, Holding

\* In the first life of the pairs none becomes fresh.
LEMMA FreshBefore == TypeOK /\ expiries' = 0 /\ [Next]_vars
                     => expiries = 0 /\ \A j \in Pairs : Fresh(j)' => Fresh(j)
  <1> SUFFICES ASSUME TypeOK, expiries' = 0, [Next]_vars
               PROVE  expiries = 0 /\ \A j \in Pairs : Fresh(j)' => Fresh(j)
    OBVIOUS
  <1> USE PendingAssumption
          DEF TypeOK, Hashes, Items, Fresh, redis, kafka, outside, sweeps,
              hand, writers, local, bounds
  <1>1. ASSUME NEW c \in Calls, Reserve(c)
        PROVE  expiries = 0 /\ \A j \in Pairs : Fresh(j)' => Fresh(j)
    <2>1. CASE hash[PairOf[c]].user
      BY <1>1, <2>1 DEF Reserve, Answer
    <2>2. CASE ~ hash[PairOf[c]].user
      <3>1. /\ hash' = [hash EXCEPT ![PairOf[c]].user = TRUE]
            /\ call' = [call EXCEPT ![c] = "hset"]
            /\ expiries' = expiries
        BY <1>1, <2>2 DEF Reserve, Answer
      <3>2. \A k \in Pairs : (hash'[k].user <=> (hash[k].user \/ k = PairOf[c]))
        BY <3>1
      <3> QED BY <2>2, <3>1, <3>2
    <2> QED BY <2>1, <2>2
  <1>1T. ASSUME NEW c \in Calls, ReserveTwice(c)
         PROVE  expiries = 0 /\ \A j \in Pairs : Fresh(j)' => Fresh(j)
    <2>1. /\ hash' = [hash EXCEPT ![PairOf[c]].user = TRUE]
          /\ call' = [call EXCEPT ![c] = "DUPLICATE"] /\ expiries' = expiries
      BY <1>1T DEF ReserveTwice, Answer
    <2>2. \A k \in Pairs : (hash'[k].user <=> (hash[k].user \/ k = PairOf[c]))
      BY <2>1
    <2> QED BY <2>1, <2>2
  <1>2. ASSUME NEW c \in Calls, WriteFields(c)
        PROVE  expiries = 0 /\ \A j \in Pairs : Fresh(j)' => Fresh(j)
    BY <1>2
       DEF WriteFields, Answer
  <1>3. ASSUME NEW c \in Calls, SetTtl(c)
        PROVE  expiries = 0 /\ \A j \in Pairs : Fresh(j)' => Fresh(j)
    BY <1>3
       DEF SetTtl, Answer
  <1>4. ASSUME NEW c \in Calls, Enqueue(c)
        PROVE  expiries = 0 /\ \A j \in Pairs : Fresh(j)' => Fresh(j)
    BY <1>4
       DEF Enqueue, Answer
  <1>5. ASSUME NEW c \in Calls, Publish(c)
        PROVE  expiries = 0 /\ \A j \in Pairs : Fresh(j)' => Fresh(j)
    BY <1>5
       DEF Publish, Answer, Published
  <1>6. ASSUME NEW c \in Calls, Accepted(c)
        PROVE  expiries = 0 /\ \A j \in Pairs : Fresh(j)' => Fresh(j)
    BY <1>6
       DEF Accepted, Answer
  <1>7. ASSUME NEW c \in Calls, AcceptFails(c)
        PROVE  expiries = 0 /\ \A j \in Pairs : Fresh(j)' => Fresh(j)
    BY <1>7
       DEF AcceptFails, Answer, Fault
  <1>8. ASSUME NEW k \in Pairs, Expire(k)
        PROVE  expiries = 0 /\ \A j \in Pairs : Fresh(j)' => Fresh(j)
    BY <1>8
       DEF Expire
  <1>9. ASSUME NEW p \in Writers, MarkStatus(p)
        PROVE  expiries = 0 /\ \A j \in Pairs : Fresh(j)' => Fresh(j)
    BY <1>9
       DEF MarkStatus, GoTo
  <1>10. ASSUME NEW p \in Writers, MarkCode(p)
        PROVE  expiries = 0 /\ \A j \in Pairs : Fresh(j)' => Fresh(j)
    BY <1>10
       DEF MarkCode, GoTo
  <1>11. ASSUME NEW s \in Sweeps, SweepMarked(s)
        PROVE  expiries = 0 /\ \A j \in Pairs : Fresh(j)' => Fresh(j)
    BY <1>11
       DEF SweepMarked, GoTo, Conclude, Release
  <1>12. ASSUME NEW s \in Sweeps, Count(s)
        PROVE  expiries = 0 /\ \A j \in Pairs : Fresh(j)' => Fresh(j)
    BY <1>12
       DEF Count, GoTo
  <1>12T. ASSUME NEW s \in Sweeps, CountTwice(s)
         PROVE  expiries = 0 /\ \A j \in Pairs : Fresh(j)' => Fresh(j)
    BY <1>12T
       DEF CountTwice, Fault, GoTo
  <1>13. ASSUME Consumed
        PROVE  expiries = 0 /\ \A j \in Pairs : Fresh(j)' => Fresh(j)
    BY <1>13
       DEF Consumed, GoTo, Conclude, Release, Settle
  <1>14. ASSUME Crash
        PROVE  expiries = 0 /\ \A j \in Pairs : Fresh(j)' => Fresh(j)
    BY <1>14
       DEF Crash, Fault
  <1>15. ASSUME NEW r \in Calls,
                SendArrives(r) \/ SendLost(r) \/ Serve(r) \/ ServeAgain(r)
                   \/ ServeGivesUp(r)
        PROVE  expiries = 0 /\ \A j \in Pairs : Fresh(j)' => Fresh(j)
    <2>1. UNCHANGED <<hash, call, expiries>>
      BY <1>15
         DEF SendArrives, SendLost, Serve, ServeAgain, ServeGivesUp
    <2> QED BY <2>1
  <1>16. ASSUME NEW k \in Pairs,
                Redeliver(k) \/ Redeem(k) \/ Age(k) \/ Consume(k)
        PROVE  expiries = 0 /\ \A j \in Pairs : Fresh(j)' => Fresh(j)
    <2>1. UNCHANGED <<hash, call, expiries>>
      BY <1>16
         DEF Redeliver, Fault, Redeem, Age, Consume, GoTo
    <2> QED BY <2>1
  <1>17. ASSUME NEW s \in Sweeps,
                Tick(s) \/ Scan(s) \/ ReadAll(s) \/ Postpone(s)
                   \/ SendAgain(s) \/ SweepEnds(s) \/ ScanFails(s)
                   \/ ItemFails(s)
        PROVE  expiries = 0 /\ \A j \in Pairs : Fresh(j)' => Fresh(j)
    <2>1. UNCHANGED <<hash, call, expiries>>
      BY <1>17
         DEF Tick, GoTo, Scan, ReadAll, Postpone, SendAgain, Release,
             Published, SweepEnds, Closed, ScanFails, Fault, ItemFails
    <2> QED BY <2>1
  <1>18. ASSUME NEW s \in Sweeps, NEW k \in Pairs, Read(s, k)
        PROVE  expiries = 0 /\ \A j \in Pairs : Fresh(j)' => Fresh(j)
    <2>1. UNCHANGED <<hash, call, expiries>>
      BY <1>18
         DEF Read
    <2> QED BY <2>1
  <1>19. ASSUME NEW s \in Sweeps, NEW p \in batch[s],
                LookUp(s, p) \/ LookupFails(s, p)
        PROVE  expiries = 0 /\ \A j \in Pairs : Fresh(j)' => Fresh(j)
    <2>1. UNCHANGED <<hash, call, expiries>>
      BY <1>19
         DEF LookUp, GoTo, LookupFails, Fault
    <2> QED BY <2>1
  <1>20. ASSUME ConsumeFails
        PROVE  expiries = 0 /\ \A j \in Pairs : Fresh(j)' => Fresh(j)
    <2>1. UNCHANGED <<hash, call, expiries>>
      BY <1>20
         DEF ConsumeFails, GoTo, Release, Settle, Fault
    <2> QED BY <2>1
  <1>21. CASE UNCHANGED vars
    BY <1>21 DEF vars
  <1> HIDE DEF TypeOK, Hashes, Items, Fresh, redis, kafka, outside, sweeps,
               hand, writers, local, bounds
  <1> QED BY <1>1, <1>1T, <1>2, <1>3, <1>4, <1>5, <1>6, <1>7, <1>8, <1>9,
             <1>10, <1>11, <1>12, <1>12T, <1>13, <1>14, <1>15, <1>16, <1>17,
             <1>18, <1>19, <1>20, <1>21, Actions

\* A fresh pair stays untouched.
LEMMA UntouchedStep ==
    ASSUME NEW x \in Pairs,
           TypeOK, HolderInv, SweepInv, OutcomeInv, expiries = 0, Fresh(x),
           Untouched(x), [Next]_vars
    PROVE  Untouched(x)'
  <1> USE PendingAssumption
          DEF TypeOK, Hashes, Items, Writers, Untouched, Held, Working,
              redis, kafka, outside, sweeps, hand, writers, local, bounds
  <1>1. ASSUME NEW c \in Calls, Enqueue(c)
        PROVE  Untouched(x)'
    <2>1. PairOf[c] # x
      BY <1>1, NotFresh DEF Enqueue, Holder, Holding
    <2>2. UNCHANGED <<sending, topic, row, result, step, scanning, batch, item>>
          /\ zset'[x] = zset[x]
      BY <1>1, <2>1 DEF Enqueue
    <2> QED BY <2>2
  <1>2. ASSUME NEW c \in Calls, Publish(c)
        PROVE  Untouched(x)'
    <2>1. PairOf[c] # x
      BY <1>2, NotFresh DEF Publish, Holder, Holding
    <2>2. /\ UNCHANGED <<zset, topic, row, result, step, scanning, batch, item>>
          /\ sending' \subseteq sending \union {c}
      BY <1>2 DEF Publish, Published
    <2> QED BY <2>1, <2>2
  <1>3. ASSUME NEW r \in Calls, SendArrives(r)
        PROVE  Untouched(x)'
    BY <1>3
       DEF SendArrives
  <1>4. ASSUME NEW r \in Calls, SendLost(r)
        PROVE  Untouched(x)'
    BY <1>4
       DEF SendLost
  <1>5. ASSUME NEW r \in Calls, Serve(r)
        PROVE  Untouched(x)'
    BY <1>5
       DEF Serve
  <1>6. ASSUME NEW r \in Calls, ServeAgain(r)
        PROVE  Untouched(x)'
    BY <1>6
       DEF ServeAgain
  <1>7. ASSUME NEW r \in Calls, ServeGivesUp(r)
        PROVE  Untouched(x)'
    BY <1>7
       DEF ServeGivesUp
  <1>8. ASSUME NEW k \in Pairs, Redeliver(k)
        PROVE  Untouched(x)'
    BY <1>8
       DEF Redeliver, Fault
  <1>9. ASSUME NEW k \in Pairs, Redeem(k)
        PROVE  Untouched(x)'
    BY <1>9
       DEF Redeem
  <1>10. ASSUME NEW k \in Pairs, Age(k)
        PROVE  Untouched(x)'
    BY <1>10
       DEF Age
  <1>11. ASSUME NEW k \in Pairs, Consume(k)
        PROVE  Untouched(x)'
    BY <1>11
       DEF Consume, GoTo
  <1>12. ASSUME NEW p \in Writers, MarkStatus(p)
        PROVE  Untouched(x)'
    BY <1>12
       DEF MarkStatus, GoTo
  <1>13. ASSUME NEW p \in Writers, MarkCode(p)
        PROVE  Untouched(x)'
    BY <1>13
       DEF MarkCode, GoTo
  <1>14. ASSUME NEW s \in Sweeps, Tick(s)
        PROVE  Untouched(x)'
    BY <1>14
       DEF Tick, GoTo
  <1>15. ASSUME NEW s \in Sweeps, Scan(s)
        PROVE  Untouched(x)'
    <2>1. /\ UNCHANGED <<zset, sending, topic, row, result, batch, item>>
          /\ step[s] = "scan" /\ step' = [step EXCEPT ![s] = "read"]
      BY <1>15 DEF Scan, GoTo
    <2>2. PICK S \in SUBSET Stale : scanning' = [scanning EXCEPT ![s] = S]
      BY <1>15 DEF Scan
    <2>3. x \notin S
      BY <2>2 DEF Stale
    <2>4. \A t \in Sweeps : Held(t, x)' => Held(t, x)
      BY <2>1, <2>2, <2>3
    <2> QED BY <2>1, <2>4
  <1>16. ASSUME NEW s \in Sweeps, ReadAll(s)
        PROVE  Untouched(x)'
    BY <1>16
       DEF ReadAll, GoTo
  <1>17. ASSUME NEW s \in Sweeps, SweepMarked(s)
        PROVE  Untouched(x)'
    BY <1>17
       DEF SweepMarked, GoTo, Conclude, Release
  <1>18. ASSUME NEW s \in Sweeps, Count(s)
        PROVE  Untouched(x)'
    BY <1>18
       DEF Count, GoTo
  <1>18T. ASSUME NEW s \in Sweeps, CountTwice(s)
         PROVE  Untouched(x)'
    BY <1>18T
       DEF CountTwice, Fault, GoTo
  <1>19. ASSUME NEW s \in Sweeps, Postpone(s)
        PROVE  Untouched(x)'
    BY <1>19
       DEF Postpone, GoTo
  <1>20. ASSUME NEW s \in Sweeps, SendAgain(s)
        PROVE  Untouched(x)'
    <2>1. /\ UNCHANGED <<zset, topic, row, result, scanning, batch>>
          /\ step[s] = "send" /\ step' = [step EXCEPT ![s] = "lookup"]
          /\ \A t \in Sweeps : t # s => item'[t] = item[t]
          /\ sending' \subseteq sending \union {item[s].request}
      BY <1>20 DEF SendAgain, GoTo, Release, Published
    <2>2. PairOf[item[s].request] = item[s].key /\ item[s].key # x
      BY <2>1 DEF SweepInv, BatchInv
    <2>3. \A t \in Sweeps : Held(t, x)' => Held(t, x)
      BY <2>1
    <2> QED BY <2>1, <2>2, <2>3
  <1>21. ASSUME NEW s \in Sweeps, SweepEnds(s)
        PROVE  Untouched(x)'
    BY <1>21
       DEF SweepEnds, Closed, GoTo
  <1>22. ASSUME NEW s \in Sweeps, ScanFails(s)
        PROVE  Untouched(x)'
    BY <1>22
       DEF ScanFails, Closed, GoTo, Fault
  <1>23. ASSUME NEW s \in Sweeps, ItemFails(s)
        PROVE  Untouched(x)'
    BY <1>23
       DEF ItemFails, GoTo, Release, Fault
  <1>24. ASSUME NEW s \in Sweeps, NEW k \in Pairs, Read(s, k)
        PROVE  Untouched(x)'
    <2>1. /\ UNCHANGED <<sending, topic, row, result, step, item>>
          /\ scanning' = [scanning EXCEPT ![s] = scanning[s] \ {k}]
          /\ k \in scanning[s] /\ k # x
          /\ \A t \in Sweeps : t # s => batch'[t] = batch[t]
          /\ \A p \in batch'[s] : p \in batch[s] \/ p.key = k
          /\ zset'[x] = zset[x]
      BY <1>24 DEF Read, PendingOf
    <2>2. \A t \in Sweeps : Held(t, x)' => Held(t, x)
      BY <2>1
    <2> QED BY <2>1, <2>2
  <1>25. ASSUME NEW s \in Sweeps, NEW p \in batch[s], LookUp(s, p)
        PROVE  Untouched(x)'
    BY <1>25
       DEF LookUp, GoTo
  <1>26. ASSUME NEW s \in Sweeps, NEW p \in batch[s], LookupFails(s, p)
        PROVE  Untouched(x)'
    BY <1>26
       DEF LookupFails, Fault
  <1>27. ASSUME Consumed
        PROVE  Untouched(x)'
    <2>1. /\ UNCHANGED <<sending, topic, row, scanning, batch>>
          /\ step[Consumer] = "zrem"
          /\ \A s \in Sweeps : step'[s] = step[s] /\ item'[s] = item[s]
          /\ zset' = [zset EXCEPT ![item[Consumer].key] = "out"]
          /\ result' = [result EXCEPT ![item[Consumer].key] = "consumed"]
      BY <1>27 DEF Consumed, Conclude, Release, Settle, GoTo
    <2>2. item[Consumer].key # x
      BY <2>1 DEF OutcomeInv, Marking
    <2>3. \A s \in Sweeps : Held(s, x)' <=> Held(s, x)
      BY <2>1
    <2> QED BY <2>1, <2>2, <2>3
  <1>28. ASSUME ConsumeFails
        PROVE  Untouched(x)'
    <2>1. /\ UNCHANGED <<zset, sending, topic, row, scanning, batch>>
          /\ step[Consumer] \in Marking
          /\ \A s \in Sweeps : step'[s] = step[s] /\ item'[s] = item[s]
          /\ \A k \in Pairs : k # item[Consumer].key => result'[k] = result[k]
      BY <1>28 DEF ConsumeFails, Release, Settle, GoTo, Marking
    <2>2. item[Consumer].key # x
      BY <2>1 DEF OutcomeInv
    <2>3. \A s \in Sweeps : Held(s, x)' <=> Held(s, x)
      BY <2>1
    <2> QED BY <2>1, <2>2, <2>3
  <1>29. ASSUME Crash
        PROVE  Untouched(x)'
    BY <1>29
       DEF Crash, Fault
  <1>30. ASSUME NEW c \in Calls,
                Reserve(c) \/ ReserveTwice(c) \/ WriteFields(c) \/ SetTtl(c)
                   \/ Accepted(c) \/ AcceptFails(c)
        PROVE  Untouched(x)'
    <2>1. UNCHANGED <<zset, sending, topic, row, result, step, scanning, batch, item>>
      BY <1>30
         DEF Reserve, ReserveTwice, Answer, WriteFields, SetTtl, Accepted,
             AcceptFails, Fault
    <2> QED BY <2>1
  <1>31. ASSUME NEW k \in Pairs, Expire(k)
        PROVE  Untouched(x)'
    <2>1. UNCHANGED <<zset, sending, topic, row, result, step, scanning, batch, item>>
      BY <1>31
         DEF Expire
    <2> QED BY <2>1
  <1>32. CASE UNCHANGED vars
    BY <1>32 DEF vars
  <1> HIDE DEF TypeOK, Hashes, Items, Writers, Untouched, Held, Working,
               redis, kafka, outside, sweeps, hand, writers, local, bounds
  <1> QED BY <1>1, <1>2, <1>3, <1>4, <1>5, <1>6, <1>7, <1>8, <1>9, <1>10,
             <1>11, <1>12, <1>13, <1>14, <1>15, <1>16, <1>17, <1>18, <1>18T,
             <1>19, <1>20, <1>21, <1>22, <1>23, <1>24, <1>25, <1>26, <1>27,
             <1>28, <1>29, <1>30, <1>31, <1>32, Actions

\* A result that is being written is not written over.
LEMMA MarkedStep == TypeOK /\ OutcomeInv /\ UntouchedInv /\ MarkedInv
                    /\ [Next]_vars => MarkedInv'
  <1> SUFFICES ASSUME TypeOK, OutcomeInv, UntouchedInv, MarkedInv,
                      [Next]_vars
               PROVE  MarkedInv'
    OBVIOUS
  <1> USE PendingAssumption
          DEF TypeOK, Hashes, Items, Terminal, Writers, MarkedInv, Concluded,
              redis, kafka, outside, sweeps, hand, writers, local, bounds
  <1>1. ASSUME NEW c \in Calls, Reserve(c)
        PROVE  MarkedInv'
    <2>1. UNCHANGED <<step, item, expiries>>
      BY <1>1 DEF Reserve
    <2> QED BY <1>1, <2>1, ReserveKeeps
  <1>1T. ASSUME NEW c \in Calls, ReserveTwice(c)
         PROVE  MarkedInv'
    <2>1. UNCHANGED <<step, item, expiries>>
      BY <1>1T DEF ReserveTwice, Fault
    <2> QED BY <1>1T, <2>1, ReserveKeeps
  <1>2. ASSUME NEW c \in Calls, WriteFields(c)
        PROVE  MarkedInv'
    BY <1>2
       DEF WriteFields, Answer, OutcomeInv, Marking, UntouchedInv, Untouched,
           Held, Working, Fresh
  <1>3. ASSUME NEW c \in Calls, SetTtl(c)
        PROVE  MarkedInv'
    BY <1>3
       DEF SetTtl, Answer
  <1>4. ASSUME NEW k \in Pairs, Expire(k)
        PROVE  MarkedInv'
    BY <1>4
       DEF Expire
  <1>5. ASSUME NEW k \in Pairs, Consume(k)
        PROVE  MarkedInv'
    BY <1>5
       DEF Consume, GoTo
  <1>6. ASSUME NEW p \in Writers, MarkStatus(p)
        PROVE  MarkedInv'
    BY <1>6
       DEF MarkStatus, GoTo, OutcomeInv, Marking, Agrees
  <1>7. ASSUME NEW p \in Writers, MarkCode(p)
        PROVE  MarkedInv'
    BY <1>7
       DEF MarkCode, GoTo
  <1>8. ASSUME NEW s \in Sweeps, Tick(s)
        PROVE  MarkedInv'
    BY <1>8
       DEF Tick, GoTo
  <1>9. ASSUME NEW s \in Sweeps, Scan(s)
        PROVE  MarkedInv'
    BY <1>9
       DEF Scan, GoTo
  <1>10. ASSUME NEW s \in Sweeps, ReadAll(s)
        PROVE  MarkedInv'
    BY <1>10
       DEF ReadAll, GoTo
  <1>11. ASSUME NEW s \in Sweeps, SweepMarked(s)
        PROVE  MarkedInv'
    BY <1>11
       DEF SweepMarked, GoTo, Conclude, Release
  <1>12. ASSUME NEW s \in Sweeps, Count(s)
        PROVE  MarkedInv'
    BY <1>12
       DEF Count, GoTo
  <1>12T. ASSUME NEW s \in Sweeps, CountTwice(s)
         PROVE  MarkedInv'
    BY <1>12T
       DEF CountTwice, Fault, GoTo
  <1>13. ASSUME NEW s \in Sweeps, Postpone(s)
        PROVE  MarkedInv'
    BY <1>13
       DEF Postpone, GoTo
  <1>14. ASSUME NEW s \in Sweeps, SendAgain(s)
        PROVE  MarkedInv'
    BY <1>14
       DEF SendAgain, GoTo, Release, Published
  <1>15. ASSUME NEW s \in Sweeps, SweepEnds(s)
        PROVE  MarkedInv'
    BY <1>15
       DEF SweepEnds, Closed, GoTo
  <1>16. ASSUME NEW s \in Sweeps, ScanFails(s)
        PROVE  MarkedInv'
    BY <1>16
       DEF ScanFails, Closed, GoTo, Fault
  <1>17. ASSUME NEW s \in Sweeps, ItemFails(s)
        PROVE  MarkedInv'
    BY <1>17
       DEF ItemFails, GoTo, Release, Fault
  <1>18. ASSUME NEW s \in Sweeps, NEW p \in batch[s], LookUp(s, p)
        PROVE  MarkedInv'
    <2>1. /\ UNCHANGED <<hash, expiries>>
          /\ step' = [step EXCEPT ![s] = NextStep(p)]
          /\ item' = [item EXCEPT ![s] = p]
      BY <1>18 DEF LookUp, GoTo
    <2>2. NextStep(p) \in {"status", "count"}
      BY DEF NextStep
    <2> QED BY <2>1, <2>2
  <1>19. ASSUME Consumed
        PROVE  MarkedInv'
    BY <1>19
       DEF Consumed, GoTo, Conclude, Release, Settle
  <1>20. ASSUME ConsumeFails
        PROVE  MarkedInv'
    BY <1>20
       DEF ConsumeFails, GoTo, Release, Settle, Fault
  <1>21. ASSUME Crash
        PROVE  MarkedInv'
    BY <1>21
       DEF Crash, Fault
  <1>22. ASSUME NEW c \in Calls,
                Enqueue(c) \/ Publish(c) \/ Accepted(c) \/ AcceptFails(c)
        PROVE  MarkedInv'
    <2>1. UNCHANGED <<hash, step, item, expiries>>
      BY <1>22
         DEF Enqueue, Answer, Publish, Published, Accepted, AcceptFails,
             Fault
    <2> QED BY <2>1
  <1>23. ASSUME NEW r \in Calls,
                SendArrives(r) \/ SendLost(r) \/ Serve(r) \/ ServeAgain(r)
                   \/ ServeGivesUp(r)
        PROVE  MarkedInv'
    <2>1. UNCHANGED <<hash, step, item, expiries>>
      BY <1>23
         DEF SendArrives, SendLost, Serve, ServeAgain, ServeGivesUp
    <2> QED BY <2>1
  <1>24. ASSUME NEW k \in Pairs, Redeliver(k) \/ Redeem(k) \/ Age(k)
        PROVE  MarkedInv'
    <2>1. UNCHANGED <<hash, step, item, expiries>>
      BY <1>24
         DEF Redeliver, Fault, Redeem, Age
    <2> QED BY <2>1
  <1>25. ASSUME NEW s \in Sweeps, NEW k \in Pairs, Read(s, k)
        PROVE  MarkedInv'
    <2>1. UNCHANGED <<hash, step, item, expiries>>
      BY <1>25
         DEF Read
    <2> QED BY <2>1
  <1>26. ASSUME NEW s \in Sweeps, NEW p \in batch[s], LookupFails(s, p)
        PROVE  MarkedInv'
    <2>1. UNCHANGED <<hash, step, item, expiries>>
      BY <1>26
         DEF LookupFails, Fault
    <2> QED BY <2>1
  <1>27. CASE UNCHANGED vars
    BY <1>27 DEF vars
  <1> HIDE DEF TypeOK, Hashes, Items, Terminal, Writers, MarkedInv,
               Concluded, redis, kafka, outside, sweeps, hand, writers,
               local, bounds
  <1> QED BY <1>1, <1>1T, <1>2, <1>3, <1>4, <1>5, <1>6, <1>7, <1>8, <1>9,
             <1>10, <1>11, <1>12, <1>12T, <1>13, <1>14, <1>15, <1>16, <1>17,
             <1>18, <1>19, <1>20, <1>21, <1>22, <1>23, <1>24, <1>25, <1>26,
             <1>27, Actions

\* What is promised is on the work list or concluded.
LEMMA PromiseStep == TypeOK /\ HolderInv /\ OutcomeInv /\ MarkedInv
                     /\ PromiseInv /\ [Next]_vars => PromiseInv'
  <1> SUFFICES ASSUME TypeOK, HolderInv, OutcomeInv, MarkedInv, PromiseInv,
                      [Next]_vars
               PROVE  PromiseInv'
    OBVIOUS
  <1> USE PendingAssumption
          DEF TypeOK, Hashes, Items, NoHash, Terminal, Writers, PromiseInv,
              Concluded, redis, kafka, outside, sweeps, hand, writers, local,
              bounds
  <1>1. ASSUME NEW c \in Calls, Reserve(c)
        PROVE  PromiseInv'
    <2>1. /\ UNCHANGED <<zset, expiries>>
          /\ \A d \in Calls : call'[d] \in {"publish", "await", "ACCEPTED"} => call'[d] = call[d]
      BY <1>1 DEF Reserve, Answer
    <2> QED BY <1>1, <2>1, ReserveKeeps
  <1>1T. ASSUME NEW c \in Calls, ReserveTwice(c)
         PROVE  PromiseInv'
    <2>1. /\ UNCHANGED <<zset, expiries>>
          /\ \A d \in Calls : call'[d] \in {"publish", "await", "ACCEPTED"} => call'[d] = call[d]
      BY <1>1T DEF ReserveTwice, Fault, Answer
    <2> QED BY <1>1T, <2>1, ReserveKeeps
  <1>2. ASSUME NEW c \in Calls, WriteFields(c)
        PROVE  PromiseInv'
    BY <1>2
       DEF WriteFields, Answer, HolderInv, Holder, Holding
  <1>3. ASSUME NEW c \in Calls, SetTtl(c)
        PROVE  PromiseInv'
    BY <1>3
       DEF SetTtl, Answer
  <1>4. ASSUME NEW c \in Calls, Enqueue(c)
        PROVE  PromiseInv'
    BY <1>4
       DEF Enqueue, Answer
  <1>5. ASSUME NEW c \in Calls, Publish(c)
        PROVE  PromiseInv'
    BY <1>5
       DEF Publish, Answer, Published
  <1>6. ASSUME NEW c \in Calls, Accepted(c)
        PROVE  PromiseInv'
    BY <1>6
       DEF Accepted, Answer
  <1>7. ASSUME NEW c \in Calls, AcceptFails(c)
        PROVE  PromiseInv'
    BY <1>7
       DEF AcceptFails, Answer, Fault
  <1>8. ASSUME NEW k \in Pairs, Age(k)
        PROVE  PromiseInv'
    BY <1>8
       DEF Age
  <1>9. ASSUME NEW k \in Pairs, Expire(k)
        PROVE  PromiseInv'
    BY <1>9
       DEF Expire
  <1>10. ASSUME NEW p \in Writers, MarkStatus(p)
        PROVE  PromiseInv'
    BY <1>10
       DEF MarkStatus, GoTo, OutcomeInv, Marking, Agrees
  <1>11. ASSUME NEW p \in Writers, MarkCode(p)
        PROVE  PromiseInv'
    BY <1>11
       DEF MarkCode, GoTo
  <1>12. ASSUME NEW s \in Sweeps, SweepMarked(s)
        PROVE  PromiseInv'
    BY <1>12
       DEF SweepMarked, GoTo, Conclude, Release, MarkedInv
  <1>13. ASSUME NEW s \in Sweeps, Count(s)
        PROVE  PromiseInv'
    BY <1>13
       DEF Count, GoTo
  <1>13T. ASSUME NEW s \in Sweeps, CountTwice(s)
         PROVE  PromiseInv'
    BY <1>13T
       DEF CountTwice, Fault, GoTo
  <1>14. ASSUME NEW s \in Sweeps, Postpone(s)
        PROVE  PromiseInv'
    BY <1>14
       DEF Postpone, GoTo
  <1>15. ASSUME NEW s \in Sweeps, NEW k \in Pairs, Read(s, k)
        PROVE  PromiseInv'
    BY <1>15
       DEF Read, HolderInv, Holder, Holding
  <1>16. ASSUME Consumed
        PROVE  PromiseInv'
    BY <1>16
       DEF Consumed, GoTo, Conclude, Release, Settle, MarkedInv
  <1>17. ASSUME Crash
        PROVE  PromiseInv'
    BY <1>17
       DEF Crash, Fault
  <1>18. ASSUME NEW r \in Calls,
                SendArrives(r) \/ SendLost(r) \/ Serve(r) \/ ServeAgain(r)
                   \/ ServeGivesUp(r)
        PROVE  PromiseInv'
    <2>1. UNCHANGED <<hash, zset, call, expiries>>
      BY <1>18
         DEF SendArrives, SendLost, Serve, ServeAgain, ServeGivesUp
    <2> QED BY <2>1
  <1>19. ASSUME NEW k \in Pairs, Redeliver(k) \/ Redeem(k) \/ Consume(k)
        PROVE  PromiseInv'
    <2>1. UNCHANGED <<hash, zset, call, expiries>>
      BY <1>19
         DEF Redeliver, Fault, Redeem, Consume, GoTo
    <2> QED BY <2>1
  <1>20. ASSUME NEW s \in Sweeps,
                Tick(s) \/ Scan(s) \/ ReadAll(s) \/ SendAgain(s)
                   \/ SweepEnds(s) \/ ScanFails(s) \/ ItemFails(s)
        PROVE  PromiseInv'
    <2>1. UNCHANGED <<hash, zset, call, expiries>>
      BY <1>20
         DEF Tick, GoTo, Scan, ReadAll, SendAgain, Release, Published,
             SweepEnds, Closed, ScanFails, Fault, ItemFails
    <2> QED BY <2>1
  <1>21. ASSUME NEW s \in Sweeps, NEW p \in batch[s],
                LookUp(s, p) \/ LookupFails(s, p)
        PROVE  PromiseInv'
    <2>1. UNCHANGED <<hash, zset, call, expiries>>
      BY <1>21
         DEF LookUp, GoTo, LookupFails, Fault
    <2> QED BY <2>1
  <1>22. ASSUME ConsumeFails
        PROVE  PromiseInv'
    <2>1. UNCHANGED <<hash, zset, call, expiries>>
      BY <1>22
         DEF ConsumeFails, GoTo, Release, Settle, Fault
    <2> QED BY <2>1
  <1>23. CASE UNCHANGED vars
    BY <1>23 DEF vars
  <1> HIDE DEF TypeOK, Hashes, Items, NoHash, Terminal, Writers, PromiseInv,
               Concluded, redis, kafka, outside, sweeps, hand, writers,
               local, bounds
  <1> QED BY <1>1, <1>1T, <1>2, <1>3, <1>4, <1>5, <1>6, <1>7, <1>8, <1>9,
             <1>10, <1>11, <1>12, <1>13, <1>13T, <1>14, <1>15, <1>16, <1>17,
             <1>18, <1>19, <1>20, <1>21, <1>22, <1>23, Actions
-----------------------------------------------------------------------------
(* The invariant.                                                          *)
LEMMA InvInit == Init => IInv
  <1> SUFFICES ASSUME Init
               PROVE  IInv
    OBVIOUS
  <1> USE PendingAssumption, Nothing DEF Init
  <1>1. TypeOK
    <2>1. hash \in [Pairs -> Hashes] /\ zset \in [Pairs -> {"out", "fresh", "stale"}]
      OBVIOUS
    <2>2. item \in [Writers -> Items] /\ outcome \in [Writers -> Outcomes]
      OBVIOUS
    <2>3. /\ tries \in 1 .. MaxDeliveryAttempts
          /\ faults \in 0 .. MaxFaults /\ expiries \in 0 .. MaxExpiries
      OBVIOUS
    <2> QED BY <2>1, <2>2, <2>3 DEF TypeOK
  <1>2. \A c \in Calls : ~ Holder(c)
    BY DEF Holder, Holding
  <1>3. \A s \in Sweeps, k \in Pairs : ~ Held(s, k)
    BY DEF Held, Working, Writers
  <1>4. HoldersBounded
    <2>1. \A k \in Pairs : Holders(k) = {}
      BY <1>2 DEF Holders
    <2>2. expiries = 0 /\ \A k \in Pairs : ~ hash[k].user
      BY DEF NoHash
    <2>3. Cardinality({}) = 0
      BY FS_EmptySet
    <2> SUFFICES ASSUME NEW k \in Pairs
                 PROVE  Cardinality(Holders(k)) <= expiries + (IF hash[k].user THEN 1 ELSE 0)
      BY DEF HoldersBounded
    <2>4. Cardinality(Holders(k)) = 0
      BY <2>1, <2>3
    <2>5. expiries + (IF hash[k].user THEN 1 ELSE 0) = 0
      BY <2>2
    <2> QED BY <2>4, <2>5
  <1>5. HolderInv
    BY <1>2 DEF HolderInv
  <1>6. SweepInv
    BY DEF SweepInv, BatchInv, Working, Writers, NoHash
  <1>7. RepublishCapped
    BY DEF RepublishCapped, NoHash
  <1>8. OutcomeInv /\ CarryInv /\ GiveUpInv /\ MarkedInv
    BY DEF OutcomeInv, CarryInv, GiveUpInv, MarkedInv, Marking, Writers
  <1>9. ResultTruthful /\ SuccessCarriesCode
    BY DEF ResultTruthful, SuccessCarriesCode, NoHash
  <1>10. HeldInv
    BY <1>3 DEF HeldInv
  <1>11. UntouchedInv
    BY <1>3 DEF UntouchedInv, Untouched
  <1>12. PromiseInv
    BY DEF PromiseInv
  <1> QED BY <1>1, <1>4, <1>5, <1>6, <1>7, <1>8, <1>9, <1>10, <1>11, <1>12 DEF IInv

LEMMA InvStep == IInv /\ [Next]_vars => IInv'
  <1> SUFFICES ASSUME IInv, [Next]_vars
               PROVE  IInv'
    OBVIOUS
  <1>1. UntouchedInv'
    <2> SUFFICES ASSUME expiries' = 0, NEW k \in Pairs, Fresh(k)'
                 PROVE  Untouched(k)'
      BY DEF UntouchedInv
    <2>1. expiries = 0 /\ Fresh(k)
      BY FreshBefore DEF IInv
    <2> QED BY <2>1, UntouchedStep DEF IInv, UntouchedInv
  <1>2. TypeOK' /\ SweepInv' /\ RepublishCapped'
    BY TypeStep, SweepInvStep, CappedStep DEF IInv
  <1>3. HoldersBounded' /\ HolderInv' /\ MarkedInv' /\ PromiseInv'
    BY HoldersStep, HolderStep, MarkedStep, PromiseStep DEF IInv
  <1>4. OutcomeInv' /\ ResultTruthful'
    BY OutcomeStep, TruthStep DEF IInv
  <1>5. CarryInv' /\ GiveUpInv' /\ HeldInv' /\ SuccessCarriesCode'
    BY CarryStep, GiveUpStep, HeldStep, CodeStep DEF IInv
  <1> QED BY <1>1, <1>2, <1>3, <1>4, <1>5 DEF IInv

\* The inductive invariant holds in every reachable state.
THEOREM PendingInvariant == Spec => []IInv
  BY InvInit, InvStep, PTL DEF Spec
-----------------------------------------------------------------------------
(* What it is good for.                                                    *)

\* Type correctness.
THEOREM TypeCorrect == Spec => []TypeOK
  <1>1. IInv => TypeOK
    BY DEF IInv
  <1> QED BY PendingInvariant, <1>1, PTL

\* Redis never shows a result that server-c has not committed.
THEOREM Truthful == Spec => []ResultTruthful
  <1>1. IInv => ResultTruthful
    BY DEF IInv
  <1> QED BY PendingInvariant, <1>1, PTL

\* A SUCCESS the scheduler is done with has its code, or will be sent it.
THEOREM CodeCarried == Spec => []SuccessCarriesCode
  <1>1. IInv => SuccessCarriesCode
    BY DEF IInv
  <1> QED BY PendingInvariant, <1>1, PTL

\* A request is published MaxPublishAttempts times at most; resent commands, however
\* many, count one publication too many.
THEOREM Capped == Spec => []RepublishCapped
  <1>1. IInv => RepublishCapped
    BY DEF IInv
  <1> QED BY PendingInvariant, <1>1, PTL

\* ACCEPTED commits server-b to a conclusion.
THEOREM Tracked == Spec => []AcceptedIsTracked
  <1>1. IInv => AcceptedIsTracked
    BY DEF IInv, PromiseInv, AcceptedIsTracked
  <1> QED BY PendingInvariant, <1>1, PTL

\* One call is accepted in the life of a reservation.
THEOREM OneAccepted == Spec => []AcceptedOnce
  <1>1. ASSUME IInv, NEW k \in Pairs
        PROVE  Cardinality({c \in Calls : PairOf[c] = k /\ call[c] = "ACCEPTED"})
                  <= 1 + expiries
    <2> DEFINE A == {c \in Calls : PairOf[c] = k /\ call[c] = "ACCEPTED"}
    <2>1. A \subseteq Holders(k) /\ IsFiniteSet(Holders(k))
      BY PendingAssumption, FS_Subset DEF Holders, Holder
    <2>2. Cardinality(A) <= Cardinality(Holders(k)) /\ Cardinality(A) \in Nat
          /\ Cardinality(Holders(k)) \in Nat
      BY <2>1, FS_Subset, FS_CardinalityType
    <2>3. Cardinality(Holders(k)) <= expiries + 1 /\ expiries \in Nat
      BY <1>1, <2>2, PendingAssumption DEF IInv, HoldersBounded, TypeOK
    <2> HIDE DEF A
    <2>4. Cardinality(A) <= 1 + expiries
      BY <2>2, <2>3
    <2> QED BY <2>4 DEF A
  <1>2. IInv => AcceptedOnce
    BY <1>1 DEF AcceptedOnce
  <1> QED BY PendingInvariant, <1>2, PTL
-----------------------------------------------------------------------------
(* The refinement.                                                         *)

\* What Reservation sees of a state.
Taken    == {k \in Pairs : hash[k].user}
OnList   == {k \in Pairs : zset[k] # "out"}
Shown    == [k \in Pairs |-> hash[k].status]
Answers  == [c \in Calls |-> AnswerOf(c)]
Forgotten == expiries > 0

SameHash == \A k \in Pairs : /\ hash'[k].user <=> hash[k].user
                             /\ hash'[k].status = hash[k].status

LEMMA Seen ==
    /\ SameHash => Taken' = Taken /\ Shown' = Shown
    /\ zset' = zset => OnList' = OnList
    /\ call' = call => Answers' = Answers
    /\ expiries' = expiries => (Forgotten' <=> Forgotten)
  <1>1. SameHash => Taken' = Taken /\ Shown' = Shown
    BY DEF SameHash, Taken, Shown
  <1>2. zset' = zset => OnList' = OnList
    BY DEF OnList
  <1>3. call' = call => Answers' = Answers
    BY DEF Answers, AnswerOf, Holding
  <1>4. expiries' = expiries => (Forgotten' <=> Forgotten)
    BY DEF Forgotten
  <1> QED BY <1>1, <1>2, <1>3, <1>4

\* Steps that Reservation does not see.
LEMMA Unseen ==
    ASSUME SameHash, row' = row, expiries' = expiries, OnList' = OnList, Answers' = Answers
    PROVE  UNCHANGED R!vars
  BY Seen DEF R!vars, Taken, OnList, Shown, Answers, Forgotten

\* A call gets its answer, or goes on without.
LEMMA Answered ==
    ASSUME TypeOK, NEW c \in Calls, NEW a, call' = [call EXCEPT ![c] = a]
    PROVE  /\ a \in {"DUPLICATE", "ACCEPTED", "ERROR"} => Answers' = [Answers EXCEPT ![c] = a]
           /\ a \in {"expire", "zadd", "publish", "await"} /\ Holding(c) => Answers' = Answers
           /\ a = "hset" => Answers' = [Answers EXCEPT ![c] = "holding"]
  BY DEF TypeOK, Answers, AnswerOf, Holding

\* accept() is a call of Reservation.
LEMMA AcceptRefines ==
    ASSUME IInv, NEW c \in Calls, AcceptStep(c) \/ AcceptFails(c) \/ ReserveTwice(c)
    PROVE  [R!Next]_R!vars
  <1> USE PendingAssumption DEF IInv, redis, kafka, outside, sweeps, hand, writers, local, bounds
  <1>1. TypeOK /\ PairOf[c] \in Pairs
    OBVIOUS
  <1>2. CASE Reserve(c)
    <2>1. UNCHANGED <<zset, row, expiries>> /\ call[c] = "idle"
      BY <1>2 DEF Reserve
    <2>2. CASE hash[PairOf[c]].user
      <3>1. hash' = hash /\ call' = [call EXCEPT ![c] = "DUPLICATE"]
        BY <1>2, <2>2 DEF Reserve, Answer
      <3>2. Answers' = [Answers EXCEPT ![c] = "DUPLICATE"]
        BY <1>1, <3>1, Answered
      <3>3. PairOf[c] \in Taken /\ Answers[c] = "idle"
        BY <1>1, <2>1, <2>2 DEF Taken, Answers, AnswerOf, Holding
      <3>4. Taken' = Taken /\ Shown' = Shown /\ OnList' = OnList /\ (Forgotten' <=> Forgotten)
        BY <2>1, <3>1, Seen DEF SameHash
      <3>5. R!Refuse(c)
        BY <2>1, <3>2, <3>3, <3>4 DEF R!Refuse, Taken, OnList, Shown, Answers, Forgotten
      <3> QED BY <3>5 DEF R!Next
    <2>3. CASE ~ hash[PairOf[c]].user
      <3>1. hash' = [hash EXCEPT ![PairOf[c]].user = TRUE]
            /\ call' = [call EXCEPT ![c] = "hset"]
        BY <1>2, <2>3 DEF Reserve, Answer
      <3>2. Answers' = [Answers EXCEPT ![c] = "holding"]
        BY <1>1, <3>1, Answered
      <3>3. PairOf[c] \notin Taken /\ Answers[c] = "idle"
        BY <1>1, <2>1, <2>3 DEF Taken, Answers, AnswerOf, Holding
      <3>4. Taken' = Taken \union {PairOf[c]}
        BY <1>1, <3>1 DEF Taken, TypeOK, Hashes
      <3>5. Shown' = Shown
        BY <1>1, <1>2, ReserveKeeps DEF Shown
      <3>6. OnList' = OnList /\ (Forgotten' <=> Forgotten)
        BY <2>1, Seen
      <3>7. R!Reserve(c)
        BY <2>1, <3>2, <3>3, <3>4, <3>5, <3>6
           DEF R!Reserve, Taken, OnList, Shown, Answers, Forgotten
      <3> QED BY <3>7 DEF R!Next
    <2> QED BY <2>2, <2>3
  <1>3. CASE WriteFields(c)
    <2>1. /\ UNCHANGED <<zset, row, expiries>>
          /\ call[c] = "hset" /\ call' = [call EXCEPT ![c] = "expire"]
      BY <1>3 DEF WriteFields, Answer
    <2>2. Answers' = Answers /\ Answers[c] = "holding"
      BY <1>1, <2>1, Answered DEF Answers, AnswerOf, Holding
    <2>3. \A k \in Pairs : /\ hash'[k].user <=> hash[k].user
                           /\ hash'[k].status =
                               IF k = PairOf[c] THEN "PENDING" ELSE hash[k].status
      BY <1>1, <1>3 DEF WriteFields, TypeOK, Hashes
    <2>4. Taken' = Taken
      BY <2>3 DEF Taken
    <2>5. Shown' = [Shown EXCEPT ![PairOf[c]] = "PENDING"]
      BY <1>1, <2>3 DEF Shown
    <2>6. OnList' = OnList /\ (Forgotten' <=> Forgotten)
      BY <2>1, Seen
    <2>7. R!Open(c)
      BY <2>1, <2>2, <2>4, <2>5, <2>6 DEF R!Open, Taken, OnList, Shown, Answers, Forgotten
    <2> QED BY <2>7 DEF R!Next
  <1>4. CASE SetTtl(c)
    <2>1. /\ UNCHANGED <<zset, row, expiries>>
          /\ call[c] = "expire" /\ call' = [call EXCEPT ![c] = "zadd"]
      BY <1>4 DEF SetTtl, Answer
    <2>2. SameHash
      BY <1>1, <1>4 DEF SetTtl, SameHash, TypeOK, Hashes
    <2>3. Answers' = Answers
      BY <1>1, <2>1, Answered DEF Holding
    <2> QED BY <2>1, <2>2, <2>3, Seen, Unseen
  <1>5. CASE Enqueue(c)
    <2>1. /\ UNCHANGED <<hash, row, expiries>> /\ zset' = [zset EXCEPT ![PairOf[c]] = "fresh"]
          /\ call[c] = "zadd" /\ call' = [call EXCEPT ![c] = "publish"]
      BY <1>5 DEF Enqueue, Answer
    <2>2. Answers' = Answers
      BY <1>1, <2>1, Answered DEF Holding
    <2>3. OnList' = OnList \union {PairOf[c]}
      BY <1>1, <2>1 DEF OnList, TypeOK
    <2>4. Taken' = Taken /\ Shown' = Shown /\ (Forgotten' <=> Forgotten)
      BY <2>1, Seen DEF SameHash
    <2>5. R!Track(PairOf[c])
      BY <2>1, <2>2, <2>3, <2>4 DEF R!Track, Taken, OnList, Shown, Answers, Forgotten
    <2> QED BY <1>1, <2>5 DEF R!Next
  <1>6. CASE Publish(c)
    <2>1. /\ UNCHANGED <<hash, zset, row, expiries>>
          /\ call[c] = "publish" /\ call' = [call EXCEPT ![c] = "await"]
      BY <1>6 DEF Publish, Answer
    <2>2. Answers' = Answers
      BY <1>1, <2>1, Answered DEF Holding
    <2> QED BY <2>1, <2>2, Seen, Unseen DEF SameHash
  <1>7. CASE Accepted(c)
    <2>1. /\ UNCHANGED <<hash, zset, row, expiries>>
          /\ call[c] = "await" /\ call' = [call EXCEPT ![c] = "ACCEPTED"]
      BY <1>7 DEF Accepted, Answer
    <2>2. Answers' = [Answers EXCEPT ![c] = "ACCEPTED"] /\ Answers[c] = "holding"
      BY <1>1, <2>1, Answered DEF Answers, AnswerOf, Holding
    <2>3. PairOf[c] \in OnList \/ Shown[PairOf[c]] \in R!Final \/ Forgotten
      <3>1. expiries \in Nat
        BY <1>1 DEF TypeOK
      <3>2. expiries = 0 => Concluded(PairOf[c]) \/ zset[PairOf[c]] # "out"
        BY <2>1 DEF PromiseInv
      <3> QED BY <1>1, <3>1, <3>2 DEF OnList, Shown, R!Final, Forgotten, Concluded, Terminal
    <2>4. Taken' = Taken /\ Shown' = Shown /\ OnList' = OnList /\ (Forgotten' <=> Forgotten)
      BY <2>1, Seen DEF SameHash
    <2>5. R!Confirm(c)
      BY <2>1, <2>2, <2>3, <2>4 DEF R!Confirm, Taken, OnList, Shown, Answers, Forgotten
    <2> QED BY <2>5 DEF R!Next
  <1>9. CASE ReserveTwice(c)
    <2>1. /\ UNCHANGED <<zset, row, expiries>> /\ call[c] = "idle" /\ ~ hash[PairOf[c]].user
          /\ hash' = [hash EXCEPT ![PairOf[c]].user = TRUE]
          /\ call' = [call EXCEPT ![c] = "DUPLICATE"]
      BY <1>9 DEF ReserveTwice, Answer
    <2>2. Answers' = [Answers EXCEPT ![c] = "DUPLICATE"]
      BY <1>1, <2>1, Answered
    <2>3. PairOf[c] \notin Taken /\ Answers[c] = "idle"
      BY <1>1, <2>1 DEF Taken, Answers, AnswerOf, Holding
    <2>4. Taken' = Taken \union {PairOf[c]}
      BY <1>1, <2>1 DEF Taken, TypeOK, Hashes
    <2>5. Shown' = Shown
      BY <1>1, <1>9, ReserveKeeps DEF Shown
    <2>6. OnList' = OnList /\ (Forgotten' <=> Forgotten)
      BY <2>1, Seen
    <2>7. R!ReserveUnheard(c)
      BY <2>1, <2>2, <2>3, <2>4, <2>5, <2>6
         DEF R!ReserveUnheard, Taken, OnList, Shown, Answers, Forgotten
    <2> QED BY <2>7 DEF R!Next
  <1>8. CASE AcceptFails(c)
    <2>1. /\ UNCHANGED <<hash, zset, row, expiries>>
          /\ call[c] \in {"idle", "hset", "expire", "zadd", "publish"}
          /\ call' = [call EXCEPT ![c] = "ERROR"]
      BY <1>8 DEF AcceptFails, Answer
    <2>2. Answers' = [Answers EXCEPT ![c] = "ERROR"] /\ Answers[c] \in {"idle", "holding"}
      BY <1>1, <2>1, Answered DEF Answers, AnswerOf, Holding
    <2>3. Answers' = [d \in Calls |-> IF d \in {c} THEN "ERROR" ELSE Answers[d]]
      BY <2>2 DEF Answers
    <2>4. Taken' = Taken /\ Shown' = Shown /\ OnList' = OnList /\ (Forgotten' <=> Forgotten)
      BY <2>1, Seen DEF SameHash
    <2>5. R!Fail({c})
      BY <2>1, <2>2, <2>3, <2>4 DEF R!Fail, Taken, OnList, Shown, Answers, Forgotten
    <2> QED BY <2>5 DEF R!Next
  <1> QED BY <1>2, <1>3, <1>4, <1>5, <1>6, <1>7, <1>8, <1>9 DEF AcceptStep

\* What server-b does to a pair is a step of Reservation.
LEMMA PairSteps ==
    ASSUME NEW k \in Pairs
    PROVE  /\ R!Track(k) => R!Next
           /\ R!Untrack(k) => R!Next
           /\ \A s \in R!Final : R!Show(k, s) => R!Next
  BY DEF R!Next

\* A result is shown as server-c has it; a member is taken out behind it.
LEMMA MarkRefines ==
    ASSUME IInv, NEW p \in Writers, UNCHANGED <<row, call, expiries>>,
           MarkStatus(p) \/ MarkCode(p) \/ Conclude(p)
    PROVE  [R!Next]_R!vars
  <1> USE PendingAssumption DEF IInv
  <1>1. TypeOK /\ item[p].key \in Pairs
    BY MarkWrites
  <1>a. PICK k \in Pairs : k = item[p].key
    BY <1>1
  <1>2. Answers' = Answers /\ (Forgotten' <=> Forgotten)
    BY Seen
  <1>3. CASE MarkStatus(p)
    <2>1. zset' = zset /\ step[p] = "status"
      BY <1>3 DEF MarkStatus
    <2>2. Agrees(outcome[p], row[k])
      BY <1>a, <2>1 DEF OutcomeInv, Marking
    <2>3. Shown' = [Shown EXCEPT ![k] = outcome[p].status] /\ Taken' = Taken
      <3>1. \A j \in Pairs :
               /\ hash'[j].status = IF j = k THEN outcome[p].status ELSE hash[j].status
               /\ hash'[j].user = hash[j].user
        BY <1>1, <1>a, <1>3, MarkWrites
      <3>2. Taken' = Taken
        BY <3>1 DEF Taken
      <3>3. Shown' = [Shown EXCEPT ![k] = outcome[p].status]
        BY <1>1, <1>a, <3>1 DEF Shown
      <3> QED BY <3>2, <3>3
    <2>4. OnList' = OnList
      BY <2>1, Seen
    <2>5. PICK o \in R!Final : o = outcome[p].status
      BY <2>2 DEF Agrees, Terminal, R!Final
    <2>6. R!Show(k, o)
      BY <1>2, <1>a, <2>2, <2>3, <2>4, <2>5
         DEF R!Show, R!Final, Agrees, Issued, Terminal, Taken, OnList, Shown, Answers, Forgotten
    <2> QED BY <1>1, <1>a, <2>5, <2>6, PairSteps
  <1>4. CASE MarkCode(p)
    <2>1. SameHash /\ zset' = zset
      BY <1>1, <1>a, <1>4, MarkWrites DEF SameHash, MarkCode
    <2> QED BY <1>2, <2>1, Seen, Unseen
  <1>5. CASE Conclude(p)
    <2>1. step[p] = "zrem" /\ SameHash
      BY <1>1, <1>a, <1>5, MarkWrites DEF SameHash, Conclude
    <2>2. OnList' = OnList \ {k}
      BY <1>1, <1>a, <1>5, MarkWrites DEF OnList
    <2>3. Shown[k] \in R!Final \/ Forgotten
      <3>1. expiries \in Nat
        BY <1>1 DEF TypeOK
      <3>2. expiries = 0 => Concluded(k)
        BY <1>a, <2>1 DEF MarkedInv
      <3> QED BY <1>1, <1>a, <3>1, <3>2 DEF Shown, R!Final, Forgotten, Concluded, Terminal
    <2>4. Taken' = Taken /\ Shown' = Shown
      BY <2>1, Seen
    <2>5. R!Untrack(k)
      BY <1>2, <2>2, <2>3, <2>4 DEF R!Untrack, Taken, OnList, Shown, Answers, Forgotten
    <2> QED BY <1>1, <1>a, <2>5, PairSteps
  <1> QED BY <1>3, <1>4, <1>5

\* A republication puts the member back; a member without a hash is an orphan.
LEMMA SweepRefines ==
    ASSUME IInv, NEW s \in Sweeps, UNCHANGED <<row, call, expiries>>,
           Count(s) \/ CountTwice(s) \/ Postpone(s) \/ \E k \in Pairs : Read(s, k)
    PROVE  [R!Next]_R!vars
  <1> USE PendingAssumption DEF IInv
  <1>1. TypeOK /\ s \in Writers /\ item[s].key \in Pairs
    BY MarkWrites DEF Writers
  <1>a. PICK k \in Pairs : k = item[s].key
    BY <1>1
  <1>2. Answers' = Answers /\ (Forgotten' <=> Forgotten)
    BY Seen
  <1>3. CASE Count(s) \/ CountTwice(s)
    <2>1. SameHash /\ zset' = zset
      <3>1. CASE Count(s)
        BY <1>1, <3>1 DEF Count, SameHash, TypeOK, Hashes
      <3>2. CASE CountTwice(s)
        BY <1>1, <3>2 DEF CountTwice, SameHash, TypeOK, Hashes
      <3> QED BY <1>3, <3>1, <3>2
    <2> QED BY <1>2, <2>1, Seen, Unseen
  <1>4. CASE Postpone(s)
    <2>1. hash' = hash /\ zset' = [zset EXCEPT ![k] = "fresh"]
      BY <1>4, <1>a DEF Postpone
    <2>2. OnList' = OnList \union {k}
      BY <1>1, <1>a, <2>1 DEF OnList, TypeOK
    <2>3. Taken' = Taken /\ Shown' = Shown
      BY <2>1, Seen DEF SameHash
    <2>4. R!Track(k)
      BY <1>2, <2>2, <2>3 DEF R!Track, Taken, OnList, Shown, Answers, Forgotten
    <2> QED BY <1>1, <1>a, <2>4, PairSteps
  <1>5. ASSUME NEW j \in Pairs, Read(s, j)
        PROVE  [R!Next]_R!vars
    <2>1. hash' = hash /\ zset' = [zset EXCEPT ![j] = IF hash[j] = NoHash THEN "out" ELSE @]
      BY <1>5 DEF Read
    <2>2. Taken' = Taken /\ Shown' = Shown /\ SameHash
      BY <2>1, Seen DEF SameHash
    <2>3. CASE hash[j] # NoHash \/ zset[j] = "out"
      <3>1. zset' = zset
        BY <1>1, <2>1, <2>3 DEF TypeOK
      <3> QED BY <1>2, <2>2, <3>1, Seen, Unseen
    <2>4. CASE hash[j] = NoHash /\ zset[j] # "out"
      <3>1. ~ hash[j].user
        BY <2>4 DEF NoHash
      <3>2. expiries # 0
        BY <2>4, <3>1 DEF UntouchedInv, Untouched, Fresh
      <3>3. Forgotten
        BY <1>1, <3>2 DEF Forgotten, TypeOK
      <3>4. OnList' = OnList \ {j}
        BY <1>1, <2>1, <2>4 DEF OnList, TypeOK
      <3>5. R!Untrack(j)
        BY <1>2, <2>2, <3>3, <3>4 DEF R!Untrack, Taken, OnList, Shown, Answers, Forgotten
      <3> QED BY <3>5 DEF R!Next
    <2> QED BY <2>3, <2>4
  <1> QED BY <1>3, <1>4, <1>5

\* server-c decides, and the clock and the TTL go on.
LEMMA WorldRefines ==
    ASSUME IInv, NEW k \in Pairs,
           (\E r \in Calls : Serve(r)) \/ Redeem(k) \/ Age(k) \/ Expire(k)
    PROVE  [R!Next]_R!vars
  <1> USE PendingAssumption
          DEF IInv, redis, kafka, outside, sweeps, hand, writers, local, bounds
  <1>1. TypeOK
    OBVIOUS
  <1>2. ASSUME NEW j \in Pairs, NEW s \in Terminal \union {"USED"},
               UNCHANGED <<hash, zset, call, expiries>>, row' = [row EXCEPT ![j] = s],
               (row[j] = "none" /\ s \in Terminal) \/ (row[j] = "SUCCESS" /\ s = "USED")
        PROVE  [R!Next]_R!vars
    <2>1. Taken' = Taken /\ Shown' = Shown /\ OnList' = OnList
          /\ Answers' = Answers /\ (Forgotten' <=> Forgotten)
      BY <1>2, Seen DEF SameHash
    <2>2. R!Decide(j, s)
      BY <1>2, <2>1 DEF R!Decide, R!Final, Terminal, Taken, OnList, Shown, Answers, Forgotten
    <2> QED BY <2>2 DEF R!Next, R!Final, Terminal
  <1>3. ASSUME NEW r \in Calls, Serve(r)
        PROVE  [R!Next]_R!vars
    <2>1. PICK s \in Terminal : row' = [row EXCEPT ![PairOf[r]] = s]
      BY <1>3 DEF Serve
    <2>2. UNCHANGED <<hash, zset, call, expiries>> /\ row[PairOf[r]] = "none"
      BY <1>3 DEF Serve
    <2> QED BY <1>2, <2>1, <2>2
  <1>4. CASE Redeem(k)
    <2>1. /\ UNCHANGED <<hash, zset, call, expiries>>
          /\ row[k] = "SUCCESS" /\ row' = [row EXCEPT ![k] = "USED"]
      BY <1>4 DEF Redeem
    <2> QED BY <1>2, <2>1
  <1>5. CASE Age(k)
    <2>1. UNCHANGED <<hash, row, call, expiries>>
      BY <1>5 DEF Age
    <2>2. OnList' = OnList
      BY <1>1, <1>5 DEF Age, OnList, TypeOK
    <2> QED BY <2>1, <2>2, Seen, Unseen DEF SameHash
  <1>6. CASE Expire(k)
    <2>1. /\ UNCHANGED <<zset, row, call>> /\ expiries' = expiries + 1
          /\ hash' = [hash EXCEPT ![k] = NoHash] /\ ~ Busy(k)
      BY <1>6 DEF Expire
    <2>2. Taken' = Taken \ {k}
      BY <1>1, <2>1 DEF Taken, NoHash, TypeOK
    <2>3. Shown' = [Shown EXCEPT ![k] = "none"]
      BY <1>1, <2>1 DEF Shown, NoHash, TypeOK
    <2>4. Forgotten' /\ OnList' = OnList /\ Answers' = Answers
      BY <1>1, <2>1, Seen DEF Forgotten, TypeOK
    <2>5. \A c \in Calls : PairOf[c] = k => Answers[c] # "holding"
      <3>1. \A c \in Calls : PairOf[c] = k => ~ Holding(c)
        BY <2>1 DEF Busy
      <3> QED BY <1>1, <3>1 DEF Answers, AnswerOf, TypeOK
    <2>6. R!Forget(k)
      BY <2>1, <2>2, <2>3, <2>4, <2>5 DEF R!Forget, Taken, OnList, Shown, Answers, Forgotten
    <2> QED BY <2>6 DEF R!Next
  <1> QED BY <1>3, <1>4, <1>5, <1>6

\* A crash fails every call that holds a pair.
LEMMA CrashRefines ==
    ASSUME IInv, Crash
    PROVE  [R!Next]_R!vars
  <1> DEFINE Cut == {c \in Calls : call[c] \notin {"ACCEPTED", "DUPLICATE", "ERROR", "idle"}}
  <1>1. UNCHANGED <<hash, zset, row, expiries>>
    BY DEF Crash, redis, outside, kafka
  <1>2. call' = [c \in Calls |-> IF call[c] \in {"idle", "ACCEPTED", "DUPLICATE"}
                                   THEN call[c] ELSE "ERROR"]
    BY DEF Crash
  <1>3. Answers' = [c \in Calls |-> IF c \in Cut THEN "ERROR" ELSE Answers[c]]
    BY <1>2 DEF IInv, TypeOK, Answers, AnswerOf, Holding
  <1>4. \A c \in Cut : Answers[c] = "holding"
    BY DEF IInv, TypeOK, Answers, AnswerOf, Holding
  <1>5. Taken' = Taken /\ Shown' = Shown /\ OnList' = OnList /\ (Forgotten' <=> Forgotten)
    BY <1>1, Seen DEF SameHash
  <1>6. Cut \in SUBSET Calls
    OBVIOUS
  <1> HIDE DEF Cut
  <1>7. R!Fail(Cut)
    BY <1>1, <1>3, <1>4, <1>5 DEF R!Fail, Taken, OnList, Shown, Answers, Forgotten
  <1> QED BY <1>6, <1>7 DEF R!Next

\* Every step is a step of Reservation, or leaves its variables alone.
LEMMA StepRefines == IInv /\ [Next]_vars => [R!Next]_R!vars
  <1> SUFFICES ASSUME IInv, [Next]_vars
               PROVE  [R!Next]_R!vars
    OBVIOUS
  <1>1. ASSUME UNCHANGED <<hash, zset, row, call, expiries>>
        PROVE  [R!Next]_R!vars
    BY <1>1, Seen, Unseen DEF SameHash
  <1> USE DEF redis, kafka, outside, sweeps, hand, writers, local, bounds
  <1>2. ASSUME NEW c \in Calls, AcceptStep(c) \/ AcceptFails(c) \/ ReserveTwice(c)
        PROVE  [R!Next]_R!vars
    BY <1>2, AcceptRefines
  <1>3. ASSUME NEW r \in Calls, SendArrives(r) \/ SendLost(r) \/ ServeAgain(r) \/ ServeGivesUp(r)
        PROVE  [R!Next]_R!vars
    BY <1>1, <1>3 DEF SendArrives, SendLost, ServeAgain, ServeGivesUp
  <1>4. ASSUME NEW r \in Calls, Serve(r)
        PROVE  [R!Next]_R!vars
    BY <1>4, WorldRefines, PendingAssumption
  <1>5. ASSUME NEW k \in Pairs, Redeem(k) \/ Age(k) \/ Expire(k)
        PROVE  [R!Next]_R!vars
    BY <1>5, WorldRefines
  <1>6. ASSUME NEW k \in Pairs, Redeliver(k) \/ Consume(k)
        PROVE  [R!Next]_R!vars
    BY <1>1, <1>6 DEF Redeliver, Consume
  <1>7. ASSUME NEW p \in Writers, MarkStatus(p) \/ MarkCode(p)
        PROVE  [R!Next]_R!vars
    <2>1. UNCHANGED <<row, call, expiries>>
      BY <1>7 DEF MarkStatus, MarkCode
    <2> QED BY <1>7, <2>1, MarkRefines
  <1>8. ASSUME NEW s \in Sweeps, SweepMarked(s)
        PROVE  [R!Next]_R!vars
    <2>1. UNCHANGED <<row, call, expiries>> /\ Conclude(s)
      BY <1>8 DEF SweepMarked
    <2> QED BY <2>1, MarkRefines DEF Writers
  <1>9. ASSUME NEW s \in Sweeps,
               Count(s) \/ CountTwice(s) \/ Postpone(s) \/ \E k \in Pairs : Read(s, k)
        PROVE  [R!Next]_R!vars
    <2>1. UNCHANGED <<row, call, expiries>>
      BY <1>9 DEF Count, CountTwice, Postpone, Read
    <2> QED BY <1>9, <2>1, SweepRefines
  <1>10. ASSUME NEW s \in Sweeps, Tick(s) \/ Scan(s) \/ ReadAll(s) \/ SendAgain(s)
                  \/ SweepEnds(s) \/ ScanFails(s) \/ ItemFails(s)
        PROVE  [R!Next]_R!vars
    BY <1>1, <1>10 DEF Tick, Scan, ReadAll, SendAgain, SweepEnds, ScanFails, ItemFails
  <1>11. ASSUME NEW s \in Sweeps, NEW p \in batch[s], LookUp(s, p) \/ LookupFails(s, p)
        PROVE  [R!Next]_R!vars
    BY <1>1, <1>11 DEF LookUp, LookupFails
  <1>12. CASE Consumed
    <2>1. UNCHANGED <<row, call, expiries>> /\ Conclude(Consumer)
      BY <1>12 DEF Consumed
    <2> QED BY <2>1, MarkRefines DEF Writers
  <1>13. CASE ConsumeFails
    BY <1>1, <1>13 DEF ConsumeFails
  <1>14. CASE Crash
    BY <1>14, CrashRefines
  <1>15. CASE UNCHANGED vars
    BY <1>1, <1>15 DEF vars
  <1> HIDE DEF redis, kafka, outside, sweeps, hand, writers, local, bounds
  <1> QED BY <1>2, <1>3, <1>4, <1>5, <1>6, <1>7, <1>8, <1>9, <1>10, <1>11, <1>12,
             <1>13, <1>14, <1>15, Actions DEF AcceptStep

LEMMA InitRefines == Init => R!Init
  BY DEF Init, R!Init, NoHash, AnswerOf, Holding

\* The Redis commands of server-b, in any order, keep Reservation's promise.
THEOREM ReservationImplemented == Spec => ImplementsReservation
  BY InitRefines, StepRefines, PendingInvariant, PTL
     DEF Spec, ImplementsReservation, R!Spec
-----------------------------------------------------------------------------
(* The request of a pair, and who keeps the pair.                          *)

\* A call that was neither refused nor is still reserving.
Entitled(c) == call[c] \notin {"idle", "hset", "DUPLICATE"}

\* A requestId that is written, published, or in a sweep's hands is of such a call.
EntitledInv ==
    /\ \A k \in Pairs : hash[k].request # NoCall => Entitled(hash[k].request)
    /\ \A r \in sending \union topic : Entitled(r)
    /\ \A s \in Sweeps : /\ \A p \in batch[s] : Entitled(p.request)
                         /\ Working(s) => Entitled(item[s].request)

\* In its first life a pair has one requestId: the one in its hash.
RequestInv ==
    expiries = 0 =>
       /\ \A c \in Calls : Entitled(c) /\ call[c] # "ERROR" => hash[PairOf[c]].request = c
       /\ \A r \in sending \union topic : hash[PairOf[r]].request = r
       /\ \A s \in Sweeps : /\ \A p \in batch[s] : p.request = hash[p.key].request
                            /\ Working(s) => item[s].request = hash[item[s].key].request

\* Who may have taken a pair: a DUPLICATE only by a resent command.
Keeps(c) == call[c] # "idle" /\ (call[c] = "DUPLICATE" => faults > 0)

\* A taken pair was taken by a call; a call fails by a fault; the flag of the
\* scheduler is up for a sweep.
KeeperInv ==
    /\ \A k \in Pairs : hash[k].user => \E c \in Calls : PairOf[c] = k /\ Keeps(c)
    /\ \A c \in Calls : call[c] = "ERROR" => faults > 0
    /\ running => \E s \in Sweeps : step[s] # "idle"

\* What accept() may do next.
LEMMA CallSteps ==
    ASSUME TypeOK, [Next]_vars, NEW c \in Calls
    PROVE  \/ call'[c] = call[c]
           \/ call[c] = "idle" /\ call'[c] \in {"hset", "DUPLICATE"}
           \/ WriteFields(c) /\ call[c] = "hset" /\ call'[c] = "expire"
           \/ /\ call[c] \in {"expire", "zadd", "publish", "await"}
              /\ call'[c] \in {"zadd", "publish", "await", "ACCEPTED"}
           \/ /\ call[c] \notin {"ACCEPTED", "DUPLICATE"} /\ call'[c] = "ERROR"
              /\ faults' = faults + 1
  <1> DEFINE Goal ==
           \/ call'[c] = call[c]
           \/ call[c] = "idle" /\ call'[c] \in {"hset", "DUPLICATE"}
           \/ WriteFields(c) /\ call[c] = "hset" /\ call'[c] = "expire"
           \/ /\ call[c] \in {"expire", "zadd", "publish", "await"}
              /\ call'[c] \in {"zadd", "publish", "await", "ACCEPTED"}
           \/ /\ call[c] \notin {"ACCEPTED", "DUPLICATE"} /\ call'[c] = "ERROR"
              /\ faults' = faults + 1
  <1>1. ASSUME NEW d \in Calls,
               \/ Reserve(d) \/ ReserveTwice(d) \/ SetTtl(d)
               \/ Enqueue(d) \/ Publish(d) \/ Accepted(d)
        PROVE  Goal
    BY <1>1 DEF Reserve, ReserveTwice, SetTtl, Enqueue, Publish, Accepted, Answer, TypeOK
  <1>2. ASSUME NEW d \in Calls, WriteFields(d)
        PROVE  Goal
    <2>1. call[d] = "hset" /\ call' = [call EXCEPT ![d] = "expire"]
      BY <1>2 DEF WriteFields, Answer
    <2> QED BY <1>2, <2>1 DEF TypeOK
  <1>3. ASSUME NEW d \in Calls, AcceptFails(d)
        PROVE  Goal
    BY <1>3 DEF AcceptFails, Answer, Fault, TypeOK
  <1>4. ASSUME Crash
        PROVE  Goal
    BY <1>4 DEF Crash, Fault
  <1>5. ASSUME call' = call
        PROVE  Goal
    BY <1>5
  <1> HIDE DEF Goal
  <1>6. Goal
    <2> USE DEF redis, kafka, outside, sweeps, hand, writers, local, bounds
    <2>1. ASSUME NEW r \in Calls,
                 SendArrives(r) \/ SendLost(r) \/ Serve(r) \/ ServeAgain(r) \/ ServeGivesUp(r)
          PROVE  call' = call
      BY <2>1 DEF SendArrives, SendLost, Serve, ServeAgain, ServeGivesUp
    <2>2. ASSUME NEW k \in Pairs, Redeliver(k) \/ Redeem(k) \/ Age(k) \/ Expire(k) \/ Consume(k)
          PROVE  call' = call
      BY <2>2 DEF Redeliver, Redeem, Age, Expire, Consume
    <2>3. ASSUME NEW s \in Sweeps,
                 \/ Tick(s) \/ Scan(s) \/ ReadAll(s) \/ SweepMarked(s) \/ Count(s)
                 \/ CountTwice(s) \/ Postpone(s)
                 \/ SendAgain(s) \/ SweepEnds(s) \/ ScanFails(s) \/ ItemFails(s)
                 \/ \E k \in Pairs : Read(s, k)
                 \/ \E p \in batch[s] : LookUp(s, p) \/ LookupFails(s, p)
          PROVE  call' = call
      BY <2>3 DEF Tick, Scan, ReadAll, SweepMarked, Count, CountTwice, Postpone,
          SendAgain, SweepEnds, ScanFails, ItemFails, Read, LookUp, LookupFails
    <2>4. ASSUME NEW p \in Writers, MarkStatus(p) \/ MarkCode(p)
          PROVE  call' = call
      BY <2>4 DEF MarkStatus, MarkCode
    <2>5. CASE Consumed \/ ConsumeFails \/ UNCHANGED vars
      BY <1>5, <2>5 DEF Consumed, ConsumeFails, vars
    <2> HIDE DEF redis, kafka, outside, sweeps, hand, writers, local, bounds
    <2> QED BY <1>1, <1>2, <1>3, <1>4, <1>5, <2>1, <2>2, <2>3, <2>4, <2>5, Actions
  <1> QED BY <1>6 DEF Goal

\* The requestId of a hash is written by WriteFields and goes with the hash.
LEMMA RequestSteps ==
    ASSUME TypeOK, [Next]_vars
    PROVE  \/ \A k \in Pairs : hash'[k].request = hash[k].request
           \/ \E c \in Calls : WriteFields(c)
           \/ \E k \in Pairs : Expire(k)
  <1> DEFINE Same == \A k \in Pairs : hash'[k].request = hash[k].request
  <1> USE PendingAssumption DEF redis, kafka, outside, sweeps, hand, writers, local, bounds
  <1>1. ASSUME NEW c \in Calls, Reserve(c) \/ ReserveTwice(c) \/ SetTtl(c)
        PROVE  Same
    <2>1. CASE SetTtl(c)
      BY <2>1 DEF SetTtl, TypeOK, Hashes
    <2> QED BY <1>1, <2>1, ReserveKeeps
  <1>2. ASSUME NEW c \in Calls, Enqueue(c) \/ Publish(c) \/ Accepted(c) \/ AcceptFails(c)
        PROVE  hash' = hash
    BY <1>2 DEF Enqueue, Publish, Accepted, AcceptFails
  <1>3. ASSUME NEW r \in Calls,
               SendArrives(r) \/ SendLost(r) \/ Serve(r) \/ ServeAgain(r) \/ ServeGivesUp(r)
        PROVE  hash' = hash
    BY <1>3 DEF SendArrives, SendLost, Serve, ServeAgain, ServeGivesUp
  <1>4. ASSUME NEW k \in Pairs, Redeliver(k) \/ Redeem(k) \/ Age(k) \/ Consume(k)
        PROVE  hash' = hash
    BY <1>4 DEF Redeliver, Redeem, Age, Consume
  <1>5. ASSUME NEW p \in Writers, MarkStatus(p) \/ MarkCode(p)
        PROVE  Same
    <2>1. CASE MarkStatus(p)
      BY <2>1 DEF MarkStatus, TypeOK, Hashes, Items
    <2>2. CASE MarkCode(p)
      BY <2>2 DEF MarkCode, TypeOK, Hashes, Items
    <2> QED BY <1>5, <2>1, <2>2
  <1>6. ASSUME NEW s \in Sweeps, SweepMarked(s) \/ Count(s) \/ CountTwice(s)
        PROVE  Same
    <2>1. CASE SweepMarked(s)
      BY <2>1 DEF SweepMarked, Conclude, TypeOK, Hashes, Items, Writers
    <2>2. CASE Count(s)
      BY <2>2 DEF Count, TypeOK, Hashes, Items, Writers
    <2>3. CASE CountTwice(s)
      BY <2>3 DEF CountTwice, TypeOK, Hashes, Items, Writers
    <2> QED BY <1>6, <2>1, <2>2, <2>3
  <1>7. ASSUME NEW s \in Sweeps,
               \/ Tick(s) \/ Scan(s) \/ ReadAll(s) \/ Postpone(s) \/ SendAgain(s)
               \/ SweepEnds(s) \/ ScanFails(s) \/ ItemFails(s)
               \/ \E k \in Pairs : Read(s, k)
               \/ \E p \in batch[s] : LookUp(s, p) \/ LookupFails(s, p)
        PROVE  hash' = hash
    BY <1>7 DEF Tick, Scan, ReadAll, Postpone, SendAgain, SweepEnds, ScanFails, ItemFails,
           Read, LookUp, LookupFails
  <1>8. ASSUME Consumed
        PROVE  Same
    BY <1>8 DEF Consumed, Conclude, TypeOK, Hashes, Items, Writers
  <1>9. ASSUME ConsumeFails \/ Crash \/ UNCHANGED vars
        PROVE  hash' = hash
    BY <1>9 DEF ConsumeFails, Crash, vars
  <1>10. hash' = hash => Same
    OBVIOUS
  <1> HIDE DEF redis, kafka, outside, sweeps, hand, writers, local, bounds, Same
  <1>11. Same \/ (\E c \in Calls : WriteFields(c)) \/ (\E k \in Pairs : Expire(k))
    BY <1>1, <1>2, <1>3, <1>4, <1>5, <1>6, <1>7, <1>8, <1>9, <1>10, Actions
  <1> QED BY <1>11 DEF Same

\* Where a request in Kafka, in a batch or in hand comes from.
LEMMA RequestSources ==
    ASSUME TypeOK, SweepInv, [Next]_vars
    PROVE  /\ \A r \in sending' \union topic' :
                 \/ r \in sending \union topic
                 \/ r \in Calls /\ call[r] = "publish"
                 \/ \E s \in Sweeps : Working(s) /\ r = item[s].request
           /\ \A s \in Sweeps : \A p \in batch'[s] :
                 \/ p \in batch[s]
                 \/ p.key \in Pairs /\ Complete(p.key) /\ p.request = hash[p.key].request
           /\ \A s \in Sweeps : Working(s)' => \/ Working(s) /\ item'[s] = item[s]
                                               \/ item'[s] \in batch[s]
  <1> DEFINE Kafka == \A r \in sending' \union topic' :
                 \/ r \in sending \union topic
                 \/ r \in Calls /\ call[r] = "publish"
                 \/ \E s \in Sweeps : Working(s) /\ r = item[s].request
             Batch == \A s \in Sweeps : \A p \in batch'[s] :
                 \/ p \in batch[s]
                 \/ p.key \in Pairs /\ Complete(p.key) /\ p.request = hash[p.key].request
             Hand == \A s \in Sweeps : Working(s)' => \/ Working(s) /\ item'[s] = item[s]
                                                      \/ item'[s] \in batch[s]
             Goal == Kafka /\ Batch /\ Hand
  <1> USE PendingAssumption DEF redis, kafka, outside, sweeps, hand, writers, local, bounds
  <1>1. ASSUME UNCHANGED <<batch, step, item>>
        PROVE  Batch /\ Hand
    BY <1>1 DEF Working
  <1>2. ASSUME UNCHANGED <<sending, topic>>
        PROVE  Kafka
    BY <1>2
  <1>3. ASSUME NEW c \in Calls, AcceptStep(c) \/ AcceptFails(c) \/ ReserveTwice(c)
        PROVE  Goal
    <2>1. UNCHANGED <<batch, step, item, topic>>
      BY <1>3 DEF AcceptStep, Reserve, WriteFields, SetTtl, Enqueue, Publish, Accepted, AcceptFails, ReserveTwice
    <2>2. sending' = sending \/ (call[c] = "publish" /\ sending' \subseteq sending \union {c})
      BY <1>3 DEF AcceptStep, Reserve, WriteFields, SetTtl, Enqueue, Publish, Published,
             Accepted, AcceptFails, ReserveTwice
    <2>3. Kafka
      BY <2>1, <2>2
    <2> QED BY <1>1, <2>1, <2>3
  <1>4. ASSUME NEW r \in Calls,
               SendArrives(r) \/ SendLost(r) \/ Serve(r) \/ ServeAgain(r) \/ ServeGivesUp(r)
        PROVE  Goal
    <2>1. UNCHANGED <<batch, step, item>> /\ sending' \union topic' \subseteq sending \union topic
      BY <1>4 DEF SendArrives, SendLost, Serve, ServeAgain, ServeGivesUp
    <2> QED BY <1>1, <2>1
  <1>5. ASSUME NEW k \in Pairs, Redeliver(k) \/ Redeem(k) \/ Age(k) \/ Expire(k)
        PROVE  Goal
    <2>1. UNCHANGED <<batch, step, item, sending, topic>>
      BY <1>5 DEF Redeliver, Redeem, Age, Expire
    <2> QED BY <1>1, <1>2, <2>1
  <1>6. ASSUME NEW p \in Writers, MarkStatus(p) \/ MarkCode(p)
        PROVE  Goal
    <2>1. /\ UNCHANGED <<batch, item, sending, topic>>
          /\ \A s \in Sweeps : Working(s)' => Working(s)
      BY <1>6 DEF MarkStatus, MarkCode, GoTo, Working, TypeOK, Writers
    <2> QED BY <2>1
  <1>7. ASSUME \/ \E k \in Pairs : Consume(k)
               \/ Consumed \/ ConsumeFails
        PROVE  Goal
    <2>1. /\ UNCHANGED <<batch, sending, topic>>
          /\ \A s \in Sweeps : step'[s] = step[s] /\ item'[s] = item[s]
      BY <1>7 DEF Consume, Consumed, ConsumeFails, Conclude, Release, Settle, GoTo, TypeOK, Writers
    <2> QED BY <2>1 DEF Working
  <1>8. ASSUME NEW s \in Sweeps,
               \/ Tick(s) \/ Scan(s) \/ ReadAll(s) \/ SweepMarked(s) \/ SweepEnds(s)
               \/ ScanFails(s) \/ ItemFails(s) \/ Count(s) \/ CountTwice(s) \/ Postpone(s)
        PROVE  Goal
    <2>1. /\ UNCHANGED <<sending, topic>>
          /\ \A x \in Sweeps : batch'[x] \subseteq batch[x]
      BY <1>8 DEF Tick, Scan, ReadAll, SweepMarked, SweepEnds, ScanFails, ItemFails, Count, CountTwice,
             Postpone, Closed, TypeOK
    <2>2. \A x \in Sweeps : Working(x)' => Working(x) /\ item'[x] = item[x]
      BY <1>8 DEF Tick, Scan, ReadAll, SweepMarked, SweepEnds, ScanFails, ItemFails, Count, CountTwice,
             Postpone, Closed, Conclude, Release, GoTo, Working, TypeOK, Writers
    <2> QED BY <2>1, <2>2
  <1>9. ASSUME NEW s \in Sweeps, SendAgain(s)
        PROVE  Goal
    <2>1. /\ step[s] = "send" /\ UNCHANGED <<batch, topic>>
          /\ sending' \subseteq sending \union {item[s].request}
      BY <1>9 DEF SendAgain, Published
    <2>2. \A x \in Sweeps : Working(x)' => Working(x) /\ item'[x] = item[x]
      BY <1>9 DEF SendAgain, Release, GoTo, Working, TypeOK, Writers
    <2>3. Working(s)
      BY <2>1 DEF Working
    <2> QED BY <2>1, <2>2, <2>3
  <1>10. ASSUME NEW s \in Sweeps, NEW k \in Pairs, Read(s, k)
         PROVE  Goal
    <2>1. /\ UNCHANGED <<sending, topic, step, item>>
          /\ batch' = [batch EXCEPT ![s] = IF Complete(k) THEN @ \union {PendingOf(k)} ELSE @]
      BY <1>10 DEF Read
    <2>2. PendingOf(k).key = k /\ PendingOf(k).request = hash[k].request
      BY DEF PendingOf
    <2>3. Batch
      BY <2>1, <2>2 DEF TypeOK
    <2> QED BY <2>1, <2>3 DEF Working
  <1>11. ASSUME NEW s \in Sweeps, NEW p \in batch[s], LookUp(s, p) \/ LookupFails(s, p)
         PROVE  Goal
    <2>1. /\ UNCHANGED <<sending, topic>>
          /\ batch' = [batch EXCEPT ![s] = @ \ {p}]
      BY <1>11 DEF LookUp, LookupFails
    <2>2. Batch
      BY <2>1 DEF TypeOK
    <2>3. \/ UNCHANGED <<step, item>>
          \/ /\ item' = [item EXCEPT ![s] = p]
             /\ step' = [step EXCEPT ![s] = NextStep(p)]
      BY <1>11 DEF LookUp, LookupFails, GoTo
    <2>4. Hand
      BY <2>3 DEF Working, TypeOK, Writers
    <2> QED BY <2>1, <2>2, <2>4
  <1>12. ASSUME Crash \/ UNCHANGED vars
         PROVE  Goal
    <2>1. /\ UNCHANGED <<sending, topic>>
          /\ \A x \in Sweeps : batch'[x] \subseteq batch[x]
      BY <1>12 DEF Crash, vars
    <2>2. \A x \in Sweeps : Working(x)' => Working(x) /\ item'[x] = item[x]
      BY <1>12 DEF Crash, vars, Working, Writers
    <2> QED BY <2>1, <2>2
  <1> HIDE DEF redis, kafka, outside, sweeps, hand, writers, local, bounds, Goal
  <1>13. Goal
    BY <1>3, <1>4, <1>5, <1>6, <1>7, <1>8, <1>9, <1>10, <1>11, <1>12, Actions DEF AcceptStep
  <1> QED BY <1>13 DEF Goal

LEMMA EntitledStays ==
    ASSUME TypeOK, [Next]_vars, NEW c \in Calls, Entitled(c)
    PROVE  Entitled(c)'
  BY CallSteps DEF Entitled

LEMMA EntitledStep == TypeOK /\ SweepInv /\ EntitledInv /\ [Next]_vars => EntitledInv'
  <1> SUFFICES ASSUME TypeOK, SweepInv, EntitledInv, [Next]_vars
               PROVE  EntitledInv'
    OBVIOUS
  <1> USE DEF Entitled
  <1>1. \A r \in Calls : call[r] \notin {"idle", "hset", "DUPLICATE"}
                            => call'[r] \notin {"idle", "hset", "DUPLICATE"}
    BY EntitledStays
  <1>2. sending \union topic \subseteq Calls /\ SweepInv'
    BY SweepInvStep DEF TypeOK
  <1>3. ASSUME NEW k \in Pairs, hash'[k].request # NoCall
        PROVE  Entitled(hash[k].request)'
    <2>1. CASE hash'[k].request = hash[k].request
      <3>1. hash[k].request \in Calls /\ Entitled(hash[k].request)
        BY <1>3, <2>1 DEF EntitledInv, TypeOK, Hashes
      <3> QED BY <1>1, <2>1, <3>1
    <2>2. ASSUME NEW c \in Calls, WriteFields(c), hash'[k].request # hash[k].request
          PROVE  Entitled(hash[k].request)'
      <3>1. hash'[k].request = c
        BY <2>2, PendingAssumption DEF WriteFields, TypeOK, Hashes
      <3>2. call'[c] = "expire"
        BY <2>2 DEF WriteFields, Answer, TypeOK
      <3> QED BY <3>1, <3>2
    <2>3. ASSUME NEW j \in Pairs, Expire(j), hash'[k].request # hash[k].request
          PROVE  FALSE
      BY <1>3, <2>3 DEF Expire, NoHash, TypeOK
    <2> QED BY <2>1, <2>2, <2>3, RequestSteps
  <1>4. ASSUME NEW r \in sending' \union topic'
        PROVE  Entitled(r)'
    <2>1. ASSUME NEW s \in Sweeps, Working(s), r = item[s].request
          PROVE  Entitled(r)'
      BY <1>1, <2>1 DEF EntitledInv, SweepInv, BatchInv
    <2>2. ASSUME r \in Calls, call[r] = "publish"
          PROVE  Entitled(r)'
      BY <1>1, <2>2
    <2> QED BY <1>1, <1>2, <2>1, <2>2, RequestSources DEF EntitledInv
  <1>5. ASSUME NEW s \in Sweeps, NEW p \in batch'[s]
        PROVE  Entitled(p.request)'
    <2>1. p.request \in Calls
      BY <1>2, <1>5 DEF SweepInv, BatchInv, Fits
    <2>2. Entitled(p.request)
      BY <1>5, RequestSources DEF EntitledInv, Complete
    <2> QED BY <1>1, <2>1, <2>2
  <1>6. ASSUME NEW s \in Sweeps, Working(s)'
        PROVE  Entitled(item[s].request)'
    <2>1. item'[s].request \in Calls
      BY <1>2, <1>6 DEF SweepInv, BatchInv
    <2>2. call[item'[s].request] \notin {"idle", "hset", "DUPLICATE"}
      BY <1>6, RequestSources DEF EntitledInv
    <2> QED BY <1>1, <2>1, <2>2
  <1> HIDE DEF Entitled
  <1> QED BY <1>3, <1>4, <1>5, <1>6 DEF EntitledInv

LEMMA RequestStep == IInv /\ RequestInv /\ [Next]_vars => RequestInv'
  <1> SUFFICES ASSUME IInv, RequestInv, [Next]_vars, expiries' = 0
               PROVE  RequestInv'
    BY DEF RequestInv
  <1>1. TypeOK /\ SweepInv /\ SweepInv' /\ HolderInv /\ UntouchedInv
    BY SweepInvStep DEF IInv
  <1>2. expiries = 0
    BY <1>1, FreshBefore
  <1>3. /\ \A c \in Calls : Entitled(c) /\ call[c] # "ERROR" => hash[PairOf[c]].request = c
        /\ \A r \in sending \union topic : hash[PairOf[r]].request = r
        /\ \A s \in Sweeps : /\ \A p \in batch[s] : p.request = hash[p.key].request
                             /\ Working(s) => item[s].request = hash[item[s].key].request
    BY <1>2 DEF RequestInv
  <1>4. \A k \in Pairs : ~ Expire(k)
    BY <1>1, <1>2, PendingAssumption DEF Expire, TypeOK
  <1>5. \A c \in Calls : Entitled(c)' /\ call'[c] # "ERROR" =>
           (Entitled(c) /\ call[c] # "ERROR") \/ WriteFields(c)
    BY <1>1, CallSteps DEF Entitled
  <1>6. ASSUME \A k \in Pairs : hash'[k].request = hash[k].request,
               \A c \in Calls : ~ WriteFields(c)
        PROVE  RequestInv'
    <2>1. \A c \in Calls : Entitled(c)' /\ call'[c] # "ERROR" => hash'[PairOf[c]].request = c
      BY <1>3, <1>5, <1>6, PendingAssumption
    <2>2. \A r \in sending' \union topic' : hash'[PairOf[r]].request = r
      <3> SUFFICES ASSUME NEW r \in sending' \union topic'
                   PROVE  r \in Calls /\ hash[PairOf[r]].request = r
        BY <1>6, PendingAssumption
      <3>1. CASE r \in sending \union topic
        BY <1>1, <1>3, <3>1 DEF TypeOK
      <3>2. CASE r \in Calls /\ call[r] = "publish"
        BY <1>3, <3>2 DEF Entitled
      <3>3. ASSUME NEW s \in Sweeps, Working(s), r = item[s].request
            PROVE  r \in Calls /\ hash[PairOf[r]].request = r
        BY <1>1, <1>3, <3>3 DEF SweepInv, BatchInv
      <3> QED BY <1>1, <3>1, <3>2, <3>3, RequestSources
    <2>3. ASSUME NEW s \in Sweeps, NEW p \in batch'[s]
          PROVE  p.request = hash'[p.key].request
      <3>1. p \in Items
        BY <1>1, TypeStep DEF TypeOK
      <3>2. p.key \in Pairs
        BY <3>1 DEF Items
      <3>3. p.request = hash[p.key].request
        BY <1>1, <1>3, <2>3, RequestSources
      <3> QED BY <1>6, <3>2, <3>3
    <2>4. ASSUME NEW s \in Sweeps, Working(s)'
          PROVE  item'[s].request = hash'[item'[s].key].request
      <3>1. item'[s] \in Items
        BY <1>1, TypeStep DEF TypeOK, Writers
      <3>2. item'[s].key \in Pairs
        BY <3>1 DEF Items
      <3>3. item'[s].request = hash[item'[s].key].request
        BY <1>1, <1>3, <2>4, RequestSources
      <3> QED BY <1>6, <3>2, <3>3
    <2> QED BY <2>1, <2>2, <2>3, <2>4 DEF RequestInv
  <1>7. ASSUME NEW c \in Calls, WriteFields(c)
        PROVE  RequestInv'
    <2> DEFINE k == PairOf[c]
    <2>1. /\ k \in Pairs /\ call[c] = "hset" /\ call' = [call EXCEPT ![c] = "expire"]
          /\ \A j \in Pairs : hash'[j].request = IF j = k THEN c ELSE hash[j].request
          /\ UNCHANGED <<sending, topic, batch, step, item>>
      <3>1. /\ k \in Pairs /\ call[c] = "hset" /\ call' = [call EXCEPT ![c] = "expire"]
            /\ UNCHANGED <<sending, topic, batch, step, item>>
        BY <1>7, PendingAssumption DEF WriteFields, Answer, outside, kafka, sweeps, writers, hand
      <3>2. \A j \in Pairs : hash'[j].request = IF j = k THEN c ELSE hash[j].request
        BY <1>1, <1>7, PendingAssumption DEF WriteFields, TypeOK, Hashes
      <3> QED BY <3>1, <3>2
    <2>2. Untouched(k)
      BY <1>1, <1>2, <2>1 DEF UntouchedInv, Fresh
    <2>3. ASSUME NEW d \in Calls, Entitled(d)', call'[d] # "ERROR"
          PROVE  hash'[PairOf[d]].request = d
      <3>1. CASE PairOf[d] = k
        <4>1. Holder(c) /\ (d # c => Holder(d))
          BY <1>1, <2>1, <2>3, <3>1 DEF Entitled, Holder, Holding, TypeOK
        <4>2. d = c
          BY <1>1, <1>2, <3>1, <4>1 DEF HolderInv
        <4> QED BY <2>1, <4>2
      <3>2. CASE PairOf[d] # k
        <4>1. Entitled(d) /\ call[d] # "ERROR" /\ PairOf[d] \in Pairs
          BY <1>1, <2>1, <2>3, <3>2, PendingAssumption DEF Entitled, TypeOK
        <4> QED BY <1>3, <2>1, <3>2, <4>1
      <3> QED BY <3>1, <3>2
    <2>4. ASSUME NEW r \in sending \union topic
          PROVE  hash'[PairOf[r]].request = r
      <3>1. PairOf[r] # k /\ PairOf[r] \in Pairs
        BY <1>1, <2>2, <2>4, PendingAssumption DEF Untouched, TypeOK
      <3> QED BY <1>3, <2>1, <2>4, <3>1
    <2>5. ASSUME NEW s \in Sweeps, NEW p \in batch[s]
          PROVE  p.request = hash'[p.key].request
      <3>1. p.key # k /\ p.key \in Pairs
        BY <1>1, <2>2, <2>5 DEF Untouched, Held, TypeOK, Items
      <3> QED BY <1>3, <2>1, <2>5, <3>1
    <2>6. ASSUME NEW s \in Sweeps, Working(s)
          PROVE  item[s].request = hash'[item[s].key].request
      <3>1. item[s].key # k /\ item[s].key \in Pairs
        BY <1>1, <2>2, <2>6 DEF Untouched, Held, TypeOK, Items, Writers
      <3> QED BY <1>3, <2>1, <2>6, <3>1
    <2>7. \A s \in Sweeps : Working(s)' <=> Working(s)
      BY <2>1 DEF Working
    <2> HIDE DEF k
    <2> QED BY <2>1, <2>3, <2>4, <2>5, <2>6, <2>7 DEF RequestInv
  <1> QED BY <1>1, <1>4, <1>6, <1>7, RequestSteps

\* A pair is taken by a call that reserves it, and that may not know.
Takes(c) == (Reserve(c) \/ ReserveTwice(c)) /\ ~ hash[PairOf[c]].user

LEMMA UserSteps ==
    ASSUME TypeOK, [Next]_vars, NEW k \in Pairs, hash'[k].user
    PROVE  hash[k].user \/ \E c \in Calls : PairOf[c] = k /\ Takes(c)
  <1> DEFINE Goal == hash[k].user \/ \E c \in Calls : PairOf[c] = k /\ Takes(c)
  <1> USE PendingAssumption DEF redis, kafka, outside, sweeps, hand, writers, local, bounds
  <1>1. ASSUME hash' = hash
        PROVE  Goal
    BY <1>1
  <1>2. ASSUME NEW c \in Calls, Reserve(c) \/ ReserveTwice(c)
        PROVE  Goal
    <2>1. hash' = hash \/ (Takes(c) /\ hash' = [hash EXCEPT ![PairOf[c]].user = TRUE])
      BY <1>2 DEF Reserve, ReserveTwice, Takes
    <2> QED BY <1>1, <2>1 DEF TypeOK, Hashes
  <1>3. ASSUME NEW c \in Calls, WriteFields(c) \/ SetTtl(c)
        PROVE  Goal
    <2>1. CASE WriteFields(c)
      BY <2>1 DEF WriteFields, TypeOK, Hashes
    <2>2. CASE SetTtl(c)
      BY <2>2 DEF SetTtl, TypeOK, Hashes
    <2> QED BY <1>3, <2>1, <2>2
  <1>4. ASSUME NEW c \in Calls, Enqueue(c) \/ Publish(c) \/ Accepted(c) \/ AcceptFails(c)
        PROVE  hash' = hash
    BY <1>4 DEF Enqueue, Publish, Accepted, AcceptFails
  <1>5. ASSUME NEW r \in Calls,
               SendArrives(r) \/ SendLost(r) \/ Serve(r) \/ ServeAgain(r) \/ ServeGivesUp(r)
        PROVE  hash' = hash
    BY <1>5 DEF SendArrives, SendLost, Serve, ServeAgain, ServeGivesUp
  <1>6. ASSUME NEW j \in Pairs, Redeliver(j) \/ Redeem(j) \/ Age(j) \/ Consume(j)
        PROVE  hash' = hash
    BY <1>6 DEF Redeliver, Redeem, Age, Consume
  <1>7. ASSUME NEW j \in Pairs, Expire(j)
        PROVE  Goal
    BY <1>7 DEF Expire, NoHash, TypeOK
  <1>8. ASSUME NEW p \in Writers, MarkStatus(p) \/ MarkCode(p)
        PROVE  Goal
    BY <1>8, MarkWrites
  <1>9. ASSUME NEW p \in Writers, Conclude(p)
        PROVE  Goal
    BY <1>9, MarkWrites
  <1>10. ASSUME NEW s \in Sweeps, Count(s)
         PROVE  Goal
    BY <1>10 DEF Count, TypeOK, Hashes, Items, Writers
  <1>10T. ASSUME NEW s \in Sweeps, CountTwice(s)
         PROVE  Goal
    BY <1>10T DEF CountTwice, Fault, TypeOK, Hashes, Items, Writers
  <1>11. ASSUME NEW s \in Sweeps,
               \/ Tick(s) \/ Scan(s) \/ ReadAll(s) \/ Postpone(s) \/ SendAgain(s)
               \/ SweepEnds(s) \/ ScanFails(s) \/ ItemFails(s)
               \/ \E j \in Pairs : Read(s, j)
               \/ \E p \in batch[s] : LookUp(s, p) \/ LookupFails(s, p)
        PROVE  hash' = hash
    BY <1>11 DEF Tick, Scan, ReadAll, Postpone, SendAgain, SweepEnds, ScanFails, ItemFails,
           Read, LookUp, LookupFails
  <1>12. ASSUME ConsumeFails \/ Crash \/ UNCHANGED vars
         PROVE  hash' = hash
    BY <1>12 DEF ConsumeFails, Crash, vars
  <1>13. /\ \A s \in Sweeps : SweepMarked(s) => s \in Writers /\ Conclude(s)
         /\ Consumed => Consumer \in Writers /\ Conclude(Consumer)
    BY DEF SweepMarked, Consumed, Writers
  <1> HIDE DEF redis, kafka, outside, sweeps, hand, writers, local, bounds, Goal
  <1>14. Goal
    BY <1>1, <1>2, <1>3, <1>4, <1>5, <1>6, <1>7, <1>8, <1>9, <1>10, <1>10T, <1>11, <1>12, <1>13,
       Actions
  <1> QED BY <1>14 DEF Goal

\* The flag of the scheduler and its sweeps rise and fall together.
LEMMA GuardSteps ==
    ASSUME TypeOK, SweepInv, running => \E s \in Sweeps : step[s] # "idle", [Next]_vars, running'
    PROVE  \E s \in Sweeps : step'[s] # "idle"
  <1> USE DEF redis, kafka, outside, sweeps, hand, writers, local, bounds
  <1>1. ASSUME UNCHANGED <<running, step>>
        PROVE  \E s \in Sweeps : step'[s] # "idle"
    BY <1>1
  <1>2. ASSUME NEW c \in Calls, AcceptStep(c) \/ AcceptFails(c) \/ ReserveTwice(c)
        PROVE  UNCHANGED <<running, step>>
    BY <1>2 DEF AcceptStep, Reserve, WriteFields, SetTtl, Enqueue, Publish, Accepted, AcceptFails, ReserveTwice
  <1>3. ASSUME NEW r \in Calls,
               SendArrives(r) \/ SendLost(r) \/ Serve(r) \/ ServeAgain(r) \/ ServeGivesUp(r)
        PROVE  UNCHANGED <<running, step>>
    BY <1>3 DEF SendArrives, SendLost, Serve, ServeAgain, ServeGivesUp
  <1>4. ASSUME NEW k \in Pairs, Redeliver(k) \/ Redeem(k) \/ Age(k) \/ Expire(k)
        PROVE  UNCHANGED <<running, step>>
    BY <1>4 DEF Redeliver, Redeem, Age, Expire
  <1>5. ASSUME NEW p \in Writers,
               \/ MarkStatus(p) \/ MarkCode(p)
               \/ p = Consumer /\ ((\E k \in Pairs : Consume(k)) \/ Consumed \/ ConsumeFails)
        PROVE  \E s \in Sweeps : step'[s] # "idle"
    <2>1. /\ running' = running
          /\ \A s \in Sweeps : step[s] # "idle" => step'[s] # "idle"
      <3> USE PendingAssumption DEF GoTo, TypeOK, Writers
      <3>1. CASE MarkStatus(p)
        BY <3>1 DEF MarkStatus
      <3>2. CASE MarkCode(p)
        BY <3>2 DEF MarkCode
      <3>3. CASE p = Consumer /\ \E k \in Pairs : Consume(k)
        BY <3>3 DEF Consume
      <3>4. CASE p = Consumer /\ Consumed
        BY <3>4 DEF Consumed, Settle
      <3>5. CASE p = Consumer /\ ConsumeFails
        BY <3>5 DEF ConsumeFails, Settle
      <3> QED BY <1>5, <3>1, <3>2, <3>3, <3>4, <3>5
    <2> QED BY <2>1
  <1>6. ASSUME NEW s \in Sweeps,
               \/ Tick(s) \/ Scan(s) \/ ReadAll(s) \/ SweepMarked(s) \/ Count(s)
                 \/ CountTwice(s) \/ Postpone(s)
               \/ SendAgain(s) \/ ItemFails(s)
               \/ \E p \in batch[s] : LookUp(s, p)
        PROVE  \E x \in Sweeps : step'[x] # "idle"
    <2>1. step'[s] # "idle"
      BY <1>6 DEF Tick, Scan, ReadAll, SweepMarked, Count, CountTwice, Postpone,
          SendAgain, ItemFails, LookUp, NextStep, GoTo, TypeOK, Writers
    <2> QED BY <2>1
  <1>7. ASSUME NEW s \in Sweeps,
               (\E k \in Pairs : Read(s, k)) \/ (\E p \in batch[s] : LookupFails(s, p))
        PROVE  UNCHANGED <<running, step>>
    BY <1>7 DEF Read, LookupFails
  <1>8. ASSUME NEW s \in Sweeps, SweepEnds(s) \/ ScanFails(s)
        PROVE  FALSE
    BY <1>8 DEF SweepEnds, ScanFails, Closed
  <1>9. ~ Crash
    BY DEF Crash
  <1>10. UNCHANGED vars => UNCHANGED <<running, step>>
    BY DEF vars
  <1> HIDE DEF redis, kafka, outside, sweeps, hand, writers, local, bounds
  <1> QED BY <1>1, <1>2, <1>3, <1>4, <1>5, <1>6, <1>7, <1>8, <1>9, <1>10, Actions
          DEF AcceptStep, Writers

LEMMA KeeperStep == TypeOK /\ SweepInv /\ KeeperInv /\ [Next]_vars => KeeperInv'
  <1> SUFFICES ASSUME TypeOK, SweepInv, KeeperInv, [Next]_vars
               PROVE  KeeperInv'
    OBVIOUS
  <1>1. \A c \in Calls :
           /\ (call[c] = "DUPLICATE" => call'[c] = "DUPLICATE")
           /\ (call[c] \notin {"idle", "DUPLICATE"} => call'[c] \notin {"idle", "DUPLICATE"})
    BY CallSteps
  <1>2. ASSUME NEW k \in Pairs, hash'[k].user
        PROVE  \E c \in Calls : PairOf[c] = k /\ Keeps(c)'
    <2>1. hash[k].user \/ \E c \in Calls : PairOf[c] = k /\ Takes(c)
      BY <1>2, UserSteps
    <2>2. ASSUME NEW c \in Calls, PairOf[c] = k, Takes(c)
          PROVE  call'[c] = "hset" \/ (call'[c] = "DUPLICATE" /\ faults' = faults + 1)
      BY <2>2 DEF Takes, Reserve, ReserveTwice, Fault, Answer, TypeOK
    <2>3. faults \in Nat /\ (faults' = faults \/ faults' = faults + 1)
      BY FaultSteps
    <2>4. CASE hash[k].user
      BY <1>1, <2>3, <2>4 DEF KeeperInv, Keeps
    <2>5. CASE \E c \in Calls : PairOf[c] = k /\ Takes(c)
      BY <2>2, <2>3, <2>5 DEF Keeps
    <2> QED BY <2>1, <2>4, <2>5
  <1>3. ASSUME NEW c \in Calls, call'[c] = "ERROR"
        PROVE  faults' > 0
    <2>1. faults \in Nat /\ (faults' = faults \/ faults' = faults + 1)
      BY FaultSteps
    <2>2. call[c] = "ERROR" \/ faults' = faults + 1
      BY <1>3, CallSteps
    <2>3. call[c] = "ERROR" => faults > 0
      BY DEF KeeperInv
    <2> QED BY <2>1, <2>2, <2>3
  <1>4. running' => \E s \in Sweeps : step'[s] # "idle"
    BY GuardSteps DEF KeeperInv
  <1> QED BY <1>2, <1>3, <1>4 DEF KeeperInv

\* The two further invariants, on top of IInv.
LEMMA RequestsKnown == Spec => [](EntitledInv /\ RequestInv /\ KeeperInv)
  <1>1. Init => EntitledInv /\ RequestInv /\ KeeperInv
    BY DEF Init, EntitledInv, RequestInv, KeeperInv, Entitled, NoHash, Working, Writers
  <1>2. IInv => TypeOK /\ SweepInv
    BY DEF IInv
  <1> QED BY <1>1, <1>2, EntitledStep, RequestStep, KeeperStep, PendingInvariant, PTL DEF Spec

\* In its first life a pair has one requestId, the one of the call that was
\* answered ACCEPTED, in its hash, in Kafka and in the hands of a sweep.
OneRequest ==
    expiries = 0 =>
       /\ \A c \in Calls : call[c] = "ACCEPTED" => hash[PairOf[c]].request = c
       /\ \A r \in sending \union topic : hash[PairOf[r]].request = r
       /\ \A s \in Sweeps : Working(s) => item[s].request = hash[item[s].key].request

(* A user who asks twice, a sweep that republishes from what it has read,  *)
(* and a producer that still retries an old send never put a second        *)
(* requestId of the pair on its way: server-c and the user who polls see   *)
(* the one that accept() returned.                                         *)
THEOREM OneRequestPerPair == Spec => []OneRequest
  <1>1. RequestInv => OneRequest
    BY DEF RequestInv, OneRequest, Entitled
  <1> QED BY <1>1, RequestsKnown, PTL

\* A pair that is taken, being filled by no call, not concluded and not in the
\* zset ...
Stranded(k) ==
    /\ hash[k].user
    /\ \A c \in Calls : PairOf[c] = k => call[c] \notin {"hset", "expire", "zadd"}
    /\ ~ Concluded(k)
    /\ zset[k] = "out"

\* ... was left behind, in its first life, by an accept() that failed, or that
\* took its own reservation for another's.
StrandedByFailure ==
    expiries = 0 =>
       \A k \in Pairs : Stranded(k) =>
          faults > 0 /\ \E c \in Calls : PairOf[c] = k /\ call[c] \in {"ERROR", "DUPLICATE"}

(* What is true of the store's comment that its three commands need not be *)
(* atomic (ReservationRecoverable, which the run pending_orphan refutes):  *)
(* a reservation is stranded by nothing but an accept() that failed or     *)
(* died between them, and answered 500, or whose HSETNX was resent, and    *)
(* answered DUPLICATE; never by a sweep, a result, or another call.        *)
THEOREM OnlyFailuresStrand == Spec => []StrandedByFailure
  <1>1. ASSUME PromiseInv, KeeperInv, TypeOK
        PROVE  StrandedByFailure
    <2> SUFFICES ASSUME expiries = 0, NEW k \in Pairs, Stranded(k)
                 PROVE  faults > 0 /\ \E c \in Calls :
                           PairOf[c] = k /\ call[c] \in {"ERROR", "DUPLICATE"}
      BY DEF StrandedByFailure
    <2>1. PICK c \in Calls : PairOf[c] = k /\ Keeps(c)
      BY <1>1 DEF KeeperInv, Stranded
    <2>2. call[c] \notin {"publish", "await", "ACCEPTED"}
      BY <1>1, <2>1 DEF PromiseInv, Stranded
    <2>3. call[c] \in {"ERROR", "DUPLICATE"}
      BY <1>1, <2>1, <2>2 DEF TypeOK, Stranded, Keeps
    <2> QED BY <1>1, <2>1, <2>3 DEF KeeperInv, Keeps
  <1>2. IInv /\ KeeperInv => StrandedByFailure
    BY <1>1 DEF IInv
  <1> QED BY <1>2, RequestsKnown, PendingInvariant, PTL

\* The re-entrance flag is up exactly while a sweep is open, and one is.
GuardHeld ==
    /\ running <=> \E s \in Sweeps : step[s] # "idle"
    /\ \A s, t \in Sweeps : step[s] # "idle" /\ step[t] # "idle" => s = t

(* However a sweep ends, by its end, by an exception, by a crash, the flag *)
(* comes down with it: the scheduler is never locked out by a sweep that   *)
(* is gone, and two sweeps never work at once.                             *)
THEOREM SchedulerNeverLockedOut == Spec => []GuardHeld
  <1>1. SweepInv /\ KeeperInv => GuardHeld
    BY DEF SweepInv, KeeperInv, GuardHeld
  <1>2. IInv => SweepInv
    BY DEF IInv
  <1> QED BY <1>1, <1>2, RequestsKnown, PendingInvariant, PTL

-----------------------------------------------------------------------------
(* The three servers together.  A step of the system is a step of          *)
(* PendingIssue and a step of CouponIssuing, so that the theorems about    *)
(* each hold of it; LinkInv says how the state of the two is related.      *)

\* server-b's row is the status of server-c's, and server-a has turned a call
\* away only for a coupon type that has nothing left or has been restocked.
LinkInv ==
    /\ \A k \in Pairs : row[k] = coupon[k].status
    /\ turnedAway \subseteq Calls
    /\ \A c \in turnedAway : available[TypeOf[c]] = 0 \/ C!Restocked(TypeOf[c])

\* CouponIssuing's theorems, over the requests of the system.
P == INSTANCE CouponIssuingProofs WITH Requests <- Calls \union Others, NoRequest <- NoCall
-----------------------------------------------------------------------------
\* The kinds of steps.
LEMMA SystemCases ==
    ASSUME SystemNext
    PROVE  \/ ServerB
           \/ \E c \in Calls : TurnAway(c)
           \/ \E c \in Calls : Decide(c)
           \/ \E r \in Others : DecideOther(r)
           \/ \E t \in Types : Hint(t) \/ Restock(t)
BY DEF SystemNext

\* Every step is one of server-b, or leaves its variables alone.
LEMMA StepOfPending == [SystemNext]_systemVars => [Next]_vars
  <1> SUFFICES ASSUME [SystemNext]_systemVars
               PROVE  [Next]_vars
    OBVIOUS
  <1>1. CASE ServerB
    BY <1>1 DEF ServerB, Next
  <1>2. ASSUME NEW c \in Calls, TurnAway(c)
        PROVE  UNCHANGED vars
    BY <1>2 DEF TurnAway
  <1>3. ASSUME NEW c \in Calls, Decide(c)
        PROVE  Next
    BY <1>3 DEF Decide, Next, ServerC
  <1>4. ASSUME NEW r \in Others, DecideOther(r)
        PROVE  UNCHANGED vars
    BY <1>4 DEF DecideOther
  <1>5. ASSUME NEW t \in Types, Hint(t) \/ Restock(t)
        PROVE  UNCHANGED vars
    BY <1>5 DEF Hint, Restock
  <1>6. CASE UNCHANGED systemVars
    BY <1>6 DEF systemVars
  <1> QED BY <1>1, <1>2, <1>3, <1>4, <1>5, <1>6, SystemCases

\* Every step is one of server-c, or leaves its variables alone.
LEMMA StepOfIssuing == [SystemNext]_systemVars => [C!Next]_C!vars
  <1> SUFFICES ASSUME [SystemNext]_systemVars
               PROVE  [C!Next]_C!vars
    OBVIOUS
  <1>1. C!vars = serverC /\ C!vars' = serverC'
    BY DEF C!vars, serverC
  <1>2. CASE ServerB
    BY <1>1, <1>2 DEF ServerB
  <1>3. ASSUME NEW c \in Calls, TurnAway(c)
        PROVE  UNCHANGED serverC
    BY <1>3 DEF TurnAway
  <1>4. ASSUME NEW r \in Calls \union Others, Processed(r)
        PROVE  C!Next
    BY <1>4 DEF Processed, C!Next
  <1>5. ASSUME NEW t \in Types, Hint(t) \/ Restock(t)
        PROVE  C!Next
    BY <1>5 DEF Hint, Restock, C!Next
  <1>6. CASE UNCHANGED systemVars
    BY <1>1, <1>6 DEF systemVars
  <1> QED BY <1>1, <1>2, <1>3, <1>4, <1>5, <1>6, SystemCases DEF Decide, DecideOther, Processed

\* server-b, as part of the system, is server-b by itself.
LEMMA PendingBelow == SystemSpec => Spec
  BY StepOfPending, PTL DEF SystemSpec, SystemInit, Spec

(* What the system does to server-c's tables is the atomic issuing: no     *)
(* step of server-b or server-a reaches behind the processor.              *)
THEOREM IssuingKept == SystemSpec => C!Spec
  BY StepOfIssuing, PTL DEF SystemSpec, SystemInit, C!Spec

(* server-b keeps its promise also where server-c is the real one, which   *)
(* decides by its stock and serves other requests in between.              *)
THEOREM ReservationKept == SystemSpec => ImplementsReservation
  BY PendingBelow, ReservationImplemented, PTL
-----------------------------------------------------------------------------
LEMMA UsersFinite == IsFiniteSet(Users) /\ P!IsFiniteSet(Users)
  BY SystemAssumption DEF C!IssuingAssumption, C!IsFiniteSet, P!IsFiniteSet, IsFiniteSet

LEMMA SameInit == C!Init <=> P!Init
  BY DEF C!Init, P!Init, C!Keys, P!Keys, C!NoRow, P!NoRow

LEMMA SameNext == [C!Next]_C!vars <=> [P!Next]_P!vars
  <1>1. C!vars = P!vars /\ C!vars' = P!vars'
    BY DEF C!vars, P!vars
  <1>2. \A r, s : C!Record(r, s) <=> P!Record(r, s)
    BY DEF C!Record, P!Record, C!HasRow, P!HasRow, C!KeyOf, P!KeyOf
  <1>3. C!Next <=> P!Next
    BY <1>2 DEF C!Next, P!Next, C!Issue, P!Issue, C!RefuseSoldOut, P!RefuseSoldOut,
       C!RefuseInactive, P!RefuseInactive, C!HintSoldOut, P!HintSoldOut,
       C!ForgetHint, P!ForgetHint, C!Restock, P!Restock, C!Restocked, P!Restocked
  <1> QED BY <1>1, <1>3

LEMMA Promised == SystemSpec => P!Spec
  BY SameInit, SameNext, IssuingKept, PTL DEF C!Spec, P!Spec

\* What the theorems about CouponIssuing say of the system.
StockInv ==
    /\ C!TypeOK
    /\ C!InventoryConserved
    /\ C!SoldOutTruthful
    /\ \A t \in Types : total[t] >= Total[t]

LEMMA IssuingHolds == SystemSpec => []StockInv
  <1>1. P!Spec => []P!TypeOK
    BY P!TypeCorrect, SystemAssumption, UsersFinite DEF C!IssuingAssumption
  <1>2. P!Spec => []P!InventoryConserved
    BY P!Conserved, SystemAssumption, UsersFinite DEF C!IssuingAssumption
  <1>3. P!Spec => []P!SoldOutTruthful
    BY P!Truthful, SystemAssumption, UsersFinite DEF C!IssuingAssumption
  <1>4. P!TypeOK <=> C!TypeOK
    BY DEF C!TypeOK, P!TypeOK, C!Keys, P!Keys, C!Rows, P!Rows, C!NoRow, P!NoRow,
       C!Statuses, P!Statuses
  <1>5. P!InventoryConserved <=> C!InventoryConserved
    BY DEF C!InventoryConserved, P!InventoryConserved, C!Issued, P!Issued,
       C!Cardinality, P!Cardinality
  <1>6. P!SoldOutTruthful <=> C!SoldOutTruthful
    BY DEF C!SoldOutTruthful, P!SoldOutTruthful, C!Restocked, P!Restocked
  <1>7. P!Spec => []P!NeverShrinks
    BY P!Growing, SystemAssumption, UsersFinite DEF C!IssuingAssumption
  <1>8. P!NeverShrinks <=> \A t \in Types : total[t] >= Total[t]
    BY DEF P!NeverShrinks
  <1>9. P!TypeOK /\ P!InventoryConserved /\ P!SoldOutTruthful /\ P!NeverShrinks => StockInv
    BY <1>4, <1>5, <1>6, <1>8 DEF StockInv
  <1> QED BY <1>1, <1>2, <1>3, <1>7, <1>9, Promised, PTL
-----------------------------------------------------------------------------
\* What the two components and their link say of a state.
SystemInv == TypeOK /\ ResultTruthful /\ StockInv /\ LinkInv

LEMMA CallKeys ==
    /\ \A c \in Calls : PairOf[c] \in Pairs /\ TypeOf[c] \in Types
    /\ \A k \in Pairs : k \in C!Keys /\ k[1] \in Users /\ k[2] \in Types /\ k = <<k[1], k[2]>>
  BY PendingAssumption, SystemAssumption DEF C!IssuingAssumption, C!Keys

\* server-b has no way to change a row of server-c.
LEMMA OutsideKeepsRow ==
    ASSUME Outside
    PROVE  row' = row
  <1> USE DEF redis, kafka, outside, sweeps, hand, writers, local, bounds
  <1>1. ASSUME NEW c \in Calls, AcceptStep(c) \/ AcceptFails(c) \/ ReserveTwice(c)
        PROVE  row' = row
    BY <1>1 DEF AcceptStep, Reserve, WriteFields, SetTtl, Enqueue, Publish, Accepted,
           AcceptFails, ReserveTwice
  <1>2. ASSUME NEW s \in Sweeps, Tick(s) \/ SweepStep(s) \/ ScanFails(s) \/ ItemFails(s) \/ CountTwice(s)
        PROVE  row' = row
    BY <1>2 DEF Tick, SweepStep, Scan, ReadAll, SweepMarked, Count, CountTwice, Postpone,
          SendAgain, SweepEnds, MarkStatus, MarkCode, Read, LookUp, ScanFails, ItemFails
  <1>3. CASE ConsumerStep \/ ConsumeFails
    BY <1>3 DEF ConsumerStep, MarkStatus, MarkCode, Consumed, Consume, ConsumeFails
  <1>4. CASE Environment
    BY <1>4 DEF Environment, SendArrives, SendLost, ServeAgain, ServeGivesUp, Redeliver,
           Age, Expire
  <1>5. ASSUME NEW s \in Sweeps, NEW p \in batch[s], LookupFails(s, p)
        PROVE  row' = row
    BY <1>5 DEF LookupFails
  <1>6. CASE Crash
    BY <1>6 DEF Crash
  <1> HIDE DEF redis, kafka, outside, sweeps, hand, writers, local, bounds
  <1> QED BY <1>1, <1>2, <1>3, <1>4, <1>5, <1>6 DEF Outside, Failure

\* The processor writes one row, of the request's own key, and takes nothing
\* from a stock that is empty.
LEMMA ProcessedEffect ==
    ASSUME StockInv, NEW r \in Calls \union Others, Processed(r)
    PROVE  /\ \A k \in C!Keys : k # C!KeyOf(r) => coupon'[k] = coupon[k]
           /\ \A t \in Types : available[t] = 0 => available'[t] = 0
           /\ total' = total
  <1>1. \E s : C!Record(r, s)
    BY DEF Processed, C!Issue, C!RefuseSoldOut, C!RefuseInactive
  <1>2. \A k \in C!Keys : k # C!KeyOf(r) => coupon'[k] = coupon[k]
    BY <1>1 DEF C!Record, StockInv, C!TypeOK
  <1>3. \A t \in Types : available[t] = 0 => available'[t] = 0
    BY DEF Processed, C!Issue, C!RefuseSoldOut, C!RefuseInactive, StockInv, C!TypeOK
  <1>4. total' = total
    BY <1>1 DEF C!Record
  <1> QED BY <1>2, <1>3, <1>4

LEMMA LinkInit == SystemInit => LinkInv
  BY CallKeys DEF SystemInit, Init, C!Init, C!NoRow, LinkInv

LEMMA LinkStep == SystemInv /\ [SystemNext]_systemVars => LinkInv'
  <1> SUFFICES ASSUME SystemInv, [SystemNext]_systemVars
               PROVE  LinkInv'
    OBVIOUS
  <1> USE DEF SystemInv
  <1>1. CASE ServerB
    <2>1. row' = row /\ UNCHANGED <<serverC, turnedAway>>
      BY <1>1, OutsideKeepsRow DEF ServerB
    <2> QED BY <2>1 DEF LinkInv, serverC, C!Restocked
  <1>2. ASSUME NEW c \in Calls, TurnAway(c)
        PROVE  LinkInv'
    <2>1. available[TypeOf[c]] = 0 \/ C!Restocked(TypeOf[c])
      BY <1>2, CallKeys DEF TurnAway, StockInv, C!SoldOutTruthful
    <2>2. /\ turnedAway' = turnedAway \union {c} /\ row' = row
          /\ coupon' = coupon /\ available' = available /\ total' = total
      BY <1>2 DEF TurnAway, serverC, vars, outside
    <2> QED BY <2>1, <2>2 DEF LinkInv, C!Restocked
  <1>3. ASSUME NEW c \in Calls, Decide(c)
        PROVE  LinkInv'
    <2>1. /\ Processed(c) /\ turnedAway' = turnedAway
          /\ row'[PairOf[c]] = coupon'[PairOf[c]].status
          /\ \A k \in Pairs : k # PairOf[c] => row'[k] = row[k]
      BY <1>3, CallKeys DEF Decide, Serve, TypeOK
    <2>2. \A k \in Pairs : k # PairOf[c] => coupon'[k] = coupon[k]
      BY <2>1, CallKeys, ProcessedEffect, SystemAssumption
    <2>3. total' = total /\ \A t \in Types : available[t] = 0 => available'[t] = 0
      BY <2>1, ProcessedEffect
    <2> QED BY <2>1, <2>2, <2>3, CallKeys DEF LinkInv, C!Restocked
  <1>4. ASSUME NEW r \in Others, DecideOther(r)
        PROVE  LinkInv'
    <2>1. Processed(r) /\ turnedAway' = turnedAway /\ row' = row
      BY <1>4 DEF DecideOther, Processed, vars, outside
    <2>2. \A k \in Pairs : coupon'[k] = coupon[k]
      BY <2>1, CallKeys, ProcessedEffect, SystemAssumption
    <2>3. total' = total /\ \A t \in Types : available[t] = 0 => available'[t] = 0
      BY <2>1, ProcessedEffect
    <2> QED BY <2>1, <2>2, <2>3, CallKeys DEF LinkInv, C!Restocked
  <1>5. ASSUME NEW t \in Types, Hint(t)
        PROVE  LinkInv'
    <2>1. UNCHANGED <<row, coupon, available, total, turnedAway>>
      BY <1>5 DEF Hint, C!HintSoldOut, C!ForgetHint, vars, outside
    <2> QED BY <2>1 DEF LinkInv, C!Restocked
  <1>6. ASSUME NEW t \in Types, Restock(t)
        PROVE  LinkInv'
    <2>1. /\ UNCHANGED <<row, coupon, turnedAway>>
          /\ \A q \in Types : q # t => available'[q] = available[q] /\ total'[q] = total[q]
          /\ total'[t] > Total[t]
      <3>1. /\ total[t] >= Total[t] /\ total[t] \in Nat /\ Total[t] \in Nat /\ MaxTotal \in Nat
        BY SystemAssumption DEF StockInv, C!TypeOK, C!IssuingAssumption
      <3>2. PICK n \in 1 .. (MaxTotal - total[t]) :
                   /\ available' = [available EXCEPT ![t] = @ + n]
                   /\ total' = [total EXCEPT ![t] = @ + n]
        BY <1>6 DEF Restock, C!Restock
      <3>3. total'[t] = total[t] + n
        BY <3>2 DEF StockInv, C!TypeOK
      <3>4. n \in Nat /\ n > 0
        BY <3>1
      <3>5. total'[t] > Total[t]
        BY <3>1, <3>3, <3>4
      <3> QED BY <1>6, <3>2, <3>5 DEF Restock, C!Restock, StockInv, C!TypeOK, vars, outside
    <2> QED BY <2>1, CallKeys DEF LinkInv, C!Restocked
  <1>7. CASE UNCHANGED systemVars
    <2>1. UNCHANGED <<row, coupon, available, total, turnedAway>>
      BY <1>7 DEF systemVars, serverC, vars, outside
    <2> QED BY <2>1 DEF LinkInv, C!Restocked
  <1> QED BY <1>1, <1>2, <1>3, <1>4, <1>5, <1>6, <1>7, SystemCases

(* The tables of the two servers agree in every reachable state, and       *)
(* server-a has turned nobody away for a coupon type with stock left that  *)
(* was not restocked since.                                                *)
THEOREM SystemInvariant == SystemSpec => []SystemInv
  <1>1. SystemSpec => [](TypeOK /\ ResultTruthful)
    BY PendingBelow, TypeCorrect, Truthful, PTL
  <1>2. TypeOK /\ ResultTruthful /\ StockInv => (LinkInv => SystemInv)
    BY DEF SystemInv
  <1>3. SystemInv => LinkInv
    BY DEF SystemInv
  <1> QED BY <1>1, <1>2, <1>3, IssuingHolds, LinkInit, LinkStep, PTL DEF SystemSpec
-----------------------------------------------------------------------------
\* A SUCCESS that server-b shows is a coupon issued to that user.
LEMMA ShownIsIssued ==
    ASSUME SystemInv, NEW t \in Types
    PROVE  ShownAs("SUCCESS", t) \subseteq C!Issued(t) \X {t}
  <1> SUFFICES ASSUME NEW k \in Pairs, k[2] = t, hash[k].status = "SUCCESS"
               PROVE  k \in C!Issued(t) \X {t}
    BY DEF ShownAs
  <1>1. k[1] \in Users /\ k = <<k[1], t>> /\ k \in C!Keys
    BY CallKeys
  <1>2. coupon[k].status \in {"SUCCESS", "USED"}
    BY DEF SystemInv, ResultTruthful, LinkInv
  <1>3. coupon[k].status \in {"none", "SUCCESS", "SOLD_OUT", "FAILED"}
    BY <1>1 DEF SystemInv, StockInv, C!TypeOK, C!Rows, C!NoRow, C!Statuses
  <1>4. coupon[<<k[1], t>>].status = "SUCCESS"
    BY <1>1, <1>2, <1>3
  <1>5. k[1] \in C!Issued(t)
    BY <1>1, <1>4 DEF C!Issued
  <1> QED BY <1>1, <1>5

\* There are at most as many of them as coupons that have left the stock.
LEMMA SuccessesCounted ==
    ASSUME SystemInv, NEW t \in Types
    PROVE  Cardinality(ShownAs("SUCCESS", t)) + available[t] <= total[t]
  <1> DEFINE I == C!Issued(t)
             S == ShownAs("SUCCESS", t)
  <1>1. IsFiniteSet(I)
    BY UsersFinite, FS_Subset DEF C!Issued
  <1>2. IsFiniteSet({t}) /\ Cardinality({t}) = 1
    BY FS_Singleton
  <1>3. IsFiniteSet(I \X {t}) /\ Cardinality(I \X {t}) = Cardinality(I) * 1
    BY <1>1, <1>2, FS_Product
  <1>4. S \in SUBSET (I \X {t})
    BY ShownIsIssued
  <1>5. Cardinality(S) <= Cardinality(I \X {t}) /\ IsFiniteSet(S)
    BY <1>3, <1>4, FS_Subset
  <1>6. Cardinality(I) \in Nat /\ Cardinality(S) \in Nat
    BY <1>1, <1>5, FS_CardinalityType
  <1>7. available[t] + Cardinality(I) = total[t] /\ available[t] \in Nat /\ total[t] \in Nat
    BY DEF SystemInv, StockInv, C!InventoryConserved, C!TypeOK, C!Cardinality, Cardinality
  <1> HIDE DEF I, S
  <1>8. Cardinality(S) + available[t] <= total[t]
    BY <1>3, <1>5, <1>6, <1>7
  <1> QED BY <1>8 DEF S

\* Whoever is told SOLD_OUT is told so when the stock is empty, or a
\* restock has come since.
LEMMA SoldOutCounted ==
    ASSUME SystemInv, NEW t \in Types,
           ShownAs("SOLD_OUT", t) # {} \/ (\E c \in turnedAway : TypeOf[c] = t)
    PROVE  available[t] = 0 \/ C!Restocked(t)
  <1>1. ASSUME NEW k \in Pairs, k[2] = t, hash[k].status = "SOLD_OUT"
        PROVE  available[t] = 0 \/ C!Restocked(t)
    <2>1. k[1] \in Users /\ k = <<k[1], t>>
      BY <1>1, CallKeys
    <2>2. coupon[<<k[1], t>>].status = "SOLD_OUT"
      BY <1>1, <2>1 DEF SystemInv, ResultTruthful, LinkInv
    <2> QED BY <2>1, <2>2 DEF SystemInv, StockInv, C!SoldOutTruthful
  <1>2. ASSUME NEW c \in turnedAway, TypeOf[c] = t
        PROVE  available[t] = 0 \/ C!Restocked(t)
    BY <1>2 DEF SystemInv, LinkInv
  <1> QED BY <1>1, <1>2 DEF ShownAs

(* Whatever the order of requests, sweeps, messages, crashes and hints:    *)
(* the users told SUCCESS never outnumber the coupons that have left the   *)
(* stock, and nobody is told SOLD_OUT, by server-b or by server-a's short  *)
(* cut, while one is left of a type that has never been restocked.         *)
THEOREM AnswersAgree == SystemSpec => []AnswersAddUp
  <1>1. SystemInv => AnswersAddUp
    BY SuccessesCounted, SoldOutCounted DEF AnswersAddUp
  <1> QED BY <1>1, SystemInvariant, PTL
-----------------------------------------------------------------------------
(* Whose request a coupon is.                                              *)

\* A row of a pair is of one of its calls, one that server-a let through and
\* server-b did not refuse; in the first life of the pair, the one in the hash.
RowInv ==
    /\ \A c \in turnedAway : call[c] = "idle"
    /\ \A k \in Pairs : coupon[k].status # "none" =>
          /\ coupon[k].request \in Calls
          /\ Entitled(coupon[k].request)
          /\ expiries = 0 => coupon[k].request = hash[k].request

\* server-b's side of it.
PendingInv == IInv /\ EntitledInv /\ RequestInv

LEMMA PendingHolds == SystemSpec => []PendingInv
  <1>1. IInv /\ EntitledInv /\ RequestInv => PendingInv
    BY DEF PendingInv
  <1> QED BY <1>1, PendingBelow, PendingInvariant, RequestsKnown, PTL

\* The row that the processor writes bears the request.
LEMMA ProcessedRow ==
    ASSUME StockInv, NEW r \in Calls \union Others, Processed(r)
    PROVE  coupon'[C!KeyOf(r)].request = r
  <1>1. PICK s : C!Record(r, s)
    BY DEF Processed, C!Issue, C!RefuseSoldOut, C!RefuseInactive
  <1>2. C!KeyOf(r) \in C!Keys
    BY SystemAssumption DEF C!IssuingAssumption, C!KeyOf, C!Keys
  <1> QED BY <1>1, <1>2 DEF C!Record, StockInv, C!TypeOK

\* While server-b writes, the requestId of a pair that has its row stays.
LEMMA RowKeepsRequest ==
    ASSUME SystemInv, PendingInv, ServerB, NEW k \in Pairs, coupon[k].status # "none",
           expiries' = 0
    PROVE  expiries = 0 /\ hash'[k].request = hash[k].request
  <1>1. TypeOK /\ [Next]_vars /\ UntouchedInv
    BY DEF SystemInv, PendingInv, IInv, ServerB, Next
  <1>2. expiries = 0
    BY <1>1, FreshBefore
  <1>3. row[k] # "none"
    BY DEF SystemInv, LinkInv
  <1>4. \A j \in Pairs : ~ Expire(j)
    BY <1>1, <1>2, PendingAssumption DEF Expire, TypeOK
  <1>5. ASSUME NEW c \in Calls, WriteFields(c)
        PROVE  hash'[k].request = hash[k].request
    <2>1. call[c] = "hset" /\ PairOf[c] \in Pairs
      BY <1>5, PendingAssumption DEF WriteFields
    <2>2. row[PairOf[c]] = "none"
      BY <1>1, <1>2, <2>1 DEF UntouchedInv, Fresh, Untouched
    <2> QED BY <1>1, <1>3, <1>5, <2>1, <2>2 DEF WriteFields, TypeOK, Hashes
  <1> QED BY <1>1, <1>2, <1>4, <1>5, RequestSteps

LEMMA RowStep == SystemInv /\ PendingInv /\ RowInv /\ [SystemNext]_systemVars => RowInv'
  <1> SUFFICES ASSUME SystemInv, PendingInv, RowInv, [SystemNext]_systemVars
               PROVE  RowInv'
    OBVIOUS
  <1>1. TypeOK /\ StockInv /\ LinkInv
    BY DEF SystemInv
  <1>2. CASE ServerB
    <2>1. [Next]_vars /\ coupon' = coupon /\ turnedAway' = turnedAway
      BY <1>2 DEF ServerB, Next, serverC
    <2>2. \A c \in turnedAway : call'[c] = "idle"
      BY <1>2 DEF ServerB, RowInv
    <2>3. \A c \in Calls : Entitled(c) => Entitled(c)'
      BY <1>1, <2>1, EntitledStays
    <2>4. ASSUME NEW k \in Pairs, coupon[k].status # "none"
          PROVE  /\ coupon[k].request \in Calls
                 /\ call'[coupon[k].request] \notin {"idle", "hset", "DUPLICATE"}
                 /\ expiries' = 0 => coupon[k].request = hash'[k].request
      <3>1. coupon[k].request \in Calls /\ Entitled(coupon[k].request)
        BY <2>4 DEF RowInv
      <3>2. expiries' = 0 => coupon[k].request = hash'[k].request
        BY <1>2, <2>4, RowKeepsRequest DEF RowInv
      <3> QED BY <2>3, <3>1, <3>2 DEF Entitled
    <2> QED BY <2>1, <2>2, <2>4 DEF RowInv, Entitled
  <1>3. ASSUME UNCHANGED <<coupon, vars>>,
               \A c \in turnedAway' : call[c] = "idle"
        PROVE  RowInv'
    <2>1. UNCHANGED <<coupon, hash, call, expiries>>
      BY <1>3 DEF vars, redis, local, bounds
    <2> QED BY <1>3, <2>1 DEF RowInv, Entitled
  <1>4. ASSUME NEW c \in Calls, TurnAway(c)
        PROVE  RowInv'
    <2>1. UNCHANGED <<coupon, vars>> /\ turnedAway' = turnedAway \union {c} /\ call[c] = "idle"
      BY <1>4 DEF TurnAway, serverC
    <2> QED BY <1>3, <2>1 DEF RowInv
  <1>5. ASSUME NEW c \in Calls, Decide(c)
        PROVE  RowInv'
    <2>1. /\ c \in topic /\ Processed(c)
          /\ UNCHANGED <<hash, call, expiries, turnedAway>>
      BY <1>5 DEF Decide, Serve, redis, local, bounds
    <2>2. coupon'[PairOf[c]].request = c
      BY <1>1, <2>1, ProcessedRow, SystemAssumption
    <2>3. \A k \in Pairs : k # PairOf[c] => coupon'[k] = coupon[k]
      BY <1>1, <2>1, CallKeys, ProcessedEffect, SystemAssumption
    <2>4. Entitled(c) /\ (expiries = 0 => hash[PairOf[c]].request = c)
      BY <2>1 DEF PendingInv, EntitledInv, RequestInv
    <2> QED BY <2>1, <2>2, <2>3, <2>4 DEF RowInv, Entitled
  <1>6. ASSUME NEW r \in Others, DecideOther(r)
        PROVE  RowInv'
    <2>1. Processed(r) /\ UNCHANGED <<hash, call, expiries, turnedAway>>
      BY <1>6 DEF DecideOther, Processed, vars, redis, local, bounds
    <2>2. \A k \in Pairs : coupon'[k] = coupon[k]
      BY <1>1, <2>1, CallKeys, ProcessedEffect, SystemAssumption
    <2> QED BY <2>1, <2>2 DEF RowInv, Entitled
  <1>7. ASSUME NEW t \in Types, Hint(t) \/ Restock(t)
        PROVE  RowInv'
    <2>1. UNCHANGED <<coupon, vars, turnedAway>>
      BY <1>7 DEF Hint, Restock, C!HintSoldOut, C!ForgetHint, C!Restock
    <2> QED BY <1>3, <2>1 DEF RowInv
  <1>8. CASE UNCHANGED systemVars
    <2>1. UNCHANGED <<coupon, vars, turnedAway>>
      BY <1>8 DEF systemVars, serverC
    <2> QED BY <1>3, <2>1 DEF RowInv
  <1> QED BY <1>2, <1>4, <1>5, <1>6, <1>7, <1>8, SystemCases

LEMMA RowsKnown == SystemSpec => []RowInv
  <1>1. SystemInit => RowInv
    BY CallKeys DEF SystemInit, Init, C!Init, C!NoRow, RowInv
  <1> QED BY <1>1, RowStep, SystemInvariant, PendingHolds, PTL DEF SystemSpec

\* Nobody's refused request takes a coupon.
RefusedCostsNothing ==
    \A k \in Pairs, c \in Calls :
       coupon[k].status # "none" /\ coupon[k].request = c =>
          c \notin turnedAway /\ call[c] # "DUPLICATE"

(* A user who was told SOLD_OUT by server-a or DUPLICATE by server-b has   *)
(* not used up a coupon with that request, whatever is repeated, late or   *)
(* republished afterwards.                                                 *)
THEOREM NoCouponForTheRefused == SystemSpec => []RefusedCostsNothing
  <1>1. RowInv => RefusedCostsNothing
    BY DEF RowInv, RefusedCostsNothing, Entitled
  <1> QED BY <1>1, RowsKnown, PTL

\* The row of a pair, and the one result announced of it, are those of the
\* request that was answered ACCEPTED.
AcceptedIsServed ==
    expiries = 0 =>
       \A c \in Calls : call[c] = "ACCEPTED" /\ row[PairOf[c]] # "none" =>
          /\ coupon[PairOf[c]].request = c
          /\ outbox[c] = <<row[PairOf[c]]>>

(* From end to end: the requestId accept() has returned is the one that    *)
(* server-c decides under, and it decides once.  Only in the first life of *)
(* the reservation: after an expiry a second call is accepted, and server-c *)
(* answers it with the row of the first.                                   *)
THEOREM AcceptedDecidedOnce == SystemSpec => []AcceptedIsServed
  <1>1. SystemSpec => []C!ResultRecordedOnce
    <2>1. P!Spec => []P!ResultRecordedOnce
      BY P!RecordedOnce, SystemAssumption, UsersFinite DEF C!IssuingAssumption
    <2>2. P!ResultRecordedOnce <=> C!ResultRecordedOnce
      BY DEF C!ResultRecordedOnce, P!ResultRecordedOnce, C!Keys, P!Keys, C!HasRow, P!HasRow,
         C!KeyOf, P!KeyOf
    <2> QED BY <2>1, <2>2, Promised, PTL
  <1>2. ASSUME SystemInv, PendingInv, RowInv, C!ResultRecordedOnce
        PROVE  AcceptedIsServed
    <2> SUFFICES ASSUME expiries = 0, NEW c \in Calls, call[c] = "ACCEPTED", row[PairOf[c]] # "none"
                 PROVE  /\ coupon[PairOf[c]].request = c
                        /\ outbox[c] = <<row[PairOf[c]]>>
      BY DEF AcceptedIsServed
    <2>1. PairOf[c] \in Pairs /\ PairOf[c] \in C!Keys
      BY CallKeys
    <2>2. coupon[PairOf[c]].status = row[PairOf[c]]
      BY <1>2, <2>1 DEF SystemInv, LinkInv
    <2>3. coupon[PairOf[c]].request = hash[PairOf[c]].request
      BY <1>2, <2>1, <2>2 DEF RowInv
    <2>4. hash[PairOf[c]].request = c
      BY <1>2 DEF PendingInv, RequestInv, Entitled
    <2>5. outbox[c] = <<row[PairOf[c]]>>
      BY <1>2, <2>1, <2>2, <2>3, <2>4 DEF C!ResultRecordedOnce, C!HasRow
    <2> QED BY <2>3, <2>4, <2>5
  <1>3. SystemInv /\ PendingInv /\ RowInv /\ C!ResultRecordedOnce => AcceptedIsServed
    BY <1>2
  <1> QED BY <1>1, <1>3, SystemInvariant, PendingHolds, RowsKnown, PTL
=============================================================================
