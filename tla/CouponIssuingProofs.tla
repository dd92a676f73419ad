------------------------ MODULE CouponIssuingProofs ------------------------
(***************************************************************************)
(* The atomic issuing of CouponIssuing conserves the stock, records every  *)
(* result once and never says "sold out" too early, for any sets of users, *)
(* coupon types and requests, any totals and any restocks.                 *)
(***************************************************************************)
EXTENDS CouponIssuing, FiniteSetTheorems, TLAPS

\* Every step that concludes a request does Record and leaves a status.
LEMMA NextCases ==
    ASSUME Next
    PROVE  \/ \E r \in Requests : Issue(r)
           \/ \E r \in Requests : RefuseSoldOut(r)
           \/ \E r \in Requests : RefuseInactive(r)
           \/ \E t \in Types : HintSoldOut(t)
           \/ \E t \in Types : ForgetHint(t)
           \/ \E t \in Types : Restock(t)
BY DEF Next

\* What a restock adds, it adds to both counts of one type.
LEMMA RestockEffect ==
    ASSUME TypeOK, NEW s \in Types, Restock(s)
    PROVE  \E n \in Nat :
              /\ n > 0
              /\ available' = [available EXCEPT ![s] = available[s] + n]
              /\ total' = [total EXCEPT ![s] = total[s] + n]
<1>1. MaxTotal \in Nat /\ total[s] \in Nat
  BY IssuingAssumption DEF TypeOK
<1>2. PICK n \in 1 .. (MaxTotal - total[s]) :
               /\ available' = [available EXCEPT ![s] = @ + n]
               /\ total' = [total EXCEPT ![s] = @ + n]
  BY DEF Restock
<1>3. n \in Nat /\ n > 0
  BY <1>1
<1>4. QED
  BY <1>2, <1>3

LEMMA KeyOfType ==
    ASSUME NEW r \in Requests
    PROVE  KeyOf(r) \in Keys /\ UserOf[r] \in Users /\ TypeOf[r] \in Types
BY IssuingAssumption DEF KeyOf, Keys

LEMMA AppendType ==
    ASSUME NEW S, NEW s \in Seq(S), NEW e \in S
    PROVE  Append(s, e) \in Seq(S)
OBVIOUS

\* Recording a result keeps the tables well typed.
LEMMA RecordType ==
    ASSUME TypeOK, NEW r \in Requests, NEW s \in Statuses, Record(r, s)
    PROVE  /\ coupon' \in [Keys -> Rows \union {NoRow}]
           /\ outbox' \in [Requests -> Seq(Statuses)]
           /\ soldOutKey' \in [Types -> BOOLEAN]
           /\ total' \in [Types -> Nat]
<1>1. [status |-> s, request |-> r] \in Rows
  BY DEF Rows
<1>2. outbox[r] \in Seq(Statuses)
  BY DEF TypeOK
<1>3. Append(outbox[r], s) \in Seq(Statuses)
  BY <1>2, AppendType
<1>4. KeyOf(r) \in Keys
  BY KeyOfType
<1>5. QED
  BY <1>1, <1>3, <1>4 DEF TypeOK, Record

(* The tables hold what their columns allow: in particular the stock is a  *)
(* natural number, so no interleaving drives it below zero.                *)
THEOREM TypeCorrect == Spec => []TypeOK
<1>1. Init => TypeOK
  BY IssuingAssumption DEF Init, TypeOK, NoRow
<1>2. TypeOK /\ [Next]_vars => TypeOK'
  <2> SUFFICES ASSUME TypeOK, [Next]_vars
               PROVE  TypeOK'
    OBVIOUS
  <2>1. ASSUME NEW r \in Requests, Issue(r)
        PROVE  TypeOK'
    <3>1. available' \in [Types -> Nat]
      BY <2>1, KeyOfType DEF Issue, TypeOK
    <3>2. Record(r, "SUCCESS") /\ "SUCCESS" \in Statuses
      BY <2>1 DEF Issue, Statuses
    <3>3. QED
      BY <3>1, <3>2, RecordType DEF TypeOK
  <2>2. ASSUME NEW r \in Requests, RefuseSoldOut(r)
        PROVE  TypeOK'
    <3>1. Record(r, "SOLD_OUT") /\ "SOLD_OUT" \in Statuses /\ available' = available
      BY <2>2 DEF RefuseSoldOut, Statuses
    <3>2. QED
      BY <3>1, RecordType DEF TypeOK
  <2>3. ASSUME NEW r \in Requests, RefuseInactive(r)
        PROVE  TypeOK'
    <3>1. Record(r, "FAILED") /\ "FAILED" \in Statuses /\ available' = available
      BY <2>3 DEF RefuseInactive, Statuses
    <3>2. QED
      BY <3>1, RecordType DEF TypeOK
  <2>4. ASSUME NEW t \in Types, HintSoldOut(t) \/ ForgetHint(t)
        PROVE  TypeOK'
    BY <2>4 DEF HintSoldOut, ForgetHint, TypeOK
  <2>5. ASSUME NEW t \in Types, Restock(t)
        PROVE  TypeOK'
    <3>1. PICK n \in Nat : /\ available' = [available EXCEPT ![t] = available[t] + n]
                           /\ total' = [total EXCEPT ![t] = total[t] + n]
      BY <2>5, RestockEffect
    <3>2. available[t] + n \in Nat /\ total[t] + n \in Nat
      BY DEF TypeOK
    <3>3. QED
      BY <2>5, <3>1, <3>2 DEF Restock, TypeOK
  <2>6. CASE UNCHANGED vars
    BY <2>6 DEF vars, TypeOK
  <2>7. QED
    BY <2>1, <2>2, <2>3, <2>4, <2>5, <2>6, NextCases
<1>3. QED
  BY <1>1, <1>2, PTL DEF Spec
-----------------------------------------------------------------------------
LEMMA IssuedFinite ==
    ASSUME NEW t
    PROVE  IsFiniteSet(Issued(t)) /\ Cardinality(Issued(t)) \in Nat
<1>1. Issued(t) \subseteq Users
  BY DEF Issued
<1>2. QED
  BY <1>1, IssuingAssumption, FS_Subset, FS_CardinalityType

\* A result other than SUCCESS issues nothing.
LEMMA RefusedKeepsIssued ==
    ASSUME TypeOK, NEW r \in Requests, NEW s \in {"SOLD_OUT", "FAILED"},
           Record(r, s), NEW t \in Types
    PROVE  Issued(t)' = Issued(t)
<1>1. ASSUME NEW u \in Users
      PROVE  coupon'[<<u, t>>].status = "SUCCESS" <=> coupon[<<u, t>>].status = "SUCCESS"
  <2>1. <<u, t>> \in Keys
    BY DEF Keys
  <2>2. CASE <<u, t>> = KeyOf(r)
    BY <2>1, <2>2 DEF Record, HasRow, TypeOK
  <2>3. CASE <<u, t>> # KeyOf(r)
    BY <2>1, <2>3 DEF Record, TypeOK
  <2>4. QED
    BY <2>2, <2>3
<1>2. QED
  BY <1>1 DEF Issued

\* A SUCCESS adds its user to those who hold a coupon of its type, and to no
\* other type's.
LEMMA SuccessAddsUser ==
    ASSUME TypeOK, NEW r \in Requests, Record(r, "SUCCESS"), NEW t \in Types
    PROVE  /\ t = TypeOf[r] => /\ UserOf[r] \notin Issued(t)
                               /\ Issued(t)' = Issued(t) \union {UserOf[r]}
           /\ t # TypeOf[r] => Issued(t)' = Issued(t)
<1>1. UserOf[r] \in Users /\ KeyOf(r) \in Keys
  BY KeyOfType
<1>2. CASE t = TypeOf[r]
  <2>1. UserOf[r] \notin Issued(t)
    BY <1>2 DEF Issued, Record, HasRow, KeyOf
  <2>2. ASSUME NEW u \in Users
        PROVE  coupon'[<<u, t>>].status = "SUCCESS"
                 <=> coupon[<<u, t>>].status = "SUCCESS" \/ u = UserOf[r]
    <3>1. <<u, t>> \in Keys
      BY DEF Keys
    <3>2. <<u, t>> = KeyOf(r) <=> u = UserOf[r]
      BY <1>2 DEF KeyOf
    <3>3. QED
      BY <3>1, <3>2 DEF Record, TypeOK
  <2>3. Issued(t)' = Issued(t) \union {UserOf[r]}
    BY <2>2, <1>1 DEF Issued
  <2>4. QED
    BY <1>2, <2>1, <2>3
<1>3. CASE t # TypeOf[r]
  <2>1. ASSUME NEW u \in Users
        PROVE  coupon'[<<u, t>>] = coupon[<<u, t>>]
    <3>1. <<u, t>> \in Keys /\ <<u, t>> # KeyOf(r)
      BY <1>3 DEF Keys, KeyOf
    <3>2. QED
      BY <3>1 DEF Record, TypeOK
  <2>2. QED
    BY <1>3, <2>1 DEF Issued
<1>4. QED
  BY <1>2, <1>3

(* The stock left and the coupons issued add up to the total for ever.     *)
(* Inductive as it stands, given the types: a SUCCESS adds a user who held *)
(* nothing and takes one from the count, a restock adds as much to the     *)
(* count as to the total; nothing else touches them.                       *)
THEOREM Conserved == Spec => []InventoryConserved
<1>1. Init => InventoryConserved
  <2> SUFFICES ASSUME Init, NEW t \in Types
               PROVE  available[t] + Cardinality(Issued(t)) = total[t]
    BY DEF InventoryConserved
  <2>1. \A u \in Users : coupon[<<u, t>>].status = "none"
    BY DEF Init, NoRow, Keys
  <2>2. Issued(t) = {}
    BY <2>1 DEF Issued
  <2>3. Cardinality(Issued(t)) = 0
    BY <2>2, FS_EmptySet
  <2>4. QED
    BY <2>3, IssuingAssumption DEF Init
<1>2. TypeOK /\ InventoryConserved /\ [Next]_vars => InventoryConserved'
  <2> SUFFICES ASSUME TypeOK, InventoryConserved, [Next]_vars, NEW t \in Types
               PROVE  (available[t] + Cardinality(Issued(t)) = total[t])'
    BY DEF InventoryConserved
  <2>0. /\ available[t] + Cardinality(Issued(t)) = total[t]
        /\ Cardinality(Issued(t)) \in Nat /\ IsFiniteSet(Issued(t))
        /\ available[t] \in Nat /\ total[t] \in Nat
    BY IssuedFinite DEF InventoryConserved, TypeOK
  <2>1. ASSUME NEW r \in Requests, Issue(r)
        PROVE  (available[t] + Cardinality(Issued(t)) = total[t])'
    <3>0. Record(r, "SUCCESS") /\ total' = total
      BY <2>1 DEF Issue, Record
    <3>1. CASE t = TypeOf[r]
      <4>1. Issued(t)' = Issued(t) \union {UserOf[r]} /\ UserOf[r] \notin Issued(t)
        BY <3>0, <3>1, SuccessAddsUser
      <4>2. Cardinality(Issued(t)') = Cardinality(Issued(t)) + 1
        BY <4>1, <2>0, FS_AddElement
      <4>3. available'[t] = available[t] - 1 /\ available[t] \in Nat
        BY <2>1, <3>1 DEF Issue, TypeOK
      <4>4. QED
        BY <3>0, <4>2, <4>3, <2>0
    <3>2. CASE t # TypeOf[r]
      <4>1. Issued(t)' = Issued(t)
        BY <3>0, <3>2, SuccessAddsUser
      <4>2. available'[t] = available[t]
        BY <2>1, <3>2 DEF Issue, TypeOK
      <4>3. QED
        BY <3>0, <4>1, <4>2, <2>0
    <3>3. QED
      BY <3>1, <3>2
  <2>2. ASSUME NEW r \in Requests, RefuseSoldOut(r)
        PROVE  (available[t] + Cardinality(Issued(t)) = total[t])'
    <3>1. Record(r, "SOLD_OUT") /\ available' = available /\ total' = total
      BY <2>2 DEF RefuseSoldOut, Record
    <3>2. Issued(t)' = Issued(t)
      BY <3>1, RefusedKeepsIssued
    <3>3. QED
      BY <3>1, <3>2, <2>0
  <2>3. ASSUME NEW r \in Requests, RefuseInactive(r)
        PROVE  (available[t] + Cardinality(Issued(t)) = total[t])'
    <3>1. Record(r, "FAILED") /\ available' = available /\ total' = total
      BY <2>3 DEF RefuseInactive, Record
    <3>2. Issued(t)' = Issued(t)
      BY <3>1, RefusedKeepsIssued
    <3>3. QED
      BY <3>1, <3>2, <2>0
  <2>4. ASSUME NEW s \in Types, HintSoldOut(s) \/ ForgetHint(s)
        PROVE  (available[t] + Cardinality(Issued(t)) = total[t])'
    BY <2>4, <2>0 DEF HintSoldOut, ForgetHint, Issued
  <2>5. ASSUME NEW s \in Types, Restock(s)
        PROVE  (available[t] + Cardinality(Issued(t)) = total[t])'
    <3>1. PICK n \in Nat : /\ available' = [available EXCEPT ![s] = available[s] + n]
                           /\ total' = [total EXCEPT ![s] = total[s] + n]
      BY <2>5, RestockEffect
    <3>2. Issued(t)' = Issued(t)
      BY <2>5 DEF Restock, Issued
    <3>3. CASE t = s
      BY <2>0, <3>1, <3>2, <3>3 DEF TypeOK
    <3>4. CASE t # s
      BY <2>0, <3>1, <3>2, <3>4 DEF TypeOK
    <3>5. QED
      BY <3>3, <3>4
  <2>6. CASE UNCHANGED vars
    BY <2>6, <2>0 DEF vars, Issued
  <2>7. QED
    BY <2>1, <2>2, <2>3, <2>4, <2>5, <2>6, NextCases
<1>3. QED
  BY <1>1, <1>2, TypeCorrect, PTL DEF Spec
-----------------------------------------------------------------------------
\* What Record does to each row and to each list of announcements.
LEMMA RecordEffect ==
    ASSUME TypeOK, NEW r \in Requests, NEW s \in Statuses, Record(r, s)
    PROVE  /\ \A k \in Keys : coupon'[k] = IF k = KeyOf(r)
                                           THEN [status |-> s, request |-> r]
                                           ELSE coupon[k]
           /\ \A q \in Requests : outbox'[q] = IF q = r THEN Append(outbox[r], s)
                                               ELSE outbox[q]
           /\ coupon[KeyOf(r)].status = "none"
           /\ coupon[KeyOf(r)].request = NoRequest
<1>1. KeyOf(r) \in Keys
  BY KeyOfType
<1>2. coupon[KeyOf(r)].status = "none"
  BY DEF Record, HasRow
<1>3. coupon[KeyOf(r)] = NoRow
  BY <1>1, <1>2 DEF TypeOK, Rows, Statuses
<1>4. QED
  BY <1>1, <1>2, <1>3 DEF Record, TypeOK, NoRow

LEMMA RecordKeepsOnce ==
    ASSUME TypeOK, ResultRecordedOnce, NEW r \in Requests, NEW s \in Statuses,
           Record(r, s)
    PROVE  ResultRecordedOnce'
<1>0. /\ \A k \in Keys : coupon'[k] = IF k = KeyOf(r)
                                       THEN [status |-> s, request |-> r]
                                       ELSE coupon[k]
      /\ \A q \in Requests : outbox'[q] = IF q = r THEN Append(outbox[r], s)
                                           ELSE outbox[q]
      /\ coupon[KeyOf(r)].request = NoRequest
      /\ KeyOf(r) \in Keys
  BY RecordEffect, KeyOfType
<1>1. outbox[r] = << >>
  BY <1>0, IssuingAssumption DEF ResultRecordedOnce
<1>2. Append(outbox[r], s) = <<s>>
  BY <1>1
<1>3. ASSUME NEW k \in Keys, coupon'[k].status # "none"
      PROVE  /\ KeyOf(coupon'[k].request) = k
             /\ outbox'[coupon'[k].request] = <<coupon'[k].status>>
  <2>1. CASE k = KeyOf(r)
    BY <1>0, <1>2, <2>1
  <2>2. CASE k # KeyOf(r)
    <3>1. coupon'[k] = coupon[k] /\ HasRow(k)
      BY <1>0, <1>3, <2>2 DEF HasRow
    <3>2. KeyOf(coupon[k].request) = k /\ outbox[coupon[k].request] = <<coupon[k].status>>
      BY <3>1 DEF ResultRecordedOnce
    <3>3. coupon[k].request \in Requests /\ coupon[k].request # r
      BY <3>1, <3>2, <2>2 DEF TypeOK, Rows, NoRow, HasRow
    <3>4. QED
      BY <1>0, <3>1, <3>2, <3>3
  <2>3. QED
    BY <2>1, <2>2
<1>4. ASSUME NEW q \in Requests, outbox'[q] # << >>
      PROVE  coupon'[KeyOf(q)].request = q
  <2>0. KeyOf(q) \in Keys
    BY KeyOfType
  <2>1. CASE q = r
    BY <1>0, <2>0, <2>1
  <2>2. CASE q # r
    <3>1. outbox[q] # << >>
      BY <1>0, <1>4, <2>2
    <3>2. coupon[KeyOf(q)].request = q
      BY <3>1 DEF ResultRecordedOnce
    <3>3. KeyOf(q) # KeyOf(r)
      BY <1>0, <3>2, IssuingAssumption
    <3>4. QED
      BY <1>0, <2>0, <3>2, <3>3
  <2>3. QED
    BY <2>1, <2>2
<1>5. QED
  BY <1>3, <1>4 DEF ResultRecordedOnce, HasRow

(* Rows and recorded results correspond one to one.  Inductive with the    *)
(* types: a request that has no row has no announcement either, because an *)
(* announcement names its row.                                             *)
THEOREM RecordedOnce == Spec => []ResultRecordedOnce
<1>1. Init => ResultRecordedOnce
  BY KeyOfType DEF Init, ResultRecordedOnce, HasRow, NoRow
<1>2. TypeOK /\ ResultRecordedOnce /\ [Next]_vars => ResultRecordedOnce'
  <2> SUFFICES ASSUME TypeOK, ResultRecordedOnce, [Next]_vars
               PROVE  ResultRecordedOnce'
    OBVIOUS
  <2>1. ASSUME NEW r \in Requests, Issue(r) \/ RefuseSoldOut(r) \/ RefuseInactive(r)
        PROVE  ResultRecordedOnce'
    <3>1. PICK s \in Statuses : Record(r, s)
      BY <2>1 DEF Issue, RefuseSoldOut, RefuseInactive, Statuses
    <3>2. QED
      BY <3>1, RecordKeepsOnce
  <2>2. ASSUME NEW t \in Types, HintSoldOut(t) \/ ForgetHint(t) \/ Restock(t)
        PROVE  ResultRecordedOnce'
    BY <2>2 DEF HintSoldOut, ForgetHint, Restock, ResultRecordedOnce, HasRow
  <2>3. CASE UNCHANGED vars
    BY <2>3 DEF vars, ResultRecordedOnce, HasRow
  <2>4. QED
    BY <2>1, <2>2, <2>3, NextCases
<1>3. QED
  BY <1>1, <1>2, TypeCorrect, PTL DEF Spec
-----------------------------------------------------------------------------
\* Only a refusal for want of stock makes a SOLD_OUT row.
LEMMA RecordSoldOutRow ==
    ASSUME TypeOK, NEW r \in Requests, NEW s \in Statuses, Record(r, s),
           NEW u \in Users, NEW t \in Types,
           coupon'[<<u, t>>].status = "SOLD_OUT"
    PROVE  \/ coupon[<<u, t>>].status = "SOLD_OUT"
           \/ s = "SOLD_OUT" /\ t = TypeOf[r]
<1>0. \A k \in Keys : coupon'[k] = IF k = KeyOf(r)
                                   THEN [status |-> s, request |-> r]
                                   ELSE coupon[k]
  BY RecordEffect
<1>1. <<u, t>> \in Keys
  BY DEF Keys
<1>2. CASE <<u, t>> = KeyOf(r)
  BY <1>0, <1>1, <1>2 DEF KeyOf
<1>3. CASE <<u, t>> # KeyOf(r)
  BY <1>0, <1>1, <1>3
<1>4. QED
  BY <1>2, <1>3

\* The total is what the row started with, or more.
NeverShrinks == \A t \in Types : total[t] >= Total[t]

LEMMA Growing == Spec => []NeverShrinks
<1>1. Init => NeverShrinks
  BY IssuingAssumption DEF Init, NeverShrinks
<1>2. TypeOK /\ NeverShrinks /\ [Next]_vars => NeverShrinks'
  <2> SUFFICES ASSUME TypeOK, NeverShrinks, [Next]_vars
               PROVE  NeverShrinks'
    OBVIOUS
  <2>1. ASSUME NEW s \in Types, Restock(s)
        PROVE  NeverShrinks'
    <3>1. PICK n \in Nat : total' = [total EXCEPT ![s] = total[s] + n]
      BY <2>1, RestockEffect
    <3>2. ASSUME NEW t \in Types
          PROVE  total'[t] >= Total[t]
      <4>1. total[t] >= Total[t] /\ total[t] \in Nat /\ Total[t] \in Nat
        BY IssuingAssumption DEF NeverShrinks, TypeOK
      <4>2. total'[t] = total[t] \/ total'[t] = total[t] + n
        BY <3>1 DEF TypeOK
      <4>3. QED
        BY <4>1, <4>2
    <3>3. QED
      BY <3>2 DEF NeverShrinks
  <2>2. CASE total' = total
    BY <2>2 DEF NeverShrinks
  <2>3. QED
    BY <2>1, <2>2, NextCases DEF Issue, RefuseSoldOut, RefuseInactive, Record,
       HintSoldOut, ForgetHint, vars
<1>3. QED
  BY <1>1, <1>2, TypeCorrect, PTL DEF Spec

(* A SOLD_OUT row or the negative key implies that no coupon is left, or   *)
(* that a restock came after: both appear at stock 0, which only a restock *)
(* ends, and the key later only where a restock has been.                  *)
THEOREM Truthful == Spec => []SoldOutTruthful
<1>1. Init => SoldOutTruthful
  <2> SUFFICES ASSUME Init, NEW t \in Types
               PROVE  ~ soldOutKey[t] /\ \A u \in Users : coupon[<<u, t>>].status # "SOLD_OUT"
    BY DEF SoldOutTruthful
  <2>1. ~ soldOutKey[t]
    BY DEF Init
  <2>2. ASSUME NEW u \in Users
        PROVE  coupon[<<u, t>>].status # "SOLD_OUT"
    BY DEF Init, Keys, NoRow
  <2>3. QED
    BY <2>1, <2>2
<1>2. TypeOK /\ NeverShrinks /\ SoldOutTruthful /\ [Next]_vars => SoldOutTruthful'
  <2> SUFFICES ASSUME TypeOK, NeverShrinks, SoldOutTruthful, [Next]_vars, NEW t \in Types,
                      soldOutKey'[t] \/ \E u \in Users : coupon'[<<u, t>>].status = "SOLD_OUT"
               PROVE  available'[t] = 0 \/ Restocked(t)'
    BY DEF SoldOutTruthful
  <2>0. soldOutKey[t] \/ (\E u \in Users : coupon[<<u, t>>].status = "SOLD_OUT")
          => available[t] = 0 \/ Restocked(t)
    BY DEF SoldOutTruthful
  <2>1. ASSUME NEW r \in Requests, Issue(r)
        PROVE  available'[t] = 0 \/ Restocked(t)'
    <3>1. /\ Record(r, "SUCCESS") /\ "SUCCESS" \in Statuses
          /\ soldOutKey' = soldOutKey /\ total' = total
      BY <2>1 DEF Issue, Statuses, Record
    <3>2. available[t] = 0 \/ Restocked(t)
      BY <2>0, <3>1, RecordSoldOutRow
    <3>3. CASE Restocked(t)
      BY <3>1, <3>3 DEF Restocked
    <3>4. CASE available[t] = 0
      <4>1. t # TypeOf[r]
        BY <2>1, <3>4 DEF Issue, TypeOK
      <4>2. QED
        BY <2>1, <3>4, <4>1 DEF Issue, TypeOK
    <3>5. QED
      BY <3>2, <3>3, <3>4
  <2>2. ASSUME NEW r \in Requests, RefuseSoldOut(r)
        PROVE  available'[t] = 0 \/ Restocked(t)'
    <3>1. /\ Record(r, "SOLD_OUT") /\ "SOLD_OUT" \in Statuses
          /\ soldOutKey' = soldOutKey /\ available' = available
          /\ available[TypeOf[r]] = 0 /\ total' = total
      BY <2>2 DEF RefuseSoldOut, Statuses, Record
    <3>2. QED
      BY <2>0, <3>1, RecordSoldOutRow DEF Restocked
  <2>3. ASSUME NEW r \in Requests, RefuseInactive(r)
        PROVE  available'[t] = 0 \/ Restocked(t)'
    <3>1. /\ Record(r, "FAILED") /\ "FAILED" \in Statuses
          /\ soldOutKey' = soldOutKey /\ available' = available /\ total' = total
      BY <2>3 DEF RefuseInactive, Statuses, Record
    <3>2. ASSUME NEW u \in Users, coupon'[<<u, t>>].status = "SOLD_OUT"
          PROVE  coupon[<<u, t>>].status = "SOLD_OUT"
      BY <3>1, <3>2, RecordSoldOutRow
    <3>3. QED
      BY <2>0, <3>1, <3>2 DEF Restocked
  <2>4. ASSUME NEW s \in Types, HintSoldOut(s)
        PROVE  available'[t] = 0 \/ Restocked(t)'
    BY <2>0, <2>4 DEF HintSoldOut, Restocked, TypeOK
  <2>5. ASSUME NEW s \in Types, ForgetHint(s)
        PROVE  available'[t] = 0 \/ Restocked(t)'
    BY <2>0, <2>5 DEF ForgetHint, Restocked, TypeOK
  <2>6. ASSUME NEW s \in Types, Restock(s)
        PROVE  available'[t] = 0 \/ Restocked(t)'
    <3>1. PICK n \in Nat : /\ n > 0
                           /\ available' = [available EXCEPT ![s] = available[s] + n]
                           /\ total' = [total EXCEPT ![s] = total[s] + n]
      BY <2>6, RestockEffect
    <3>2. /\ total[t] >= Total[t]
          /\ total[t] \in Nat /\ Total[t] \in Nat
      BY IssuingAssumption DEF TypeOK, NeverShrinks
    <3>3. CASE t = s
      BY <3>1, <3>2, <3>3 DEF Restocked, TypeOK
    <3>4. CASE t # s
      BY <2>0, <2>6, <3>1, <3>4 DEF Restock, Restocked, TypeOK
    <3>5. QED
      BY <3>3, <3>4
  <2>7. CASE UNCHANGED vars
    BY <2>0, <2>7 DEF vars, Restocked
  <2>8. QED
    BY <2>1, <2>2, <2>3, <2>4, <2>5, <2>6, <2>7, NextCases
<1>3. QED
  BY <1>1, <1>2, TypeCorrect, Growing, PTL DEF Spec
=============================================================================
