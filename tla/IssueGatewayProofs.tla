------------------------- MODULE IssueGatewayProofs -------------------------
(***************************************************************************)
(* Theorems about IssueGateway, for every number of requests, pairs,       *)
(* retries and faults and every size of the breaker's window.              *)
(***************************************************************************)
EXTENDS IssueGateway, TLAPS

(* The window of the breaker never outgrows its size.                      *)
LEMMA WindowBounded ==
    ASSUME window \in Seq(BOOLEAN), Len(window) <= Size, NEW ok \in BOOLEAN
    PROVE  Sampled(ok) \in Seq(BOOLEAN) /\ Len(Sampled(ok)) <= Size
<1> DEFINE w == Append(window, ok)
<1>1. w \in Seq(BOOLEAN) /\ Len(w) = Len(window) + 1
  OBVIOUS
<1>2. Tail(w) \in Seq(BOOLEAN) /\ Len(Tail(w)) = Len(w) - 1
  BY <1>1
<1>3. Sampled(ok) = IF Len(w) > Size THEN Tail(w) ELSE w
  BY DEF Sampled
<1>4. Len(window) \in Nat /\ Size \in Nat
  BY GatewayAssumption DEF GatewayAssumption
<1> HIDE DEF w
<1>5. CASE Len(w) > Size
  BY <1>1, <1>2, <1>3, <1>4, <1>5
<1>6. CASE ~ (Len(w) > Size)
  BY <1>1, <1>3, <1>4, <1>6
<1> QED
  BY <1>5, <1>6

(* Counting an outcome keeps the breaker's variables in their types.       *)
LEMMA BreakerTyped ==
    ASSUME TypeOK, NEW s \in Slots, CountSuccess(s) \/ CountFailure(s)
    PROVE  /\ mode' \in {"closed", "open", "halfOpen"}
           /\ window' \in Seq(BOOLEAN) /\ Len(window') <= Size
           /\ cooled' \in BOOLEAN
<1>1. CASE CountSuccess(s)
  <2>1. <<TRUE>> \in Seq(BOOLEAN) /\ Len(<<TRUE>>) = 1
    OBVIOUS
  <2>2. Sampled(TRUE) \in Seq(BOOLEAN) /\ Len(Sampled(TRUE)) <= Size
    BY WindowBounded DEF TypeOK
  <2>3. Size >= 1
    BY GatewayAssumption DEF GatewayAssumption
  <2> QED
    BY <1>1, <2>1, <2>2, <2>3, GatewayAssumption DEF CountSuccess, TypeOK, GatewayAssumption
<1>2. CASE CountFailure(s)
  <2>1. Sampled(FALSE) \in Seq(BOOLEAN) /\ Len(Sampled(FALSE)) <= Size
    BY WindowBounded DEF TypeOK
  <2> QED
    BY <1>2, <2>1 DEF CountFailure, TypeOK
<1> QED
  BY <1>1, <1>2

(* The policy's end keeps the invariant, given that what the request will  *)
(* answer is true.                                                         *)
LEMMA SettleKeepsInvariant ==
    ASSUME IInv, NEW s \in Slots, pc[s] = "await", NEW ok \in BOOLEAN,
           NEW status \in IssueAcceptanceStatus, Settle(s, ok, status),
           status \in {"ACCEPTED", "DUPLICATE"} => pair[s] \in reserved,
           heard' \in SUBSET Pairs, faults' \in 0 .. MaxFaults,
           reserved' = reserved, late' \in SUBSET Pairs,
           UNCHANGED <<soldOutKey, pair, attempt, audit>>
    PROVE  IInv'
<1>1. CountSuccess(s) \/ CountFailure(s)
  BY DEF Settle
<1>2. TypeOK
  BY DEF IInv
<1>3. /\ mode' \in {"closed", "open", "halfOpen"}
      /\ window' \in Seq(BOOLEAN) /\ Len(window') <= Size
      /\ cooled' \in BOOLEAN
  BY <1>1, <1>2, BreakerTyped
<1>4. /\ probe' = [probe EXCEPT ![s] = FALSE]
      /\ outcome' = [outcome EXCEPT ![s] = status]
      /\ post' = [post EXCEPT ![s] = "none"]
      /\ pc' = [pc EXCEPT ![s] = "save"]
  BY DEF Settle, GoTo
<1>5. TypeOK'
  BY <1>2, <1>3, <1>4 DEF TypeOK
<1>6. StepInv' /\ AttemptInv' /\ ReservedInv'
  BY <1>2, <1>4 DEF IssueAcceptanceStatus, IInv, TypeOK, StepInv, AttemptInv, ReservedInv
<1>7. AnswersTruthful'
  BY DEF IInv, AnswersTruthful
<1> QED
  BY <1>5, <1>6, <1>7 DEF IInv

(* An attempt that threw keeps the invariant: it is retried while one is   *)
(* left, or the request answers INTERNAL_ERROR.                            *)
LEMMA ThrewKeepsInvariant ==
    ASSUME IInv, NEW s \in Slots, pc[s] = "await", Threw(s),
           faults' \in 0 .. MaxFaults, late' \in SUBSET Pairs,
           UNCHANGED <<reserved, soldOutKey, pair, attempt, history>>
    PROVE  IInv'
<1>1. heard' \in SUBSET Pairs
  BY DEF IInv, TypeOK, history
<1>2. CASE attempt[s] <= MaxRetries
  <2>1. /\ pc' = [pc EXCEPT ![s] = "backoff"]
        /\ post' = [post EXCEPT ![s] = "none"]
        /\ UNCHANGED <<mode, window, cooled, probe, outcome>>
    BY <1>2 DEF Threw, GoTo, breaker
  <2>2. TypeOK'
    BY <2>1 DEF IInv, TypeOK, history
  <2>3. StepInv' /\ AttemptInv' /\ ReservedInv'
    BY <1>2, <2>1 DEF IInv, TypeOK, StepInv, AttemptInv, ReservedInv
  <2>4. AnswersTruthful'
    BY DEF IInv, AnswersTruthful, history
  <2> QED
    BY <2>2, <2>3, <2>4 DEF IInv
<1>3. CASE ~ (attempt[s] <= MaxRetries)
  <2>1. Settle(s, FALSE, "INTERNAL_ERROR")
    BY <1>3 DEF Threw
  <2> QED
    BY <1>1, <2>1, SettleKeepsInvariant DEF IssueAcceptanceStatus, history
<1> QED
  BY <1>2, <1>3

(* A POST that leaves: the attempt is counted, and was still to be had.    *)
LEMMA PostKeepsInvariant ==
    ASSUME IInv, NEW s \in Slots, pc[s] \in {"admit", "backoff"}, Post(s),
           mode' \in {"closed", "open", "halfOpen"}, probe' \in [Slots -> BOOLEAN],
           UNCHANGED <<serverB, window, cooled, pair, outcome, history, faults>>
    PROVE  IInv'
<1>1. /\ post' = [post EXCEPT ![s] = "unserved"]
      /\ attempt' = [attempt EXCEPT ![s] = @ + 1]
      /\ pc' = [pc EXCEPT ![s] = "await"]
  BY DEF Post, GoTo
<1>2. attempt[s] \in Nat /\ attempt[s] <= MaxRetries
  BY GatewayAssumption DEF IInv, TypeOK, AttemptInv, GatewayAssumption
<1>3. TypeOK'
  BY <1>1, <1>2, GatewayAssumption DEF IInv, TypeOK, serverB, history, GatewayAssumption
<1>4. StepInv' /\ AttemptInv' /\ ReservedInv'
  BY <1>1, <1>2 DEF IInv, TypeOK, StepInv, AttemptInv, ReservedInv, serverB
<1>5. AnswersTruthful'
  BY DEF IInv, AnswersTruthful, serverB, history
<1> QED
  BY <1>3, <1>4, <1>5 DEF IInv
-----------------------------------------------------------------------------
(* The steps of one request keep the invariant.                            *)
LEMMA IssueKeepsInvariant ==
    ASSUME IInv, NEW s \in Slots,
           Issue(s) \/ ReceiveSlow(s) \/ TimeOutEarly(s) \/ SaveFails(s)
    PROVE  IInv'
<1> USE DEF IInv
<1>1. CASE ShortCircuit(s) \/ Break(s)
  <2>1. /\ \/ outcome' = [outcome EXCEPT ![s] = "SOLD_OUT"]
           \/ outcome' = [outcome EXCEPT ![s] = "INTERNAL_ERROR"]
        /\ pc[s] \in {"cache", "admit"}
        /\ pc' = [pc EXCEPT ![s] = "save"]
        /\ UNCHANGED <<serverB, breaker, pair, attempt, post, history, faults>>
    BY <1>1 DEF ShortCircuit, Break, GoTo
  <2>2. TypeOK'
    BY <2>1 DEF TypeOK, IssueAcceptanceStatus, serverB, breaker, history
  <2>3. StepInv' /\ AttemptInv' /\ ReservedInv' /\ AnswersTruthful'
    BY <2>1 DEF TypeOK, StepInv, AttemptInv, ReservedInv, AnswersTruthful, serverB, history
  <2> QED
    BY <2>2, <2>3
<1>2. CASE FallThrough(s)
  <2>1. TypeOK'
    BY <1>2, GatewayAssumption
    DEF FallThrough, GoTo, TypeOK, serverB, breaker, history, GatewayAssumption
  <2>2. StepInv' /\ AttemptInv' /\ ReservedInv' /\ AnswersTruthful'
    BY <1>2 DEF FallThrough, GoTo, TypeOK, StepInv, AttemptInv, ReservedInv,
       AnswersTruthful, serverB, history
  <2> QED
    BY <2>1, <2>2
<1>3. CASE Admit(s) \/ AdmitProbe(s) \/ Retry(s)
  <2>1. pc[s] \in {"admit", "backoff"} /\ Post(s)
    BY <1>3 DEF Admit, AdmitProbe, Retry
  <2>2. mode' \in {"closed", "open", "halfOpen"} /\ probe' \in [Slots -> BOOLEAN]
    BY <1>3 DEF Admit, AdmitProbe, Retry, TypeOK, breaker
  <2>3. UNCHANGED <<serverB, window, cooled, pair, outcome, history, faults>>
    BY <1>3 DEF Admit, AdmitProbe, Retry, breaker
  <2> QED
    BY <2>1, <2>2, <2>3, PostKeepsInvariant
<1>4. CASE Receive(s) \/ ReceiveSlow(s)
  <2>1. /\ pc[s] = "await" /\ post[s] \in {"ACCEPTED", "DUPLICATE", "EMPTY"}
        /\ heard' \in {heard, heard \union {pair[s]}}
        /\ UNCHANGED <<serverB, pair, attempt, audit>>
    BY <1>4 DEF Receive, ReceiveSlow
  <2>2. heard' \in SUBSET Pairs
    BY <2>1 DEF TypeOK
  <2>5. faults' \in 0 .. MaxFaults
    <3>1. faults' = faults \/ Fault
      BY <1>4 DEF Receive, ReceiveSlow
    <3> QED
      BY <3>1, GatewayAssumption DEF Fault, TypeOK, GatewayAssumption
  <2>6. reserved' = reserved /\ late' \in SUBSET Pairs /\ soldOutKey' = soldOutKey
    BY <2>1 DEF TypeOK, serverB
  <2>3. /\ StatusOf(s) \in IssueAcceptanceStatus
        /\ StatusOf(s) \in {"ACCEPTED", "DUPLICATE"} => pair[s] \in reserved
    BY <2>1 DEF StatusOf, IssueAcceptanceStatus, ReservedInv
  <2>4. PICK ok \in BOOLEAN : Settle(s, ok, StatusOf(s))
    BY <1>4 DEF Receive, ReceiveSlow
  <2> QED
    BY <2>1, <2>2, <2>3, <2>4, <2>5, <2>6, SettleKeepsInvariant
<1>5. CASE ReceiveError(s) \/ TimeOut(s) \/ TimeOutEarly(s)
  <2>1. pc[s] = "await" /\ Threw(s)
    BY <1>5 DEF ReceiveError, TimeOut, TimeOutEarly
  <2>2. UNCHANGED <<reserved, soldOutKey, pair, attempt, history>>
    BY <1>5 DEF ReceiveError, TimeOut, TimeOutEarly, serverB
  <2>3. faults' \in 0 .. MaxFaults /\ late' \in SUBSET Pairs
    BY <1>5, GatewayAssumption
    DEF ReceiveError, TimeOut, TimeOutEarly, Fault, TypeOK, serverB, GatewayAssumption
  <2> QED
    BY <2>1, <2>2, <2>3, ThrewKeepsInvariant
<1>6. CASE Save(s) \/ SaveFails(s)
  <2>1. /\ pc[s] = "save"
        /\ attempt' = [attempt EXCEPT ![s] = 0]
        /\ outcome' = [outcome EXCEPT ![s] = "none"]
        /\ pc' = [pc EXCEPT ![s] = "idle"]
        /\ UNCHANGED <<serverB, breaker, pair, post, heard>>
    BY <1>6 DEF Save, SaveFails, Finish, GoTo, history
  <2>2. StepInv' /\ AttemptInv' /\ ReservedInv'
    BY <2>1 DEF TypeOK, StepInv, AttemptInv, ReservedInv, serverB
  <2>3. CASE Save(s)
    <3>1. audit' = audit \union {<<pair[s], MapStatus(outcome[s])>>} /\ faults' = faults
      BY <2>3 DEF Save
    <3>2. outcome[s] \in IssueAcceptanceStatus /\ pair[s] \in Pairs
      BY <2>1 DEF StepInv, TypeOK
    <3>3. /\ MapStatus(outcome[s]) \in IssueRequestStatus
          /\ MapStatus(outcome[s]) \in {"ACCEPTED", "DUPLICATE"} => pair[s] \in reserved
      BY <3>2 DEF MapStatus, IssueAcceptanceStatus, IssueRequestStatus, ReservedInv
    <3>4. AnswersTruthful'
      BY <2>1, <3>1, <3>3 DEF AnswersTruthful, serverB
    <3>5. TypeOK'
      BY <2>1, <3>1, <3>2, <3>3, GatewayAssumption
      DEF TypeOK, serverB, breaker, GatewayAssumption
    <3> QED
      BY <2>2, <3>4, <3>5
  <2>4. CASE SaveFails(s)
    <3>1. TypeOK' /\ AnswersTruthful'
      BY <2>1, <2>4, GatewayAssumption
      DEF SaveFails, Fault, TypeOK, AnswersTruthful, serverB, breaker, history, GatewayAssumption
    <3> QED
      BY <2>2, <3>1
  <2> QED
    BY <1>6, <2>3, <2>4
<1> QED
  BY <1>1, <1>2, <1>3, <1>4, <1>5, <1>6 DEF Issue

(* So do the steps of the users, of server-b, of the network and the clock. *)
LEMMA OthersKeepInvariant ==
    ASSUME IInv,
           \/ \E s \in Slots, p \in Pairs : Begin(s, p)
           \/ \E s \in Slots : Serve(s) \/ ServeBadly(s) \/ Lose(s)
           \/ \E p \in Pairs : ServeLate(p)
           \/ SoldOutKeyChanges \/ CoolOff \/ UNCHANGED vars
    PROVE  IInv'
<1> USE DEF IInv
<1>1. ASSUME NEW s \in Slots, NEW p \in Pairs, Begin(s, p) PROVE IInv'
  <2>1. TypeOK'
    BY <1>1 DEF Begin, GoTo, TypeOK, serverB, breaker, history
  <2>2. StepInv' /\ AttemptInv' /\ ReservedInv' /\ AnswersTruthful'
    BY <1>1 DEF Begin, GoTo, TypeOK, StepInv, AttemptInv, ReservedInv, AnswersTruthful,
       serverB, history
  <2> QED
    BY <2>1, <2>2
<1>2. ASSUME NEW s \in Slots, Serve(s) \/ ServeBadly(s) \/ Lose(s) PROVE IInv'
  <2>1. PICK a \in {"lost", "ACCEPTED", "DUPLICATE", "EMPTY", "ERROR"} :
           /\ post' = [post EXCEPT ![s] = a]
           /\ a \in {"ACCEPTED", "DUPLICATE"} => pair[s] \in reserved'
    BY <1>2, GatewayAssumption DEF Serve, ServeBadly, Lose, TypeOK, GatewayAssumption
  <2>2. /\ reserved' \in {reserved, reserved \union {pair[s]}}
        /\ post[s] # "none"
        /\ UNCHANGED <<late, soldOutKey, breaker, pc, pair, attempt, outcome, history>>
    BY <1>2 DEF Serve, ServeBadly, Lose, serverB
  <2>3. faults' \in 0 .. MaxFaults
    BY <1>2, GatewayAssumption DEF Serve, ServeBadly, Lose, Fault, TypeOK, GatewayAssumption
  <2>4. TypeOK'
    BY <2>1, <2>2, <2>3 DEF TypeOK, breaker, history
  <2>5. StepInv' /\ AttemptInv' /\ ReservedInv' /\ AnswersTruthful'
    BY <2>1, <2>2 DEF TypeOK, StepInv, AttemptInv, ReservedInv, AnswersTruthful, history
  <2> QED
    BY <2>4, <2>5
<1>3. ASSUME NEW p \in Pairs, ServeLate(p) PROVE IInv'
  BY <1>3 DEF ServeLate, TypeOK, StepInv, AttemptInv, ReservedInv, AnswersTruthful,
     breaker, request, history
<1>4. CASE SoldOutKeyChanges
  BY <1>4 DEF SoldOutKeyChanges, TypeOK, StepInv, AttemptInv, ReservedInv, AnswersTruthful,
     breaker, request, history
<1>5. CASE CoolOff
  BY <1>5 DEF CoolOff, TypeOK, StepInv, AttemptInv, ReservedInv, AnswersTruthful,
     serverB, request, history
<1>6. CASE UNCHANGED vars
  BY <1>6 DEF vars, TypeOK, StepInv, AttemptInv, ReservedInv, AnswersTruthful,
     serverB, breaker, request, history
<1> QED
  BY <1>1, <1>2, <1>3, <1>4, <1>5, <1>6

(* The invariant holds initially ...                                       *)
LEMMA InitInvariant == Init => IInv
<1> SUFFICES ASSUME Init PROVE IInv
  OBVIOUS
<1>1. TypeOK
  <2>1. << >> \in Seq(BOOLEAN) /\ Len(<< >>) = 0
    OBVIOUS
  <2>2. pair \in [Slots -> Pairs]
    BY DEF Init
  <2>3. 0 \in 0 .. 1 + MaxRetries /\ 0 \in 0 .. MaxFaults /\ 0 <= Size
    BY GatewayAssumption DEF GatewayAssumption
  <2> QED
    BY <2>1, <2>2, <2>3 DEF Init, TypeOK
<1>2. StepInv /\ AttemptInv /\ ReservedInv /\ AnswersTruthful
  BY DEF Init, StepInv, AttemptInv, ReservedInv, AnswersTruthful
<1> QED
  BY <1>1, <1>2 DEF IInv

(* ... and is kept by every step.                                          *)
LEMMA NextInvariant == IInv /\ [Next]_vars => IInv'
<1> SUFFICES ASSUME IInv, [Next]_vars PROVE IInv'
  OBVIOUS
<1>1. ASSUME NEW s \in Slots,
             Issue(s) \/ ReceiveSlow(s) \/ TimeOutEarly(s) \/ SaveFails(s)
      PROVE  IInv'
  BY <1>1, IssueKeepsInvariant
<1>2. CASE \/ \E s \in Slots, p \in Pairs : Begin(s, p)
           \/ \E s \in Slots : Serve(s) \/ ServeBadly(s) \/ Lose(s)
           \/ \E p \in Pairs : ServeLate(p)
           \/ SoldOutKeyChanges \/ CoolOff \/ UNCHANGED vars
  BY <1>2, OthersKeepInvariant
<1> QED
  BY <1>1, <1>2 DEF Next

(* What a request has out, has heard and will say fit together, in every   *)
(* reachable state.                                                        *)
THEOREM Invariance == Spec => []IInv
<1> QED
  BY InitInvariant, NextInvariant, PTL DEF Spec

(* Type correctness; with it, no request sends more than 1 + MaxRetries    *)
(* POSTs.                                                                  *)
THEOREM TypeCorrect == Spec => []TypeOK
<1>1. IInv => TypeOK
  BY DEF IInv
<1> QED
  BY <1>1, Invariance, PTL

(* Every ACCEPTED or DUPLICATE in the audit log has its reservation.       *)
THEOREM TruthfulAnswers == Spec => []AnswersTruthful
<1>1. IInv => AnswersTruthful
  BY DEF IInv
<1> QED
  BY <1>1, Invariance, PTL

(* While the breaker stays open, only repeated attempts reach server-b.    *)
THEOREM OpenSpares == Spec => OpenSparesServerB
<1> DEFINE Spares ==
      \A s \in Slots : mode = "open" /\ mode' = "open" /\ attempt'[s] > attempt[s]
                           => attempt[s] > 0
<1>1. ASSUME IInv, [Next]_vars PROVE [Spares]_vars
  <2> SUFFICES ASSUME NEW s \in Slots, mode = "open", mode' = "open",
                      attempt'[s] > attempt[s]
               PROVE  attempt[s] > 0
    OBVIOUS
  <2>1. attempt[s] \in Nat /\ ~ (attempt[s] > attempt[s]) /\ ~ (0 > attempt[s])
    BY <1>1, GatewayAssumption DEF IInv, TypeOK, GatewayAssumption
  <2>2. PICK t \in Slots : Retry(t) \/ Admit(t) \/ AdmitProbe(t) \/ Save(t) \/ SaveFails(t)
    BY <1>1, <2>1
    DEF Next, vars, request, Issue, Begin, ShortCircuit, FallThrough, Break, Serve, ServeBadly,
        Lose, ServeLate, SoldOutKeyChanges, CoolOff, Receive, ReceiveSlow, ReceiveError,
        TimeOut, TimeOutEarly
  <2>3. ~ Admit(t) /\ ~ AdmitProbe(t)
    BY DEF Admit, AdmitProbe
  <2>4. CASE Save(t) \/ SaveFails(t)
    BY <1>1, <2>1, <2>4 DEF Save, SaveFails, Finish, IInv, TypeOK
  <2>5. CASE Retry(t)
    <3>1. s = t
      BY <1>1, <2>1, <2>5 DEF Retry, Post, IInv, TypeOK
    <3> QED
      BY <1>1, <2>5, <3>1 DEF Retry, IInv, AttemptInv
  <2> QED
    BY <2>2, <2>3, <2>4, <2>5
<1>2. IInv /\ [Next]_vars => [Spares]_vars
  BY <1>1
<1>3. Spec => [][Spares]_vars
  BY <1>2, Invariance, PTL DEF Spec
<1> QED
  BY <1>3 DEF OpenSparesServerB
-----------------------------------------------------------------------------
(* Requests that wait for a half-open breaker.                             *)

\* A trial is a request under way; a half-open breaker has one; a request that
\* waits for an answer has a POST out.
TrialInv ==
    /\ \A s \in Slots : probe[s] => pc[s] \in {"await", "backoff"}
    /\ mode = "halfOpen" => \E s \in Slots : probe[s]
    /\ \A s \in Slots : pc[s] = "await" => post[s] # "none"

\* The one place where a request cannot go on by itself.
WaitsForTrial(s) == pc[s] = "admit" /\ mode = "halfOpen"

\* What server-b or the request's own timers carry on.
UnderWay(s) == \/ pc[s] = "backoff"
               \/ pc[s] = "await" /\ post[s] # "none"

\* Nobody waits for a trial that is over.
WaitersHaveTrial ==
    \A s \in Slots : WaitsForTrial(s) => \E t \in Slots \ {s} : probe[t] /\ UnderWay(t)

(* The end of a policy run ends the trial, and the half-open state with    *)
(* it, whatever is counted; a run that was let in earlier ends neither,    *)
(* or opens the breaker.                                                   *)
LEMMA SettleKeepsTrial ==
    ASSUME TypeOK, TrialInv, NEW s \in Slots, NEW ok \in BOOLEAN, NEW status,
           Settle(s, ok, status)
    PROVE  TrialInv'
<1>1. /\ probe' = [probe EXCEPT ![s] = FALSE]
      /\ post' = [post EXCEPT ![s] = "none"]
      /\ pc' = [pc EXCEPT ![s] = "save"]
  BY DEF Settle, GoTo
<1>2. CountSuccess(s) \/ CountFailure(s)
  BY DEF Settle
<1>3. mode' = "halfOpen" => mode = "halfOpen" /\ ~ probe[s]
  BY <1>2 DEF CountSuccess, CountFailure, TypeOK
<1> QED
  BY <1>1, <1>3 DEF TrialInv, TypeOK

LEMMA ThrewKeepsTrial ==
    ASSUME TypeOK, TrialInv, NEW s \in Slots, Threw(s)
    PROVE  TrialInv'
<1>1. CASE attempt[s] <= MaxRetries
  BY <1>1 DEF Threw, GoTo, breaker, TrialInv, TypeOK
<1>2. CASE ~ (attempt[s] <= MaxRetries)
  <2>1. Settle(s, FALSE, "INTERNAL_ERROR")
    BY <1>2 DEF Threw
  <2> QED
    BY <2>1, SettleKeepsTrial
<1> QED
  BY <1>1, <1>2

LEMMA StepKeepsTrial == IInv /\ TrialInv /\ [Next]_vars => TrialInv'
<1> SUFFICES ASSUME IInv, TrialInv, [Next]_vars PROVE TrialInv'
  OBVIOUS
<1>0. TypeOK /\ StepInv
  BY DEF IInv
<1>1. ASSUME NEW s \in Slots,
             \/ Receive(s) \/ ReceiveSlow(s)
             \/ ReceiveError(s) \/ TimeOut(s) \/ TimeOutEarly(s)
      PROVE  TrialInv'
  <2>1. Threw(s) \/ \E ok \in BOOLEAN : Settle(s, ok, StatusOf(s))
    BY <1>1 DEF Receive, ReceiveSlow, ReceiveError, TimeOut, TimeOutEarly
  <2> QED
    BY <1>0, <2>1, SettleKeepsTrial, ThrewKeepsTrial
<1>2. ASSUME NEW s \in Slots, Admit(s) \/ AdmitProbe(s) \/ Retry(s) PROVE TrialInv'
  BY <1>0, <1>2 DEF Admit, AdmitProbe, Retry, Post, GoTo, breaker, TrialInv, TypeOK
<1>3. ASSUME NEW s \in Slots,
             \/ ShortCircuit(s) \/ FallThrough(s) \/ Break(s) \/ Save(s) \/ SaveFails(s)
             \/ \E p \in Pairs : Begin(s, p)
      PROVE  TrialInv'
  <2>1. /\ pc[s] \notin {"await", "backoff"}
        /\ \E next \in {"idle", "cache", "admit", "save"} : pc' = [pc EXCEPT ![s] = next]
        /\ UNCHANGED <<mode, probe, post>>
    BY <1>3 DEF ShortCircuit, FallThrough, Break, Save, SaveFails, Begin, Finish, GoTo, breaker
  <2> QED
    BY <1>0, <2>1 DEF TrialInv, TypeOK
<1>4. ASSUME NEW s \in Slots, Serve(s) \/ ServeBadly(s) \/ Lose(s) PROVE TrialInv'
  <2>1. /\ \E a : a # "none" /\ post' = [post EXCEPT ![s] = a]
        /\ UNCHANGED <<mode, probe, pc>>
    BY <1>4, GatewayAssumption DEF Serve, ServeBadly, Lose, breaker, GatewayAssumption
  <2> QED
    BY <1>0, <2>1 DEF TrialInv, TypeOK
<1>5. CASE (\E p \in Pairs : ServeLate(p)) \/ SoldOutKeyChanges \/ CoolOff \/ UNCHANGED vars
  <2>1. UNCHANGED <<mode, probe, pc, post>>
    BY <1>5 DEF ServeLate, SoldOutKeyChanges, CoolOff, vars, breaker, request
  <2> QED
    BY <2>1 DEF TrialInv
<1> QED
  BY <1>1, <1>2, <1>3, <1>4, <1>5 DEF Next, Issue

LEMMA InitTrial == Init => TrialInv
  BY DEF Init, TrialInv

(* The half-open breaker lets nobody through but its trial, and cockatiel  *)
(* has those who come meanwhile await it.  However many requests that were *)
(* let in before still fail, open the breaker again and start another      *)
(* trial: each of those that wait waits for a request under way, another   *)
(* one than itself, so that no request is left waiting in a breaker that   *)
(* nobody will ever close.                                                 *)
THEOREM TrialIsUnderWay == Spec => []WaitersHaveTrial
<1>1. TrialInv => WaitersHaveTrial
  BY DEF TrialInv, WaitersHaveTrial, WaitsForTrial, UnderWay
<1> QED
  BY <1>1, InitTrial, StepKeepsTrial, Invariance, PTL DEF Spec
-----------------------------------------------------------------------------
(* DUPLICATE, where nothing goes wrong.                                    *)

\* Without a fault server-a gives up no POST, and the ACCEPTED of a reservation
\* has been heard or is the answer of a POST still out.
AcceptanceInv ==
    faults = 0 =>
       /\ late = {}
       /\ \A p \in reserved : p \in heard \/ \E s \in Slots : pair[s] = p /\ post[s] = "ACCEPTED"

\* A DUPLICATE without an ACCEPTED takes a fault, or two requests at once.
DuplicateExplained ==
    \A p \in Pairs : <<p, "DUPLICATE">> \in audit =>
       \/ p \in heard
       \/ \E s \in Slots : pair[s] = p /\ post[s] = "ACCEPTED"
       \/ faults > 0

LEMMA StepKeepsAcceptance == IInv /\ AcceptanceInv /\ [Next]_vars => AcceptanceInv'
<1> SUFFICES ASSUME IInv, AcceptanceInv, [Next]_vars, faults' = 0 PROVE AcceptanceInv'
  BY DEF AcceptanceInv
<1>0. TypeOK /\ StepInv /\ faults \in Nat
  BY GatewayAssumption DEF IInv, TypeOK, GatewayAssumption
<1>1. faults = 0 /\ ~ Fault
  <2>1. faults' = faults \/ faults' = faults + 1
    BY DEF Next, vars, Issue, Begin, ShortCircuit, FallThrough, Admit, AdmitProbe, Break, Serve,
       ServeBadly, Lose, ServeLate, SoldOutKeyChanges, CoolOff, Receive, ReceiveSlow,
       ReceiveError, TimeOut, TimeOutEarly, Retry, Save, SaveFails, Fault
  <2> QED
    BY <1>0, <2>1 DEF Fault
<1>2. late = {} /\ \A p \in reserved : p \in heard \/ \E s \in Slots : pair[s] = p /\ post[s] = "ACCEPTED"
  BY <1>1 DEF AcceptanceInv
<1>3. ASSUME NEW s \in Slots, Receive(s) PROVE AcceptanceInv'
  <2>1. /\ post' = [post EXCEPT ![s] = "none"]
        /\ heard' = IF post[s] = "ACCEPTED" THEN heard \union {pair[s]} ELSE heard
        /\ UNCHANGED <<reserved, late, pair>>
    BY <1>3 DEF Receive, Settle, serverB
  <2> QED
    BY <1>0, <1>2, <2>1 DEF AcceptanceInv, TypeOK
<1>4. ASSUME NEW s \in Slots, ReceiveError(s) \/ TimeOut(s) PROVE AcceptanceInv'
  <2>1. /\ post[s] # "ACCEPTED"
        /\ post' = [post EXCEPT ![s] = "none"]
        /\ UNCHANGED <<reserved, late, pair, heard>>
    BY <1>4 DEF ReceiveError, TimeOut, Threw, Settle, serverB, history
  <2> QED
    BY <1>0, <1>2, <2>1 DEF AcceptanceInv, TypeOK
<1>5. ASSUME NEW s \in Slots, Admit(s) \/ AdmitProbe(s) \/ Retry(s) PROVE AcceptanceInv'
  <2>1. /\ post[s] = "none"
        /\ post' = [post EXCEPT ![s] = "unserved"]
        /\ UNCHANGED <<reserved, late, pair, heard>>
    BY <1>0, <1>5 DEF Admit, AdmitProbe, Retry, Post, serverB, history, StepInv
  <2> QED
    BY <1>0, <1>2, <2>1 DEF AcceptanceInv, TypeOK
<1>6. ASSUME NEW s \in Slots, NEW p \in Pairs, Begin(s, p) PROVE AcceptanceInv'
  <2>1. /\ post[s] = "none"
        /\ pair' = [pair EXCEPT ![s] = p]
        /\ UNCHANGED <<reserved, late, post, heard>>
    BY <1>0, <1>6 DEF Begin, serverB, history, StepInv
  <2> QED
    BY <1>0, <1>2, <2>1 DEF AcceptanceInv, TypeOK
<1>7. ASSUME NEW s \in Slots, Serve(s) PROVE AcceptanceInv'
  <2>1. /\ post[s] = "unserved"
        /\ post' = [post EXCEPT ![s] = IF pair[s] \in reserved THEN "DUPLICATE" ELSE "ACCEPTED"]
        /\ reserved' = reserved \union {pair[s]}
        /\ UNCHANGED <<late, pair, heard>>
    BY <1>7 DEF Serve, history
  <2> QED
    BY <1>0, <1>2, <2>1 DEF AcceptanceInv, TypeOK
<1>8. ASSUME NEW s \in Slots,
             ShortCircuit(s) \/ FallThrough(s) \/ Break(s) \/ Save(s)
      PROVE  AcceptanceInv'
  <2>1. UNCHANGED <<reserved, late, pair, post, heard>>
    BY <1>8 DEF ShortCircuit, FallThrough, Break, Save, Finish, serverB, history
  <2> QED
    BY <1>2, <2>1 DEF AcceptanceInv
<1>9. CASE SoldOutKeyChanges \/ CoolOff \/ UNCHANGED vars
  <2>1. UNCHANGED <<reserved, late, pair, post, heard>>
    BY <1>9 DEF SoldOutKeyChanges, CoolOff, vars, serverB, request, history
  <2> QED
    BY <1>2, <2>1 DEF AcceptanceInv
<1>10. \A p \in Pairs : ~ ServeLate(p)
  BY <1>2 DEF ServeLate
<1>11. \A s \in Slots : ~ (ServeBadly(s) \/ Lose(s) \/ ReceiveSlow(s) \/ TimeOutEarly(s) \/ SaveFails(s))
  BY <1>1 DEF ServeBadly, Lose, ReceiveSlow, TimeOutEarly, SaveFails
<1> QED
  BY <1>3, <1>4, <1>5, <1>6, <1>7, <1>8, <1>9, <1>10, <1>11 DEF Next, Issue

(* What is true of the documents' claim that DUPLICATE follows an ACCEPTED *)
(* (DuplicateFollowsAcceptance, which the run gateway_duplicate refutes):  *)
(* a user in the audit log with DUPLICATE has been ACCEPTED, unless        *)
(* another request of the same user is about to receive it, or a fault (a  *)
(* lost or late answer, an error or a resent command of server-b) came in  *)
(* between.                                                                *)
THEOREM DuplicatesExplained == Spec => []DuplicateExplained
<1>1. Init => AcceptanceInv
  BY DEF Init, AcceptanceInv
<1>2. ASSUME IInv, AcceptanceInv PROVE DuplicateExplained
  <2> SUFFICES ASSUME NEW p \in Pairs, <<p, "DUPLICATE">> \in audit, ~ (faults > 0)
               PROVE  p \in heard \/ \E s \in Slots : pair[s] = p /\ post[s] = "ACCEPTED"
    BY DEF DuplicateExplained
  <2>1. faults = 0
    BY <1>2, GatewayAssumption DEF IInv, TypeOK, GatewayAssumption
  <2>2. p \in reserved
    BY <1>2 DEF IInv, AnswersTruthful
  <2> QED
    BY <1>2, <2>1, <2>2 DEF AcceptanceInv
<1>3. IInv /\ AcceptanceInv => DuplicateExplained
  BY <1>2
<1> QED
  BY <1>1, <1>3, StepKeepsAcceptance, Invariance, PTL DEF Spec
=============================================================================
