---------------------------- MODULE IssueGateway ----------------------------
(***************************************************************************)
(* server-a: IssueRequestService.issue and the HTTP client under it, a     *)
(* retry inside a circuit breaker.  A request reads the sold-out key,      *)
(* calls server-b, and leaves one audit row.  Requests share the breaker   *)
(* and nothing else.  server-b is reduced to its reservations: a POST that *)
(* it has received takes effect whether server-a still waits for it or     *)
(* not.  The breaker is cockatiel's, with the CountBreaker's window.       *)
(***************************************************************************)
EXTENDS Naturals, Sequences, FiniteSets

CONSTANTS Slots,        \* requests in flight; a slot is used again and again
          Pairs,        \* (userId, couponTypeId) pairs of one coupon type
          Size,         \* CountBreaker size
          MinimumCalls, \* CountBreaker minimumNumberOfCalls
          MaxRetries,   \* retry maxAttempts: repetitions, not calls
          BadAnswers,   \* what server-b may answer for a fault: ERROR, EMPTY, or
                        \* DUPLICATE when its Redis client sends HSETNX twice
          MaxFaults     \* bound: lost, late, failed and slow answers

ASSUME GatewayAssumption ==
    /\ Pairs # {}
    /\ MinimumCalls \in Nat \ {0}
    /\ Size \in Nat /\ Size >= MinimumCalls
    /\ MaxRetries \in Nat
    /\ BadAnswers \subseteq {"ERROR", "EMPTY", "DUPLICATE"}
    /\ MaxFaults \in Nat

VARIABLES
    \* server-b and Redis
    reserved,   \* pairs with a reservation in server-b
    late,       \* pairs of POSTs server-a has given up and server-b has still to serve
    soldOutKey, \* whether coupon-available:{event}:{type} exists
    \* the breaker
    mode,       \* closed, open or halfOpen
    window,     \* the last outcomes, TRUE for a success
    cooled,     \* halfOpenAfter has passed since it opened
    \* a request
    pc,         \* what it does next
    pair,       \* whom and what it is for
    attempt,    \* POSTs so far
    post,       \* its outstanding POST, or server-b's answer to it
    probe,      \* whether it is a trial of the half-open breaker
    outcome,    \* the downstreamStatus it will answer
    \* history
    heard,      \* pairs for which an ACCEPTED of server-b has been received
    audit,      \* the audit rows: pair and status
    faults      \* faults so far, bounded by MaxFaults

serverB == <<reserved, late, soldOutKey>>
breaker == <<mode, window, cooled, probe>>
request == <<pc, pair, attempt, post, outcome>>
history == <<heard, audit>>
vars    == <<serverB, breaker, request, history, faults>>
-----------------------------------------------------------------------------
IssueAcceptanceStatus == {"ACCEPTED", "DUPLICATE", "SOLD_OUT", "INTERNAL_ERROR"}
IssueRequestStatus    == {"ACCEPTED", "DUPLICATE", "SOLD_OUT", "REJECTED"}

TypeOK ==
    /\ reserved \subseteq Pairs /\ late \subseteq Pairs /\ soldOutKey \in BOOLEAN
    /\ mode \in {"closed", "open", "halfOpen"}
    /\ window \in Seq(BOOLEAN) /\ Len(window) <= Size
    /\ cooled \in BOOLEAN /\ probe \in [Slots -> BOOLEAN]
    /\ pc \in [Slots -> {"idle", "cache", "admit", "await", "backoff", "save"}]
    /\ pair \in [Slots -> Pairs]
    /\ attempt \in [Slots -> 0 .. 1 + MaxRetries]
    /\ post \in [Slots -> {"none", "unserved", "lost", "ACCEPTED", "DUPLICATE",
                           "EMPTY", "ERROR"}]
    /\ outcome \in [Slots -> IssueAcceptanceStatus \union {"none"}]
    /\ heard \subseteq Pairs
    /\ audit \subseteq Pairs \X IssueRequestStatus
    /\ faults \in 0 .. MaxFaults

Init ==
    /\ reserved = {} /\ late = {} /\ soldOutKey = FALSE
    /\ mode = "closed" /\ window = << >> /\ cooled = FALSE
    /\ probe = [s \in Slots |-> FALSE]
    /\ pc = [s \in Slots |-> "idle"]
    /\ pair \in {[s \in Slots |-> p] : p \in Pairs}
    /\ attempt = [s \in Slots |-> 0]
    /\ post = [s \in Slots |-> "none"]
    /\ outcome = [s \in Slots |-> "none"]
    /\ heard = {} /\ audit = {} /\ faults = 0

GoTo(s, next) == pc' = [pc EXCEPT ![s] = next]
Fault == faults < MaxFaults /\ faults' = faults + 1
-----------------------------------------------------------------------------
\* A user asks.
Begin(s, p) ==
    /\ pc[s] = "idle"
    /\ pair' = [pair EXCEPT ![s] = p]
    /\ GoTo(s, "cache")
    /\ UNCHANGED <<serverB, breaker, attempt, post, outcome, history, faults>>

\* isSoldOut: the key is there, and server-b is not called.
ShortCircuit(s) ==
    /\ pc[s] = "cache"
    /\ soldOutKey
    /\ outcome' = [outcome EXCEPT ![s] = "SOLD_OUT"]
    /\ GoTo(s, "save")
    /\ UNCHANGED <<serverB, breaker, pair, attempt, post, history, faults>>

\* The key is not there, or Redis did not answer.
FallThrough(s) ==
    /\ pc[s] = "cache"
    /\ soldOutKey => faults < MaxFaults
    /\ faults' = IF soldOutKey THEN faults + 1 ELSE faults
    /\ GoTo(s, "admit")
    /\ UNCHANGED <<serverB, breaker, pair, attempt, post, outcome, history>>

\* call(): a POST leaves for server-b.
Post(s) ==
    /\ post' = [post EXCEPT ![s] = "unserved"]
    /\ attempt' = [attempt EXCEPT ![s] = @ + 1]
    /\ GoTo(s, "await")

\* The policy lets the request through: the breaker is closed ...
Admit(s) ==
    /\ pc[s] = "admit"
    /\ mode = "closed"
    /\ Post(s)
    /\ UNCHANGED <<serverB, breaker, pair, outcome, history, faults>>

\* ... or has been open long enough, and this request is the trial; the others
\* wait for its end.
AdmitProbe(s) ==
    /\ pc[s] = "admit"
    /\ mode = "open" /\ cooled
    /\ mode' = "halfOpen"
    /\ probe' = [probe EXCEPT ![s] = TRUE]
    /\ Post(s)
    /\ UNCHANGED <<serverB, window, cooled, pair, outcome, history, faults>>

\* Faulty variant: the retry is outside the breaker and the breaker's refusal
\* is not looked at.
BreakUnheeded(s) ==
    /\ pc[s] = "admit"
    /\ mode = "open" /\ ~ cooled
    /\ Post(s)
    /\ UNCHANGED <<serverB, breaker, pair, outcome, history, faults>>

\* BrokenCircuitError: the fallback answers without calling server-b.
Break(s) ==
    /\ pc[s] = "admit"
    /\ mode = "open" /\ ~ cooled
    /\ outcome' = [outcome EXCEPT ![s] = "INTERNAL_ERROR"]
    /\ GoTo(s, "save")
    /\ UNCHANGED <<serverB, breaker, pair, attempt, post, history, faults>>
-----------------------------------------------------------------------------
(* server-b, and the network to it.                                        *)

\* accept(): the first POST of a pair makes the reservation.
Serve(s) ==
    /\ post[s] = "unserved"
    /\ post' = [post EXCEPT ![s] = IF pair[s] \in reserved THEN "DUPLICATE" ELSE "ACCEPTED"]
    /\ reserved' = reserved \union {pair[s]}
    /\ UNCHANGED <<late, soldOutKey, breaker, pc, pair, attempt, outcome, history, faults>>

\* A status code, before or after the reservation was made; an empty body; or
\* the DUPLICATE of a reservation this very POST has made.
ServeBadly(s) ==
    /\ post[s] = "unserved"
    /\ Fault
    /\ \E a \in BadAnswers : post' = [post EXCEPT ![s] = a]
    /\ reserved' \in {reserved, reserved \union {pair[s]}}
    /\ post'[s] = "DUPLICATE" => pair[s] \in reserved'
    /\ UNCHANGED <<late, soldOutKey, breaker, pc, pair, attempt, outcome, history>>

\* The POST, or the answer to it, gets lost.
Lose(s) ==
    /\ post[s] \notin {"none", "lost"}
    /\ Fault
    /\ post' = [post EXCEPT ![s] = "lost"]
    /\ UNCHANGED <<serverB, breaker, pc, pair, attempt, outcome, history>>

\* A POST server-a no longer waits for.
ServeLate(p) ==
    /\ p \in late
    /\ late' = late \ {p}
    /\ reserved' = reserved \union {p}
    /\ UNCHANGED <<soldOutKey, breaker, request, history, faults>>

\* server-c writes the key, or its TTL runs out.
SoldOutKeyChanges ==
    /\ soldOutKey' = ~ soldOutKey
    /\ UNCHANGED <<reserved, late, breaker, request, history, faults>>

\* halfOpenAfter.
CoolOff ==
    /\ mode = "open" /\ ~ cooled
    /\ cooled' = TRUE
    /\ UNCHANGED <<serverB, mode, window, probe, request, history, faults>>
-----------------------------------------------------------------------------
(* The policy has run: the breaker counts the outcome of all its attempts. *)

Sampled(ok) ==
    LET w == Append(window, ok) IN IF Len(w) > Size THEN Tail(w) ELSE w

\* At least minimumNumberOfCalls, and more than half of them failures.
Tripped(w) ==
    /\ Len(w) >= MinimumCalls
    /\ 2 * Cardinality({i \in DOMAIN w : ~ w[i]}) > Len(w)

CountSuccess(s) ==
    /\ window' = IF probe[s] THEN <<TRUE>> ELSE Sampled(TRUE)
    /\ mode' = IF probe[s] /\ mode = "halfOpen" THEN "closed" ELSE mode
    /\ UNCHANGED cooled

CountFailure(s) ==
    /\ window' = Sampled(FALSE)
    /\ IF mode # "open" /\ (probe[s] \/ Tripped(Sampled(FALSE)))
         THEN mode' = "open" /\ cooled' = FALSE
         ELSE UNCHANGED <<mode, cooled>>

Settle(s, ok, status) ==
    /\ IF ok THEN CountSuccess(s) ELSE CountFailure(s)
    /\ probe' = [probe EXCEPT ![s] = FALSE]
    /\ outcome' = [outcome EXCEPT ![s] = status]
    /\ post' = [post EXCEPT ![s] = "none"]
    /\ GoTo(s, "save")

\* The status of a body; none in an empty one.
StatusOf(s) == IF post[s] = "EMPTY" THEN "INTERNAL_ERROR" ELSE post[s]

\* Faulty variant: the threshold is in seconds, so every answer is slow.
ReceiveAlwaysSlow(s) ==
    /\ pc[s] = "await"
    /\ post[s] \in {"ACCEPTED", "DUPLICATE", "EMPTY"}
    /\ Settle(s, FALSE, StatusOf(s))
    /\ heard' = IF post[s] = "ACCEPTED" THEN heard \union {pair[s]} ELSE heard
    /\ UNCHANGED <<serverB, pair, attempt, audit, faults>>

\* A 2xx answer.
Receive(s) ==
    /\ pc[s] = "await"
    /\ post[s] \in {"ACCEPTED", "DUPLICATE", "EMPTY"}
    /\ Settle(s, TRUE, StatusOf(s))
    /\ heard' = IF post[s] = "ACCEPTED" THEN heard \union {pair[s]} ELSE heard
    /\ UNCHANGED <<serverB, pair, attempt, audit, faults>>

\* The same after more than slowCallThresholdMs: the value is returned, and
\* counts as a failure.
ReceiveSlow(s) ==
    /\ pc[s] = "await"
    /\ post[s] \in {"ACCEPTED", "DUPLICATE", "EMPTY"}
    /\ Fault
    /\ Settle(s, FALSE, StatusOf(s))
    /\ heard' = IF post[s] = "ACCEPTED" THEN heard \union {pair[s]} ELSE heard
    /\ UNCHANGED <<serverB, pair, attempt, audit>>

\* Faulty variant: maxAttempts retries counted one too many.
ThrewOffByOne(s) ==
    IF attempt[s] <= MaxRetries + 1
      THEN /\ GoTo(s, "backoff")
           /\ post' = [post EXCEPT ![s] = "none"]
           /\ UNCHANGED <<breaker, outcome>>
      ELSE Settle(s, FALSE, "INTERNAL_ERROR")

\* call() threw: the retry, inside the breaker, tries again, or the breaker
\* counts a failure and the fallback answers.
Threw(s) ==
    IF attempt[s] <= MaxRetries
      THEN /\ GoTo(s, "backoff")
           /\ post' = [post EXCEPT ![s] = "none"]
           /\ UNCHANGED <<breaker, outcome>>
      ELSE Settle(s, FALSE, "INTERNAL_ERROR")

\* A status code.
ReceiveError(s) ==
    /\ pc[s] = "await"
    /\ post[s] = "ERROR"
    /\ Threw(s)
    /\ UNCHANGED <<serverB, pair, attempt, history, faults>>

\* Faulty variant: the POST has no timeout.
TimeOutNever(s) ==
    /\ pc[s] = "await"
    /\ post[s] = "lost"
    /\ UNCHANGED vars

\* readTimeoutMs without an answer, because there will be none ...
TimeOut(s) ==
    /\ pc[s] = "await"
    /\ post[s] = "lost"
    /\ Threw(s)
    /\ UNCHANGED <<serverB, pair, attempt, history, faults>>

\* ... or because server-b has not come to it; it will.
TimeOutEarly(s) ==
    /\ pc[s] = "await"
    /\ post[s] = "unserved"
    /\ Fault
    /\ late' = late \union {pair[s]}
    /\ Threw(s)
    /\ UNCHANGED <<reserved, soldOutKey, pair, attempt, history>>

\* After the backoff, whatever the breaker has become meanwhile.
Retry(s) ==
    /\ pc[s] = "backoff"
    /\ Post(s)
    /\ UNCHANGED <<serverB, breaker, pair, outcome, history, faults>>
-----------------------------------------------------------------------------
\* Faulty variant: INTERNAL_ERROR is recorded as accepted.
MapStatusAccepting(status) == IF status = "INTERNAL_ERROR" THEN "ACCEPTED" ELSE status

\* server-b's status as the audit row has it.
MapStatus(status) == IF status = "INTERNAL_ERROR" THEN "REJECTED" ELSE status

\* The request is over.
Finish(s) ==
    /\ attempt' = [attempt EXCEPT ![s] = 0]
    /\ outcome' = [outcome EXCEPT ![s] = "none"]
    /\ GoTo(s, "idle")

\* save() and the answer, the same status in both.
Save(s) ==
    /\ pc[s] = "save"
    /\ audit' = audit \union {<<pair[s], MapStatus(outcome[s])>>}
    /\ Finish(s)
    /\ UNCHANGED <<serverB, breaker, pair, post, heard, faults>>

\* The INSERT fails: 500, whatever server-b has answered.
SaveFails(s) ==
    /\ pc[s] = "save"
    /\ Fault
    /\ Finish(s)
    /\ UNCHANGED <<serverB, breaker, pair, post, history>>

Issue(s) ==
    \/ ShortCircuit(s) \/ FallThrough(s) \/ Admit(s) \/ AdmitProbe(s) \/ Break(s)
    \/ Receive(s) \/ ReceiveError(s) \/ TimeOut(s) \/ Retry(s) \/ Save(s)

Next ==
    \/ \E s \in Slots, p \in Pairs : Begin(s, p)
    \/ \E s \in Slots :
          \/ Issue(s) \/ Serve(s) \/ ServeBadly(s) \/ Lose(s)
          \/ ReceiveSlow(s) \/ TimeOutEarly(s) \/ SaveFails(s)
    \/ \E p \in Pairs : ServeLate(p)
    \/ SoldOutKeyChanges \/ CoolOff

Spec == Init /\ [][Next]_vars

\* Users keep asking, the event loop and its timers run, and server-b answers
\* unless a fault prevents it.
FairSpec ==
    /\ Spec
    /\ \A s \in Slots : /\ WF_vars(\E p \in Pairs : Begin(s, p))
                        /\ WF_vars(Issue(s))
                        /\ WF_vars(Serve(s))
    /\ WF_vars(CoolOff)
-----------------------------------------------------------------------------
(* Nobody reads ACCEPTED or DUPLICATE, in the answer or in the audit row,  *)
(* of a pair server-b has not reserved, whatever timed out, was retried or *)
(* arrived late.                                                           *)
AnswersTruthful ==
    \A a \in audit : a[2] \in {"ACCEPTED", "DUPLICATE"} => a[1] \in reserved

(* An open breaker spares server-b: the only POSTs it still gets are the   *)
(* second attempts of requests that were let in before, and the trial.     *)
OpenSparesServerB ==
    [][\A s \in Slots : mode = "open" /\ mode' = "open" /\ attempt'[s] > attempt[s]
                           => attempt[s] > 0]_vars

(* Once server-b is well again the breaker closes for good, although those *)
(* let in before it opened still report failures; unless the coupons are   *)
(* gone and no request gets as far as the breaker.                         *)
BreakerRecovers == <>[](~ soldOutKey) => <>[](mode = "closed")

(* Every request is answered: those that wait for the trial of a half-open *)
(* breaker too.                                                            *)
EveryRequestAnswered == \A s \in Slots : pc[s] # "idle" ~> pc[s] = "idle"

(* Whoever reads DUPLICATE has, by this or another request, an ACCEPTED of *)
(* server-b.  (The docs have accept() never answer 5xx, so that nobody     *)
(* retries into a DUPLICATE.)                                              *)
DuplicateFollowsAcceptance == \A p \in Pairs : <<p, "DUPLICATE">> \in audit => p \in heard
-----------------------------------------------------------------------------
\* The inductive invariant, part by part.
\* A request has a POST out only while it waits, an outcome just when it is done.
StepInv ==
    \A s \in Slots :
       /\ post[s] # "none" => pc[s] = "await"
       /\ outcome[s] # "none" <=> pc[s] = "save"

\* The attempts so far, and that there is one left to retry.
AttemptInv ==
    \A s \in Slots :
       /\ pc[s] \in {"idle", "cache", "admit"} => attempt[s] = 0
       /\ pc[s] \in {"await", "backoff"} => attempt[s] > 0
       /\ pc[s] = "backoff" => attempt[s] <= MaxRetries

\* What server-b has said, and what the request will say, is true already.
ReservedInv ==
    \A s \in Slots :
       post[s] \in {"ACCEPTED", "DUPLICATE"} \/ outcome[s] \in {"ACCEPTED", "DUPLICATE"}
          => pair[s] \in reserved

IInv == TypeOK /\ StepInv /\ AttemptInv /\ ReservedInv /\ AnswersTruthful
=============================================================================
