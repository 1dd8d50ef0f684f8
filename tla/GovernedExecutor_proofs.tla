------------------------ MODULE GovernedExecutor_proofs ------------------------
(***************************************************************************)
(* Proofs about the two components that keep trying: GovernedExecutor, for *)
(* every set of calls, every budget, every retry limit and every set of    *)
(* exchanges; and SyntheticCapture with PacketAcceptance, for every set of *)
(* providers, of answers and of fixtures, every number of attempts, runs   *)
(* and packets.                                                            *)
(*                                                                         *)
(* Why the second works: all that a run takes of an answer is new to the   *)
(* deduplicator and is published before, so what it holds is bound to the  *)
(* store and told apart; and an item leaves the agenda only with its       *)
(* fixture given up, or with an answer something of which an orchestrator  *)
(* holds: what the deduplicator calls a duplicate has the hash of the      *)
(* whole answer, and that it knows only from an observation some run took. *)
(* What a packet holds then passes the tests of the run against the one    *)
(* kickoff the packet gives, and these are the tests of the contract.      *)
(***************************************************************************)
EXTENDS GovernedExecutor, PacketAcceptance, TLAPS, FiniteSetTheorems

-----------------------------------------------------------------------------
(* The lemmas about the operators.                                         *)

(* Every exchange is put on record under one of the six classifications.   *)
LEMMA ClassificationType ==
  ASSUME NEW e \in Exchanges
  PROVE  Classification(e) \in Classifications
<1>1. CASE e.ok
  BY <1>1 DEF Classification, SuccessClassification, Classifications
<1>2. CASE ~e.ok /\ HeadersInvalid(e)
  BY <1>2 DEF Classification, Classifications
<1>3. CASE ~e.ok /\ ~HeadersInvalid(e)
  BY <1>3 DEF Classification, MapClassification, Classifications
<1> QED BY <1>1, <1>2, <1>3

(* A breaker is well formed, and counts below its limit while it is closed *)
Breakers ==
  [state : {"CLOSED", "OPEN"}, reason : Reasons \union {None}, failures : 0..MaxConsecutive]

BreakerShape(b) ==
  /\ b \in Breakers
  /\ ~IsOpen(b) => b.failures < MaxConsecutive

(* Opening the breaker keeps it well formed.                               *)
LEMMA OpenedShape ==
  ASSUME NEW b, BreakerShape(b), NEW r \in Reasons
  PROVE  BreakerShape(Opened(b, r)) /\ IsOpen(Opened(b, r))
BY ExecutorAssumption DEF BreakerShape, Breakers, Opened, IsOpen

(* Counting a retryable failure keeps the breaker well formed: the count   *)
(* reaches the threshold only by opening it.                               *)
LEMMA RetryableFailureShape ==
  ASSUME NEW b, BreakerShape(b)
  PROVE  BreakerShape(WithRetryableFailure(b))
<1>1. CASE IsOpen(b)
  BY <1>1 DEF WithRetryableFailure
<1>2. CASE ~IsOpen(b)
  <2> DEFINE counted == [b EXCEPT !.failures = @ + 1]
  <2>1. /\ counted \in Breakers
        /\ counted.failures = b.failures + 1
        /\ ~IsOpen(counted)
    BY <1>2, ExecutorAssumption DEF BreakerShape, Breakers, IsOpen
  <2>2. WithRetryableFailure(b) =
          IF counted.failures >= MaxConsecutive
          THEN Opened(counted, "RETRYABLE_FAILURE_THRESHOLD_REACHED") ELSE counted
    BY <1>2 DEF WithRetryableFailure
  <2>3. CASE counted.failures >= MaxConsecutive
    BY <2>1, <2>2, <2>3, ExecutorAssumption DEF BreakerShape, Breakers, Opened, IsOpen, Reasons
  <2>4. CASE ~(counted.failures >= MaxConsecutive)
    BY <2>1, <2>2, <2>4, ExecutorAssumption DEF BreakerShape, Breakers
  <2> QED BY <2>3, <2>4
<1> QED BY <1>1, <1>2

(* A success keeps the breaker well formed.                                *)
LEMMA SuccessShape ==
  ASSUME NEW b, BreakerShape(b)
  PROVE  BreakerShape(WithSuccess(b))
BY ExecutorAssumption DEF BreakerShape, Breakers, WithSuccess, IsOpen

(* An open breaker is left as it is by every event.                        *)
LEMMA OpenBreakerFixed ==
  ASSUME NEW b, IsOpen(b)
  PROVE  /\ \A r : Opened(b, r) = b
         /\ WithRetryableFailure(b) = b
         /\ WithSuccess(b) = b
BY DEF Opened, WithRetryableFailure, WithSuccess

-----------------------------------------------------------------------------
(* The inductive invariant: the shape of the state, of the breaker and of  *)
(* each call.  A call that has not begun has no response, one that sleeps  *)
(* has failed, and one whose attempt is in flight holds a number.          *)

CallShape(c) ==
  /\ pc[c] = "idle" => response[c] = None
  /\ pc[c] \in {"auditing", "sleeping"} => response[c] # None
  /\ pc[c] = "sleeping" => ~response[c].ok
  /\ InFlight(c) => number[c] \in 1..budget.started

Shape ==
  /\ TypeOK
  /\ BreakerShape(breaker)
  /\ \A c \in Calls : CallShape(c)

(* What a returning call leaves behind is well formed.                     *)
LEMMA ReturnShape ==
  ASSUME Shape, NEW c \in Calls, NEW status \in Statuses,
         NEW classification \in Classifications \union
           {"INVALID_REQUEST", "BUDGET_EXHAUSTED", "CIRCUIT_OPEN", "AUDIT_FAILED"},
         budget' \in [reserved : {0}, started : 0..MaxAttempts],
         BreakerShape(breaker)',
         Return(c, status, classification)
  PROVE  /\ pc' \in [Calls -> {"idle", "awaiting", "auditing", "sleeping", "done"}]
         /\ pc'[c] = "done"
         /\ \A d \in Calls \ {c} : pc'[d] = pc[d]
         /\ result' \in [Calls -> Result \union {None}]
<1>1. /\ Remaining(budget)' \in 0..MaxAttempts
      /\ budget'.started \in 0..MaxAttempts
  BY ExecutorAssumption DEF Remaining
<1>2. breaker'.state \in {"CLOSED", "OPEN"} /\ breaker'.reason \in Reasons \union {None}
  BY DEF BreakerShape, Breakers
<1> DEFINE r == [status         |-> status,
                 classification |-> classification,
                 attemptsUsed   |-> budget'.started,
                 remaining      |-> Remaining(budget)',
                 circuit        |-> breaker'.state,
                 reason         |-> breaker'.reason]
<1>3. r \in Result
  BY <1>1, <1>2 DEF Result
<1>4. result' = [result EXCEPT ![c] = r] /\ pc' = [pc EXCEPT ![c] = "done"]
  BY DEF Return, Remaining
<1> QED BY <1>3, <1>4 DEF Shape, TypeOK

(* A run starts in a well-formed state.                                    *)
LEMMA ShapeInit == Init => Shape
BY ExecutorAssumption
   DEF Init, Shape, TypeOK, BreakerShape, Breakers, CallShape, IsOpen, InFlight

(* A call that ends before its transport keeps the shape.                  *)
LEMMA ReturnWithoutTransportKeepsShape ==
  ASSUME Shape, NEW c \in Calls, NEW status \in Statuses,
         NEW classification \in {"INVALID_REQUEST", "BUDGET_EXHAUSTED", "CIRCUIT_OPEN"},
         budget' = budget,
         ReturnWithoutTransport(c, status, classification)
  PROVE  Shape'
<1>1. /\ UNCHANGED <<budget, breaker, attempt, number, response, audits>>
      /\ Return(c, status, classification)
  BY DEF ReturnWithoutTransport
<1>2. /\ BreakerShape(breaker)'
      /\ budget' \in [reserved : {0}, started : 0..MaxAttempts]
  BY <1>1 DEF Shape, TypeOK, BreakerShape, IsOpen
<1>3. /\ pc' \in [Calls -> {"idle", "awaiting", "auditing", "sleeping", "done"}]
      /\ pc'[c] = "done"
      /\ \A d \in Calls \ {c} : pc'[d] = pc[d]
      /\ result' \in [Calls -> Result \union {None}]
  BY <1>1, <1>2, ReturnShape
<1>4. TypeOK'
  BY <1>1, <1>3 DEF Shape, TypeOK
<1>5. ASSUME NEW d \in Calls PROVE CallShape(d)'
  BY <1>1, <1>3 DEF Shape, CallShape, InFlight
<1> QED BY <1>2, <1>4, <1>5 DEF Shape

(* Reserving and releasing in one turn leaves the budget as it was.        *)
LEMMA ReserveReleaseIsSkip ==
  ASSUME NEW b \in [reserved : {0}, started : 0..MaxAttempts]
  PROVE  Release(Reserve(b)) = b
<1>1. Reserve(b) = [reserved |-> 1, started |-> b.started]
  BY DEF Reserve
<1>2. Release(Reserve(b)) = [reserved |-> 0, started |-> b.started]
  BY <1>1 DEF Release
<1> QED BY <1>2

(* Reserving and committing counts one attempt, within the budget.         *)
LEMMA CommitCountsOne ==
  ASSUME NEW b \in [reserved : {0}, started : 0..MaxAttempts], Remaining(b) > 0
  PROVE  /\ Commit(Reserve(b)) \in [reserved : {0}, started : 0..MaxAttempts]
         /\ Commit(Reserve(b)).started = b.started + 1
         /\ b.started + 1 \in 1..MaxAttempts
<1>1. Reserve(b) = [reserved |-> 1, started |-> b.started]
  BY DEF Reserve
<1>2. Commit(Reserve(b)) = [reserved |-> 0, started |-> b.started + 1]
  BY <1>1 DEF Commit
<1>3. b.started + 1 \in 1..MaxAttempts
  BY ExecutorAssumption DEF Remaining
<1> QED BY <1>2, <1>3

(* What BeginAttempt does when it does begin an attempt.                   *)
BeginsAttempt(c) ==
  /\ Remaining(budget) > 0
  /\ ~IsOpen(breaker)
  /\ budget' = Commit(Reserve(budget))
  /\ number' = [number EXCEPT ![c] = budget'.started]
  /\ attempt' = [attempt EXCEPT ![c] = @ + 1]
  /\ pc' = [pc EXCEPT ![c] = "awaiting"]
  /\ UNCHANGED <<breaker, response, result, audits>>

(* The top of the loop begins an attempt or returns before the transport.  *)
LEMMA BeginAttemptCases ==
  ASSUME Shape, NEW c \in Calls, BeginAttempt(c)
  PROVE  \/ BeginsAttempt(c)
         \/ /\ budget' = budget
            /\ \E status \in Statuses,
                  classification \in {"INVALID_REQUEST", "BUDGET_EXHAUSTED", "CIRCUIT_OPEN"} :
                 ReturnWithoutTransport(c, status, classification)
<1>1. Release(Reserve(budget)) = budget
  BY ReserveReleaseIsSkip DEF Shape, TypeOK
<1> QED BY <1>1 DEF BeginAttempt, BeginsAttempt, AttemptNumber, Statuses

(* The top of the loop keeps the shape.                                    *)
LEMMA BeginAttemptKeepsShape ==
  ASSUME Shape, NEW c \in Calls, BeginAttempt(c)
  PROVE  Shape'
<1>1. CASE BeginsAttempt(c)
  <2>1. /\ budget' \in [reserved : {0}, started : 0..MaxAttempts]
        /\ budget'.started = budget.started + 1
        /\ budget'.started \in 1..MaxAttempts
    BY <1>1, CommitCountsOne DEF BeginsAttempt, Shape, TypeOK
  <2>2. TypeOK'
    BY <1>1, <2>1 DEF BeginsAttempt, Shape, TypeOK
  <2>3. ASSUME NEW d \in Calls PROVE CallShape(d)'
    BY <1>1, <2>1 DEF BeginsAttempt, Shape, TypeOK, CallShape, InFlight
  <2>4. BreakerShape(breaker)'
    BY <1>1 DEF BeginsAttempt, Shape, BreakerShape, IsOpen
  <2> QED BY <2>2, <2>3, <2>4 DEF Shape
<1>2. CASE ~BeginsAttempt(c)
  BY <1>2, BeginAttemptCases, ReturnWithoutTransportKeepsShape
<1> QED BY <1>1, <1>2

(* A call of execute() keeps the shape.                                    *)
LEMMA EnterKeepsShape ==
  ASSUME Shape, NEW c \in Calls, Enter(c)
  PROVE  Shape'
<1>1. CASE BeginAttempt(c)
  BY <1>1, BeginAttemptKeepsShape
<1>2. CASE ~BeginAttempt(c)
  <2>1. /\ budget' = budget
        /\ \E status \in Statuses, classification \in {"INVALID_REQUEST", "CIRCUIT_OPEN"} :
             ReturnWithoutTransport(c, status, classification)
    BY <1>2 DEF Enter, Statuses
  <2> QED BY <2>1, ReturnWithoutTransportKeepsShape
<1> QED BY <1>1, <1>2

(* A response keeps the shape.                                             *)
LEMMA RespondKeepsShape ==
  ASSUME Shape, NEW c \in Calls, NEW e \in Exchanges, Respond(c, e)
  PROVE  Shape'
<1>1. TypeOK'
  BY DEF Respond, Shape, TypeOK
<1>2. ASSUME NEW d \in Calls PROVE CallShape(d)'
  BY ExchangesAssumption DEF Respond, Shape, TypeOK, CallShape, InFlight
<1>3. BreakerShape(breaker)'
  BY DEF Respond, Shape, BreakerShape, IsOpen
<1> QED BY <1>1, <1>2, <1>3 DEF Shape

(* The record of a settled attempt is well formed.                         *)
LEMMA AuditRecordType ==
  ASSUME Shape, NEW c \in Calls, pc[c] = "auditing"
  PROVE  AuditRecord(c) \in
           [call : Calls, number : 1..MaxAttempts, classification : Classifications]
<1>1. response[c] \in Exchanges
  BY DEF Shape, TypeOK, CallShape
<1>2. Classification(response[c]) \in Classifications
  BY <1>1, ClassificationType
<1>3. number[c] \in 1..MaxAttempts
  BY DEF Shape, TypeOK, CallShape, InFlight
<1> QED BY <1>2, <1>3 DEF AuditRecord

(* A call that returns after its response keeps the shape, whatever record *)
(* it appends.                                                             *)
LEMMA SettledReturnKeepsShape ==
  ASSUME Shape, NEW c \in Calls, NEW status \in Statuses,
         NEW classification \in Classifications \union
           {"INVALID_REQUEST", "BUDGET_EXHAUSTED", "CIRCUIT_OPEN", "AUDIT_FAILED"},
         BreakerShape(breaker)',
         audits' = audits \/ Audited(c),
         UNCHANGED <<budget, attempt, number, response>>,
         Return(c, status, classification)
  PROVE  Shape'
<1>1. budget' \in [reserved : {0}, started : 0..MaxAttempts]
  BY DEF Shape, TypeOK
<1>2. /\ pc' \in [Calls -> {"idle", "awaiting", "auditing", "sleeping", "done"}]
      /\ pc'[c] = "done"
      /\ \A d \in Calls \ {c} : pc'[d] = pc[d]
      /\ result' \in [Calls -> Result \union {None}]
  BY <1>1, ReturnShape
<1>3. audits' \subseteq [call : Calls, number : 1..MaxAttempts, classification : Classifications]
  <2>1. CASE audits' = audits
    BY <2>1 DEF Shape, TypeOK
  <2>2. CASE Audited(c)
    BY <2>2, AuditRecordType DEF Audited, Shape, TypeOK
  <2> QED BY <2>1, <2>2
<1>4. TypeOK'
  BY <1>1, <1>2, <1>3 DEF Shape, TypeOK, BreakerShape, Breakers
<1>5. ASSUME NEW d \in Calls PROVE CallShape(d)'
  BY <1>2 DEF Shape, CallShape, InFlight
<1> QED BY <1>4, <1>5 DEF Shape

(* A lost record keeps the shape.                                          *)
LEMMA AuditFailsKeepsShape ==
  ASSUME Shape, NEW c \in Calls, AuditFails(c)
  PROVE  Shape'
<1>1. BreakerShape(breaker)'
  <2>1. BreakerShape(Opened(breaker, "AUDIT_PERSISTENCE_FAILURE"))
    BY OpenedShape DEF Shape, Reasons
  <2> QED BY <2>1 DEF AuditFails, BreakerShape, IsOpen
<1>2. /\ Return(c, "AUDIT_FAILED", "AUDIT_FAILED")
      /\ audits' = audits
      /\ UNCHANGED <<budget, attempt, number, response>>
  BY DEF AuditFails
<1>3. "AUDIT_FAILED" \in Statuses
  BY DEF Statuses
<1> QED BY <1>1, <1>2, <1>3, SettledReturnKeepsShape

(* Settling an accepted response keeps the shape.                          *)
LEMMA SettleSuccessKeepsShape ==
  ASSUME Shape, NEW c \in Calls, SettleSuccess(c)
  PROVE  Shape'
<1> DEFINE outcome == BlockingOutcome(Parse(response[c].metadata))
<1>1. Audited(c) /\ UNCHANGED <<budget, attempt, number, response>>
  BY DEF SettleSuccess, Audited
<1>2. BreakerShape(WithSuccess(breaker))
  BY SuccessShape DEF Shape
<1>3. CASE /\ breaker' = Opened(breaker, "INVALID_RATE_LIMIT_HEADERS")
           /\ Return(c, "FAILED", "INVALID_RESPONSE")
  <2>1. BreakerShape(Opened(breaker, "INVALID_RATE_LIMIT_HEADERS"))
    BY OpenedShape DEF Shape, Reasons
  <2>2. BreakerShape(breaker)'
    BY <1>3, <2>1 DEF BreakerShape, IsOpen
  <2> QED BY <1>1, <1>3, <2>2, SettledReturnKeepsShape DEF Statuses, Classifications
<1>4. CASE /\ breaker' = Opened(WithSuccess(breaker), BreakerReason(outcome))
           /\ Return(c, "SUCCESS_RUN_BLOCKED", SuccessClassification(outcome))
  <2>1. BreakerReason(outcome) \in Reasons
    BY DEF BreakerReason, Reasons
  <2>2. BreakerShape(breaker)'
    <3>1. BreakerShape(Opened(WithSuccess(breaker), BreakerReason(outcome)))
      BY <1>2, <2>1, OpenedShape
    <3> QED BY <1>4, <3>1 DEF BreakerShape, IsOpen
  <2>3. SuccessClassification(outcome) \in Classifications
    BY DEF SuccessClassification, Classifications
  <2>4. "SUCCESS_RUN_BLOCKED" \in Statuses
    BY DEF Statuses
  <2> QED BY <1>1, <1>4, <2>2, <2>3, <2>4, SettledReturnKeepsShape
<1>5. CASE breaker' = WithSuccess(breaker) /\ Return(c, "SUCCESS", "SUCCESS")
  <2>1. BreakerShape(breaker)'
    BY <1>2, <1>5 DEF BreakerShape, IsOpen
  <2> QED BY <1>1, <1>5, <2>1, SettledReturnKeepsShape DEF Statuses, Classifications
<1> QED BY <1>3, <1>4, <1>5 DEF SettleSuccess

(* Settling a failure that is not retried keeps the shape.                 *)
LEMMA SettleFailureKeepsShape ==
  ASSUME Shape, NEW c \in Calls, SettleFailure(c)
  PROVE  Shape'
<1>1. Audited(c) /\ UNCHANGED <<budget, attempt, number, response>>
  BY DEF SettleFailure, Audited
<1>2. PICK classification \in Classifications : Return(c, "FAILED", classification)
  <2>1. response[c] \in Exchanges
    BY <1>1 DEF Audited, Shape, TypeOK, CallShape
  <2>2. Classification(response[c]) \in Classifications
    BY <2>1, ClassificationType
  <2> QED BY <2>2 DEF SettleFailure, Classifications
<1>3. \/ breaker' = breaker
      \/ \E r \in Reasons : breaker' = Opened(breaker, r)
  BY DEF SettleFailure, Reasons
<1>4. BreakerShape(breaker)'
  <2>1. \A r \in Reasons : BreakerShape(Opened(breaker, r))
    BY OpenedShape DEF Shape
  <2> QED BY <1>3, <2>1 DEF Shape, BreakerShape, IsOpen
<1>5. "FAILED" \in Statuses
  BY DEF Statuses
<1> QED BY <1>1, <1>2, <1>4, <1>5, SettledReturnKeepsShape

(* Settling a retryable failure keeps the shape.                           *)
LEMMA SettleRetryableKeepsShape ==
  ASSUME Shape, NEW c \in Calls, SettleRetryable(c)
  PROVE  Shape'
<1>1. Audited(c) /\ UNCHANGED <<budget, attempt, number, response>>
  BY DEF SettleRetryable, Audited
<1>2. response[c] \in Exchanges /\ ~response[c].ok
  BY <1>1 DEF SettleRetryable, Audited, Shape, TypeOK, CallShape
<1>3. BreakerShape(breaker)'
  <2>1. BreakerShape(WithRetryableFailure(breaker))
    BY RetryableFailureShape DEF Shape
  <2> QED BY <2>1 DEF SettleRetryable, BreakerShape, IsOpen
<1>4. CASE pc' = [pc EXCEPT ![c] = "sleeping"] /\ result' = result
  <2>1. audits' \subseteq
          [call : Calls, number : 1..MaxAttempts, classification : Classifications]
    BY <1>1, AuditRecordType DEF Audited, Shape, TypeOK
  <2>2. TypeOK'
    BY <1>1, <1>3, <1>4, <2>1 DEF Shape, TypeOK, BreakerShape, Breakers
  <2>3. ASSUME NEW d \in Calls PROVE CallShape(d)'
    BY <1>1, <1>2, <1>4, ExchangesAssumption DEF Shape, TypeOK, CallShape, InFlight
  <2> QED BY <1>3, <2>2, <2>3 DEF Shape
<1>5. CASE ~(pc' = [pc EXCEPT ![c] = "sleeping"] /\ result' = result)
  <2>1. \/ Return(c, "FAILED", Classification(response[c]))
        \/ Return(c, "BUDGET_EXHAUSTED", "BUDGET_EXHAUSTED")
    BY <1>5 DEF SettleRetryable
  <2>2. Classification(response[c]) \in Classifications
    BY <1>2, ClassificationType
  <2>3. {"FAILED", "BUDGET_EXHAUSTED"} \subseteq Statuses
    BY DEF Statuses
  <2> QED BY <1>1, <1>3, <2>1, <2>2, <2>3, SettledReturnKeepsShape
<1> QED BY <1>4, <1>5

(* Every step keeps the shape.                                             *)
LEMMA ShapeStep == Shape /\ [Next]_vars => Shape'
<1> SUFFICES ASSUME Shape, [Next]_vars PROVE Shape'
  OBVIOUS
<1>1. ASSUME NEW c \in Calls, CallStep(c) PROVE Shape'
  <2>1. CASE Enter(c)
    BY <2>1, EnterKeepsShape
  <2>2. CASE \E e \in Exchanges : Respond(c, e)
    BY <2>2, RespondKeepsShape
  <2>3. CASE AuditFails(c)
    BY <2>3, AuditFailsKeepsShape
  <2>4. CASE Settle(c)
    BY <2>4, SettleSuccessKeepsShape, SettleFailureKeepsShape, SettleRetryableKeepsShape
       DEF Settle
  <2>5. CASE Wake(c)
    BY <2>5, BeginAttemptKeepsShape DEF Wake
  <2> QED BY <1>1, <2>1, <2>2, <2>3, <2>4, <2>5 DEF CallStep
<1>2. CASE UNCHANGED vars
  BY <1>2 DEF vars, Shape, TypeOK, BreakerShape, IsOpen, CallShape, InFlight
<1> QED BY <1>1, <1>2 DEF Next, Finished

(* Type correctness.  The budget is never exceeded and no reservation is   *)
(* left behind, whatever the calls, the exchanges and the limits are.      *)
THEOREM TypeCorrect == Spec => []TypeOK
<1>1. Spec => []Shape
  BY ShapeInit, ShapeStep, PTL DEF Spec
<1>2. Shape => TypeOK
  BY DEF Shape
<1> QED BY <1>1, <1>2, PTL

-----------------------------------------------------------------------------
(* The breaker never closes, and no attempt starts while it is open.       *)

(* A step from an open breaker leaves it and the number of attempts as     *)
(* they are.                                                               *)
LEMMA OpenStep == IsOpen(breaker) /\ Shape /\ [Next]_vars =>
                    breaker' = breaker /\ budget'.started = budget.started
<1> SUFFICES ASSUME IsOpen(breaker), Shape, [Next]_vars
             PROVE  breaker' = breaker /\ budget'.started = budget.started
  OBVIOUS
<1>1. ASSUME NEW c \in Calls, BeginAttempt(c)
      PROVE  breaker' = breaker /\ budget'.started = budget.started
  BY <1>1, BeginAttemptCases DEF BeginsAttempt, ReturnWithoutTransport
<1>2. ASSUME NEW c \in Calls, Enter(c)
      PROVE  breaker' = breaker /\ budget'.started = budget.started
  BY <1>1, <1>2 DEF Enter, ReturnWithoutTransport
<1>3. ASSUME NEW c \in Calls, AuditFails(c) \/ Settle(c)
      PROVE  breaker' = breaker /\ budget'.started = budget.started
  BY <1>3, OpenBreakerFixed
     DEF AuditFails, Settle, SettleSuccess, SettleFailure, SettleRetryable, Audited
<1>4. ASSUME NEW c \in Calls, CallStep(c)
      PROVE  breaker' = breaker /\ budget'.started = budget.started
  BY <1>1, <1>2, <1>3, <1>4 DEF CallStep, Respond, Wake
<1> QED BY <1>4 DEF Next, Finished, vars

(* OpenIsForever: an open breaker keeps its reason and its count, and the  *)
(* number of attempts stays what it was when it opened.                    *)
THEOREM OpenForever == Spec => OpenIsForever
<1>1. Shape /\ [Next]_vars =>
        [IsOpen(breaker) => breaker' = breaker /\ budget'.started = budget.started]_vars
  BY OpenStep
<1> QED BY <1>1, ShapeInit, ShapeStep, PTL DEF Spec, OpenIsForever

-----------------------------------------------------------------------------
(* No retry after an accepted response.                                    *)

(* A step does not start an attempt of a call whose response was accepted. *)
LEMMA AcceptedStep ==
  ASSUME Shape, [Next]_vars, NEW c \in Calls, Accepted(c)
  PROVE  attempt'[c] = attempt[c]
<1>1. pc[c] \notin {"idle", "sleeping"}
  BY DEF Accepted, Shape, CallShape
<1>2. ASSUME NEW d \in Calls, BeginAttempt(d), pc[d] \in {"idle", "sleeping"}
      PROVE  attempt'[c] = attempt[c]
  BY <1>1, <1>2, BeginAttemptCases
     DEF BeginsAttempt, ReturnWithoutTransport, Shape, TypeOK
<1>3. ASSUME NEW d \in Calls, CallStep(d) PROVE attempt'[c] = attempt[c]
  BY <1>2, <1>3
     DEF CallStep, Enter, Respond, AuditFails, Settle, SettleSuccess, SettleFailure,
         SettleRetryable, Audited, Wake, ReturnWithoutTransport
<1> QED BY <1>3 DEF Next, Finished, vars

(* AcceptedNeverRetried: no step starts an attempt of a call whose         *)
(* response was accepted.                                                  *)
THEOREM AcceptedKept == Spec => AcceptedNeverRetried
<1>1. Shape /\ [Next]_vars =>
        [\A c \in Calls : Accepted(c) => attempt'[c] = attempt[c]]_vars
  BY AcceptedStep
<1> QED BY <1>1, ShapeInit, ShapeStep, PTL DEF Spec, AcceptedNeverRetried

-----------------------------------------------------------------------------
(* The ledger.  Seen from the accounts of the attempts, a step either      *)
(* begins one, settles one (on record, or lost), or touches none.          *)

Others(c) == \A d \in Calls \ {c} : InFlight(d)' <=> InFlight(d)
LostSame == \A d \in Calls : AuditLost(d)' <=> AuditLost(d)

StepBegins(c) ==
  /\ ~IsOpen(breaker) /\ breaker' = breaker
  /\ budget'.started = budget.started + 1
  /\ budget'.started \in 1..MaxAttempts
  /\ number' = [number EXCEPT ![c] = budget'.started]
  /\ audits' = audits
  /\ ~InFlight(c) /\ InFlight(c)' /\ Others(c) /\ ~AuditLost(c) /\ LostSame

StepRecords(c) ==
  /\ budget'.started = budget.started /\ number' = number
  /\ audits' = audits \union {AuditRecord(c)}
  /\ InFlight(c) /\ ~InFlight(c)' /\ Others(c) /\ LostSame
  /\ IsOpen(breaker) => IsOpen(breaker)'

StepLoses(c) ==
  /\ budget'.started = budget.started /\ number' = number
  /\ audits' = audits
  /\ InFlight(c) /\ ~InFlight(c)' /\ Others(c)
  /\ AuditLost(c)' /\ \A d \in Calls \ {c} : AuditLost(d)' <=> AuditLost(d)
  /\ IsOpen(breaker)'

StepSkips ==
  /\ budget'.started = budget.started /\ number' = number
  /\ audits' = audits /\ breaker' = breaker
  /\ \A d \in Calls : InFlight(d)' <=> InFlight(d)
  /\ LostSame

(* A call that returns disturbs no other call.                             *)
LEMMA ReturnsAlone ==
  ASSUME Shape, NEW c \in Calls, NEW status, NEW classification,
         Return(c, status, classification)
  PROVE  /\ ~InFlight(c)' /\ Others(c)
         /\ AuditLost(c)' <=> status = "AUDIT_FAILED"
         /\ \A d \in Calls \ {c} : AuditLost(d)' <=> AuditLost(d)
BY DEF Return, Shape, TypeOK, InFlight, Others, AuditLost

(* The top of the loop begins an attempt or leaves the accounts alone.     *)
LEMMA BeginAttemptLedger ==
  ASSUME Shape, NEW c \in Calls, pc[c] \in {"idle", "sleeping"}, BeginAttempt(c)
  PROVE  StepBegins(c) \/ StepSkips
<1>1. ~InFlight(c) /\ ~AuditLost(c)
  BY DEF InFlight, AuditLost
<1>2. CASE BeginsAttempt(c)
  <2>1. /\ budget'.started = budget.started + 1
        /\ budget'.started \in 1..MaxAttempts
    BY <1>2, CommitCountsOne DEF BeginsAttempt, Shape, TypeOK
  <2>2. InFlight(c)' /\ Others(c) /\ LostSame
    BY <1>1, <1>2 DEF BeginsAttempt, Shape, TypeOK, InFlight, Others, LostSame, AuditLost
  <2> QED BY <1>1, <1>2, <2>1, <2>2 DEF BeginsAttempt, StepBegins
<1>3. ASSUME budget' = budget, NEW status \in Statuses, status # "AUDIT_FAILED",
             NEW classification, ReturnWithoutTransport(c, status, classification)
      PROVE  StepSkips
  BY <1>1, <1>3, ReturnsAlone DEF ReturnWithoutTransport, StepSkips, Others, LostSame
<1>4. CASE ~BeginsAttempt(c)
  <2>1. Release(Reserve(budget)) = budget
    BY ReserveReleaseIsSkip DEF Shape, TypeOK
  <2>2. /\ budget' = budget
        /\ \E status \in Statuses \ {"AUDIT_FAILED"}, classification \in
             {"INVALID_REQUEST", "BUDGET_EXHAUSTED", "CIRCUIT_OPEN"} :
             ReturnWithoutTransport(c, status, classification)
    BY <1>4, <2>1 DEF BeginAttempt, BeginsAttempt, AttemptNumber, Statuses
  <2> QED BY <1>3, <2>2
<1> QED BY <1>2, <1>4

(* A call of execute() begins an attempt or leaves the accounts alone.     *)
LEMMA EnterLedger ==
  ASSUME Shape, NEW c \in Calls, Enter(c)
  PROVE  StepBegins(c) \/ StepSkips
<1>1. pc[c] = "idle"
  BY DEF Enter
<1>2. CASE BeginAttempt(c)
  BY <1>1, <1>2, BeginAttemptLedger
<1>3. CASE ~BeginAttempt(c)
  <2>1. ~InFlight(c) /\ ~AuditLost(c)
    BY <1>1 DEF InFlight, AuditLost
  <2>2. PICK status \in {"FAILED", "CIRCUIT_OPEN"},
             classification \in {"INVALID_REQUEST", "CIRCUIT_OPEN"} :
          budget' = budget /\ ReturnWithoutTransport(c, status, classification)
    BY <1>3 DEF Enter
  <2> QED BY <2>1, <2>2, ReturnsAlone DEF ReturnWithoutTransport, StepSkips, Others, LostSame
<1> QED BY <1>2, <1>3

(* A response leaves the accounts alone.                                   *)
LEMMA RespondLedger ==
  ASSUME Shape, NEW c \in Calls, NEW e, Respond(c, e)
  PROVE  StepSkips
BY DEF Respond, Shape, TypeOK, StepSkips, InFlight, LostSame, AuditLost

(* A failing append loses the attempt.                                     *)
LEMMA AuditFailsLedger ==
  ASSUME Shape, NEW c \in Calls, AuditFails(c)
  PROVE  StepLoses(c)
<1>1. InFlight(c)
  BY DEF AuditFails, InFlight
<1>2. IsOpen(breaker)'
  BY DEF AuditFails, Opened, IsOpen, Shape, BreakerShape, Breakers
<1> QED BY <1>1, <1>2, ReturnsAlone DEF AuditFails, StepLoses

(* A settled attempt is on record.                                         *)
LEMMA SettleLedger ==
  ASSUME Shape, NEW c \in Calls, Settle(c)
  PROVE  StepRecords(c)
<1>1. Audited(c)
  BY DEF Settle, SettleSuccess, SettleFailure, SettleRetryable
<1>2. InFlight(c) /\ ~AuditLost(c)
  BY <1>1 DEF Audited, InFlight, AuditLost
<1>3. IsOpen(breaker) => IsOpen(breaker)'
  BY OpenBreakerFixed
     DEF Settle, SettleSuccess, SettleFailure, SettleRetryable, IsOpen
<1>4. \/ pc' = [pc EXCEPT ![c] = "sleeping"] /\ result' = result
      \/ \E status \in {"SUCCESS", "SUCCESS_RUN_BLOCKED", "FAILED", "BUDGET_EXHAUSTED"} :
            \E classification : Return(c, status, classification)
  BY DEF Settle, SettleSuccess, SettleFailure, SettleRetryable
<1>5. ~InFlight(c)' /\ Others(c) /\ LostSame
  <2>1. CASE pc' = [pc EXCEPT ![c] = "sleeping"] /\ result' = result
    BY <1>2, <2>1 DEF Shape, TypeOK, InFlight, Others, LostSame, AuditLost
  <2>2. CASE \E status \in {"SUCCESS", "SUCCESS_RUN_BLOCKED", "FAILED", "BUDGET_EXHAUSTED"} :
                \E classification : Return(c, status, classification)
    BY <1>2, <2>2, ReturnsAlone DEF LostSame
  <2> QED BY <1>4, <2>1, <2>2
<1> QED BY <1>1, <1>2, <1>3, <1>5 DEF Audited, StepRecords

(* Every step is one of the four kinds.                                    *)
LEMMA LedgerStep ==
  Shape /\ [Next]_vars =>
    StepSkips \/ \E c \in Calls : StepBegins(c) \/ StepRecords(c) \/ StepLoses(c)
<1> SUFFICES ASSUME Shape, [Next]_vars
             PROVE  StepSkips \/ \E c \in Calls : StepBegins(c) \/ StepRecords(c) \/ StepLoses(c)
  OBVIOUS
<1>1. ASSUME NEW c \in Calls, CallStep(c)
      PROVE  StepSkips \/ StepBegins(c) \/ StepRecords(c) \/ StepLoses(c)
  <2>1. CASE Enter(c)
    BY <2>1, EnterLedger
  <2>2. CASE \E e \in Exchanges : Respond(c, e)
    BY <2>2, RespondLedger
  <2>3. CASE AuditFails(c)
    BY <2>3, AuditFailsLedger
  <2>4. CASE Settle(c)
    BY <2>4, SettleLedger
  <2>5. CASE Wake(c)
    BY <2>5, BeginAttemptLedger DEF Wake
  <2> QED BY <1>1, <2>1, <2>2, <2>3, <2>4, <2>5 DEF CallStep
<1>2. CASE UNCHANGED vars
  BY <1>2 DEF vars, StepSkips, InFlight, LostSame, AuditLost
<1> QED BY <1>1, <1>2 DEF Next, Finished

-----------------------------------------------------------------------------
(* What such a step does to the three accounts.                            *)

Ledger == Shape /\ EveryAttemptAccounted

(* A step that begins an attempt adds the next number to the flying ones.  *)
LEMMA BeginsAccounts ==
  ASSUME Ledger, NEW c \in Calls, StepBegins(c)
  PROVE  /\ Flying' = Flying \union {budget.started + 1}
         /\ Recorded' = Recorded
         /\ Lost' = Lost
<1>1. \A d \in Calls \ {c} : number'[d] = number[d] /\ (InFlight(d)' <=> InFlight(d))
  BY DEF StepBegins, Others, Ledger, Shape, TypeOK
<1>2. number'[c] = budget.started + 1 /\ InFlight(c)' /\ ~InFlight(c)
  BY DEF StepBegins, Ledger, Shape, TypeOK
<1>3. Flying' = Flying \union {budget.started + 1}
  BY <1>1, <1>2 DEF Flying
<1>4. \A d \in Calls : /\ AuditLost(d)' <=> AuditLost(d)
                       /\ AuditLost(d) => number'[d] = number[d]
  BY <1>1 DEF StepBegins, LostSame
<1>5. Lost' = Lost
  BY <1>4 DEF Lost
<1> QED BY <1>3, <1>5 DEF StepBegins, Recorded

(* An attempt that lands takes its number, and no other, from the flying   *)
(* ones.                                                                   *)
LEMMA LandsAccounts ==
  ASSUME Ledger, NEW c \in Calls, InFlight(c), ~InFlight(c)', Others(c), number' = number
  PROVE  Flying' = Flying \ {number[c]} /\ number[c] \in Flying
<1>1. \A d \in Calls \ {c} : InFlight(d) => number[d] # number[c]
  BY DEF Ledger, EveryAttemptAccounted
<1>2. \A d \in Calls \ {c} : InFlight(d)' <=> InFlight(d)
  BY DEF Others
<1> QED BY <1>1, <1>2 DEF Flying

(* A recorded attempt moves from the flying ones to the records.           *)
LEMMA RecordsAccounts ==
  ASSUME Ledger, NEW c \in Calls, StepRecords(c)
  PROVE  /\ Flying' = Flying \ {number[c]} /\ number[c] \in Flying
         /\ Recorded' = Recorded \union {number[c]}
         /\ Lost' = Lost
<1>1. Flying' = Flying \ {number[c]} /\ number[c] \in Flying
  BY LandsAccounts DEF StepRecords
<1>2. AuditRecord(c).number = number[c]
  BY DEF AuditRecord
<1>3. Recorded' = Recorded \union {number[c]}
  BY <1>2 DEF StepRecords, Recorded
<1>4. Lost' = Lost
  BY DEF StepRecords, LostSame, Lost
<1> QED BY <1>1, <1>3, <1>4

(* A lost attempt moves from the flying ones to the lost ones.             *)
LEMMA LosesAccounts ==
  ASSUME Ledger, NEW c \in Calls, StepLoses(c)
  PROVE  /\ Flying' = Flying \ {number[c]} /\ number[c] \in Flying
         /\ Recorded' = Recorded
         /\ Lost' = Lost \union {number[c]}
<1>1. Flying' = Flying \ {number[c]} /\ number[c] \in Flying
  BY LandsAccounts DEF StepLoses
<1>2. ~AuditLost(c)
  BY DEF StepLoses, InFlight, AuditLost
<1>3. Lost' = Lost \union {number[c]}
  BY <1>2 DEF StepLoses, Lost
<1> QED BY <1>1, <1>3 DEF StepLoses, Recorded

(* A step of no attempt leaves the three accounts as they are.             *)
LEMMA SkipsAccounts ==
  ASSUME StepSkips
  PROVE  Flying' = Flying /\ Recorded' = Recorded /\ Lost' = Lost
BY DEF StepSkips, LostSame, Flying, Recorded, Lost

-----------------------------------------------------------------------------
(* Every attempt is accounted for.                                         *)

(* A run starts with empty accounts.                                       *)
LEMMA LedgerInit == Init => Ledger
<1> SUFFICES ASSUME Init PROVE EveryAttemptAccounted
  BY ShapeInit DEF Ledger
<1>1. Flying = {} /\ Recorded = {} /\ Lost = {}
  BY DEF Init, Flying, Recorded, Lost, InFlight, AuditLost
<1>2. 1..budget.started = {}
  BY DEF Init
<1> QED BY <1>1, <1>2 DEF Init, EveryAttemptAccounted, InFlight

(* Beginning an attempt keeps every attempt accounted for.                 *)
LEMMA AccountsOfBegin ==
  ASSUME Ledger, NEW c \in Calls, StepBegins(c)
  PROVE  EveryAttemptAccounted'
<1> DEFINE s == budget.started
<1>1. s \in Nat /\ budget'.started = s + 1 /\ 1..(s + 1) = (1..s) \union {s + 1} /\ s + 1 \notin 1..s
  BY DEF StepBegins, Ledger, Shape, TypeOK
<1>2. /\ Flying' = Flying \union {s + 1}
      /\ Recorded' = Recorded
      /\ Lost' = Lost
  BY BeginsAccounts
<1>3. /\ Flying \union Recorded \union Lost = 1..s
      /\ Flying \intersect Recorded = {}
      /\ Flying \intersect Lost = {}
      /\ Recorded \intersect Lost = {}
  BY DEF Ledger, EveryAttemptAccounted
<1>4. /\ (Flying \union Recorded \union Lost)' = 1..budget'.started
      /\ (Flying \intersect Recorded)' = {}
      /\ (Flying \intersect Lost)' = {}
      /\ (Recorded \intersect Lost)' = {}
  BY <1>1, <1>2, <1>3
<1>5. ASSUME NEW d \in Calls, NEW e \in Calls,
             InFlight(d)', InFlight(e)', number'[d] = number'[e]
      PROVE  d = e
  <2>1. \A f \in Calls \ {c} : InFlight(f)' => InFlight(f) /\ number'[f] \in 1..s
                                               /\ number'[f] = number[f]
    BY DEF StepBegins, Others, Ledger, Shape, TypeOK, CallShape
  <2>2. number'[c] = s + 1
    BY <1>1 DEF StepBegins, Ledger, Shape, TypeOK
  <2> QED BY <1>1, <1>5, <2>1, <2>2 DEF Ledger, EveryAttemptAccounted
<1>6. \A a, b \in audits' : a.number = b.number => a = b
  BY DEF StepBegins, Ledger, EveryAttemptAccounted
<1>7. Lost' # {} => IsOpen(breaker)'
  BY <1>2 DEF StepBegins, Ledger, EveryAttemptAccounted, IsOpen
<1> QED BY <1>4, <1>5, <1>6, <1>7 DEF EveryAttemptAccounted

(* An attempt that lands leaves the flying ones and joins another account. *)
LEMMA AccountsOfLanding ==
  ASSUME Ledger, NEW c \in Calls, StepRecords(c) \/ StepLoses(c)
  PROVE  EveryAttemptAccounted'
<1> DEFINE n == number[c]
<1>1. budget'.started = budget.started /\ number' = number
  BY DEF StepRecords, StepLoses
<1>2. /\ Flying' = Flying \ {n} /\ n \in Flying
      /\ \/ Recorded' = Recorded \union {n} /\ Lost' = Lost
         \/ Recorded' = Recorded /\ Lost' = Lost \union {n}
  BY RecordsAccounts, LosesAccounts
<1>3. /\ Flying \union Recorded \union Lost = 1..budget.started
      /\ Flying \intersect Recorded = {}
      /\ Flying \intersect Lost = {}
      /\ Recorded \intersect Lost = {}
  BY DEF Ledger, EveryAttemptAccounted
<1>4. /\ (Flying \union Recorded \union Lost)' = 1..budget'.started
      /\ (Flying \intersect Recorded)' = {}
      /\ (Flying \intersect Lost)' = {}
      /\ (Recorded \intersect Lost)' = {}
  BY <1>1, <1>2, <1>3
<1>5. \A d, e \in Calls : InFlight(d)' /\ InFlight(e)' /\ number'[d] = number'[e] => d = e
  BY <1>1 DEF StepRecords, StepLoses, Others, Ledger, EveryAttemptAccounted
<1>6. \A a, b \in audits' : a.number = b.number => a = b
  <2>1. n \notin Recorded
    BY <1>2, <1>3
  <2>2. \A a \in audits : a.number # n
    BY <2>1 DEF Recorded
  <2>3. AuditRecord(c).number = n
    BY DEF AuditRecord
  <2> QED BY <2>2, <2>3 DEF StepRecords, StepLoses, Ledger, EveryAttemptAccounted
<1>7. Lost' # {} => IsOpen(breaker)'
  <2>1. CASE StepRecords(c)
    BY <2>1, RecordsAccounts DEF StepRecords, Ledger, EveryAttemptAccounted
  <2>2. CASE StepLoses(c)
    BY <2>2 DEF StepLoses
  <2> QED BY <2>1, <2>2
<1> QED BY <1>4, <1>5, <1>6, <1>7 DEF EveryAttemptAccounted

(* Every step keeps every attempt accounted for.                           *)
LEMMA LedgerKept == Ledger /\ [Next]_vars => Ledger'
<1> SUFFICES ASSUME Ledger, [Next]_vars PROVE EveryAttemptAccounted'
  BY ShapeStep DEF Ledger
<1>1. CASE StepSkips
  BY <1>1, SkipsAccounts DEF StepSkips, Ledger, EveryAttemptAccounted, IsOpen
<1>2. ASSUME NEW c \in Calls, StepBegins(c) \/ StepRecords(c) \/ StepLoses(c)
      PROVE  EveryAttemptAccounted'
  BY <1>2, AccountsOfBegin, AccountsOfLanding
<1> QED BY <1>1, <1>2, LedgerStep DEF Ledger

(* EveryAttemptAccounted: an attempt is in flight, on record, or lost with *)
(* the run stopped, and no two attempts share a number.                    *)
THEOREM AttemptsAccounted == Spec => []EveryAttemptAccounted
<1>1. Ledger => EveryAttemptAccounted
  BY DEF Ledger
<1> QED BY <1>1, LedgerInit, LedgerKept, PTL DEF Spec

-----------------------------------------------------------------------------
(* What a step leaves to the other calls, and how a call may go on.        *)

(* A step of one call leaves the others as they are, and records only grow.*)
LEMMA OthersUntouched ==
  ASSUME Shape, NEW c \in Calls, CallStep(c)
  PROVE  /\ audits \subseteq audits'
         /\ \A d \in Calls \ {c} :
              /\ pc'[d] = pc[d] /\ attempt'[d] = attempt[d] /\ number'[d] = number[d]
              /\ response'[d] = response[d] /\ result'[d] = result[d]
<1>1. ASSUME BeginAttempt(c)
      PROVE  /\ audits' = audits
             /\ \A d \in Calls \ {c} :
                  /\ pc'[d] = pc[d] /\ attempt'[d] = attempt[d] /\ number'[d] = number[d]
                  /\ response'[d] = response[d] /\ result'[d] = result[d]
  BY <1>1, BeginAttemptCases
     DEF BeginsAttempt, ReturnWithoutTransport, Return, Shape, TypeOK
<1>2. CASE Enter(c) \/ Wake(c)
  BY <1>1, <1>2 DEF Enter, Wake, ReturnWithoutTransport, Return, Shape, TypeOK
<1>3. CASE \E e \in Exchanges : Respond(c, e)
  BY <1>3 DEF Respond, Shape, TypeOK
<1>4. CASE AuditFails(c)
  BY <1>4 DEF AuditFails, Return, Shape, TypeOK
<1>5. CASE Settle(c)
  BY <1>5 DEF Settle, SettleSuccess, SettleFailure, SettleRetryable, Audited, Return,
              Shape, TypeOK
<1> QED BY <1>2, <1>3, <1>4, <1>5 DEF CallStep

(* A call returns with the state of the breaker.                           *)
LEMMA ReturnedFields ==
  ASSUME Shape, NEW c \in Calls, NEW status, NEW classification,
         Return(c, status, classification)
  PROVE  /\ pc'[c] = "done"
         /\ result'[c].status = status /\ result'[c].classification = classification
         /\ result'[c].circuit = breaker'.state /\ result'[c].reason = breaker'.reason
BY DEF Return, Shape, TypeOK

(* The ways to return before a transport.                                  *)
ReturnsUnsent(c) ==
  \/ ReturnWithoutTransport(c, "FAILED", "INVALID_REQUEST")
  \/ ReturnWithoutTransport(c, "CIRCUIT_OPEN", "CIRCUIT_OPEN")
  \/ ReturnWithoutTransport(c, "BUDGET_EXHAUSTED", "BUDGET_EXHAUSTED")

LEMMA EnterOrWake ==
  ASSUME NEW c \in Calls, Enter(c) \/ Wake(c)
  PROVE  pc[c] \in {"idle", "sleeping"} /\ (BeginsAttempt(c) \/ ReturnsUnsent(c))
BY DEF Enter, Wake, BeginAttempt, BeginsAttempt, AttemptNumber, ReturnsUnsent

(* A settled call has its response on record under its classification.     *)
LEMMA SettledIsRecorded ==
  ASSUME Shape, NEW c \in Calls, Settle(c)
  PROVE  /\ pc[c] = "auditing" /\ response[c] \in Exchanges
         /\ UNCHANGED <<budget, attempt, number, response>>
         /\ \E a \in audits' : /\ a.call = c /\ a.number = number'[c]
                               /\ a.classification = Classification(response[c])
<1>1. Audited(c)
  BY DEF Settle, SettleSuccess, SettleFailure, SettleRetryable
<1>2. AuditRecord(c).call = c /\ AuditRecord(c).number = number[c]
      /\ AuditRecord(c).classification = Classification(response[c])
  BY DEF AuditRecord
<1>3. response[c] \in Exchanges
  BY <1>1 DEF Audited, Shape, TypeOK, CallShape
<1> QED BY <1>1, <1>2, <1>3 DEF Audited

-----------------------------------------------------------------------------
(* Little quota after an accepted response stops the run.                  *)

(* What the client promises of an accepted response, client.ts: its        *)
(* metadata are the headers that were sent.                                *)
AcceptedIsPassedOn == \A e \in Exchanges : e.ok => e.metadata = e.wire

(* Headers that tell of little quota are none that allow to go on.         *)
LEMMA LowIsNotAllowed ==
  ASSUME NEW h \in RawHeaders, QuotaLow(h)
  PROVE  BlockingOutcome(Parse(h)) # "ALLOW"
<1>1. h["remaining"] \in Nat \union {None, Malformed}
      /\ h["requestsRemaining"] \in Nat \union {None, Malformed}
  BY DEF RawHeaders, HeaderNames
<1>2. h # NoHeaders
  BY <1>1, SafetyConfigAssumption DEF QuotaLow, NoHeaders, HeaderNames
<1>3. Parse(h) = Parsed("INVALID", NoHeaders) \/ Parse(h) = Parsed("VALID", h)
  BY <1>2 DEF Parse
<1>4. CASE Parse(h) = Parsed("INVALID", NoHeaders)
  <2>1. Parse(h).state = "INVALID"
    BY <1>4 DEF Parsed
  <2> QED BY <2>1 DEF BlockingOutcome
<1>5. CASE Parse(h) = Parsed("VALID", h)
  <2>1. /\ Parse(h).minuteRemaining = h["remaining"]
        /\ Parse(h).dailyRemaining = h["requestsRemaining"]
    BY <1>5 DEF Parsed
  <2>2. MinuteExhausted(Parse(h)) \/ BelowThreshold(Parse(h))
    BY <2>1 DEF QuotaLow, MinuteExhausted, BelowThreshold
  <2> QED BY <2>2 DEF BlockingOutcome
<1> QED BY <1>3, <1>4, <1>5

(* A call that has returned after an accepted response that does not allow *)
(* to go on has opened the breaker, or found it open.                      *)
Blocked(c) ==
  /\ pc[c] = "done" /\ Accepted(c)
  /\ BlockingOutcome(Parse(response[c].metadata)) # "ALLOW"

BlockedIsOpen == \A c \in Calls : Blocked(c) => IsOpen(breaker)

LEMMA BlockedStep == Shape /\ BlockedIsOpen /\ [Next]_vars => BlockedIsOpen'
<1> SUFFICES ASSUME Shape, BlockedIsOpen, [Next]_vars PROVE BlockedIsOpen'
  OBVIOUS
<1>1. IsOpen(breaker) => IsOpen(breaker')
  BY OpenStep
<1>2. ASSUME NEW c \in Calls, CallStep(c), Blocked(c)'
      PROVE  IsOpen(breaker')
  <2>1. CASE Enter(c) \/ Wake(c)
    <3>1. response' = response \/ pc'[c] = "awaiting"
      BY <2>1, EnterOrWake
         DEF BeginsAttempt, ReturnsUnsent, ReturnWithoutTransport, Shape, TypeOK
    <3>2. ~Accepted(c)
      BY <2>1, EnterOrWake DEF Shape, CallShape, Accepted
    <3> QED BY <1>2, <3>1, <3>2 DEF Blocked, Accepted
  <2>2. CASE \E e \in Exchanges : Respond(c, e)
    BY <1>2, <2>2 DEF Respond, Blocked, Shape, TypeOK
  <2>3. CASE AuditFails(c)
    BY <2>3, OpenedShape DEF AuditFails, Shape, Reasons
  <2>4. CASE Settle(c)
    <3>1. response'[c] = response[c] /\ response[c].ok
      BY <1>2, <2>4, SettledIsRecorded DEF Blocked, Accepted
    <3>2. SettleSuccess(c)
      BY <2>4, <3>1 DEF Settle, SettleFailure, SettleRetryable
    <3> DEFINE outcome == BlockingOutcome(Parse(response[c].metadata))
    <3>3. outcome # "ALLOW"
      BY <1>2, <3>1 DEF Blocked
    <3>4. \/ breaker' = Opened(breaker, "INVALID_RATE_LIMIT_HEADERS")
          \/ breaker' = Opened(WithSuccess(breaker), BreakerReason(outcome))
      BY <3>2, <3>3 DEF SettleSuccess
    <3>5. BreakerShape(WithSuccess(breaker)) /\ BreakerShape(breaker)
      BY SuccessShape DEF Shape
    <3>6. BreakerReason(outcome) \in Reasons /\ "INVALID_RATE_LIMIT_HEADERS" \in Reasons
      BY DEF BreakerReason, Reasons
    <3> HIDE DEF outcome
    <3> QED BY <3>4, <3>5, <3>6, OpenedShape
  <2> QED BY <1>2, <2>1, <2>2, <2>3, <2>4 DEF CallStep
<1>3. ASSUME NEW c \in Calls, CallStep(c)
      PROVE  BlockedIsOpen'
  <2>1. ASSUME NEW d \in Calls \ {c}, Blocked(d)'
        PROVE  IsOpen(breaker')
    <3>1. Blocked(d)
      BY <1>3, <2>1, OthersUntouched DEF Blocked, Accepted
    <3> QED BY <1>1, <3>1 DEF BlockedIsOpen
  <2>2. IsOpen(breaker)' <=> IsOpen(breaker')
    BY DEF IsOpen
  <2> QED BY <1>2, <1>3, <2>1, <2>2 DEF BlockedIsOpen
<1>4. CASE UNCHANGED vars
  BY <1>4 DEF vars, BlockedIsOpen, Blocked, Accepted, IsOpen
<1> QED BY <1>3, <1>4 DEF Next, Finished

(* AcceptedQuotaStopsRun: no attempt starts after an accepted response     *)
(* with little quota was settled, if its headers reached the executor.     *)
THEOREM AcceptedQuotaStops ==
  ASSUME AcceptedIsPassedOn
  PROVE  Spec => AcceptedQuotaStopsRun
<1> DEFINE Stops == budget'.started # budget.started =>
                      \A c \in Calls : Settled(c) /\ Accepted(c) => ~QuotaLow(response[c].wire)
<1>1. ASSUME Shape, BlockedIsOpen, NEW c \in Calls, Settled(c), Accepted(c),
             QuotaLow(response[c].wire)
      PROVE  IsOpen(breaker)
  <2>1. response[c] \in Exchanges /\ pc[c] = "done"
    BY <1>1 DEF Settled, Accepted, Shape, TypeOK, CallShape
  <2>2. response[c].metadata = response[c].wire /\ response[c].wire \in RawHeaders
    BY <1>1, <2>1, ExchangesAssumption DEF AcceptedIsPassedOn, Accepted, Exchange
  <2>3. Blocked(c)
    BY <1>1, <2>1, <2>2, LowIsNotAllowed DEF Blocked
  <2> QED BY <1>1, <2>3 DEF BlockedIsOpen
<1>2. ASSUME Shape, BlockedIsOpen, [Next]_vars
      PROVE  Stops
  BY <1>1, <1>2, OpenStep
<1>3. Init => BlockedIsOpen
  BY DEF Init, BlockedIsOpen, Blocked
<1>4. Shape /\ BlockedIsOpen /\ [Next]_vars => [Stops]_vars
  BY <1>2
<1> HIDE DEF Stops
<1>5. Spec => [][Stops]_vars
  BY <1>3, <1>4, ShapeInit, ShapeStep, BlockedStep, PTL DEF Spec
<1> QED BY <1>5 DEF Stops, AcceptedQuotaStopsRun

-----------------------------------------------------------------------------
(* A result agrees with the record of the last attempt of its call.        *)

Retried == {"RETRYABLE_FAILURE", "RATE_LIMITED"}

OnRecord(c, classes) ==
  \E a \in audits : a.call = c /\ a.number = number[c] /\ a.classification \in classes

(* That a lost record is not there follows from the ledger; the rest of    *)
(* ResultMatchesAudit is kept call by call, if a call that sleeps is known *)
(* to have a failure on record.                                            *)
Reported(c) ==
  /\ result[c].status = "SUCCESS" => OnRecord(c, {"SUCCESS"})
  /\ result[c].status = "SUCCESS_RUN_BLOCKED" =>
       OnRecord(c, {"SUCCESS", "QUOTA_EXHAUSTED"}) /\ result[c].circuit = "OPEN"
  /\ result[c].status = "FAILED" /\ result[c].classification # "INVALID_REQUEST" =>
       OnRecord(c, {result[c].classification})
  /\ result[c].status = "AUDIT_FAILED" => result[c].circuit = "OPEN"
  /\ result[c].status \in {"CIRCUIT_OPEN", "BUDGET_EXHAUSTED"} /\ attempt[c] > 0 =>
       OnRecord(c, Retried)
  /\ result[c].circuit = "OPEN" => IsOpen(breaker) /\ breaker.reason = result[c].reason

Told(c) ==
  /\ pc[c] = "idle" => attempt[c] = 0
  /\ pc[c] = "sleeping" => OnRecord(c, Retried)
  /\ pc[c] = "done" => Reported(c)

Reports == Ledger /\ \A c \in Calls : Told(c)

(* A call that has returned, or sleeps, is not disturbed by the others.    *)
LEMMA ToldStaysTold ==
  ASSUME Shape, Ledger, [Next]_vars, NEW d \in Calls, Told(d), audits \subseteq audits',
         pc'[d] = pc[d], attempt'[d] = attempt[d], number'[d] = number[d], result'[d] = result[d]
  PROVE  Told(d)'
<1>1. \A classes : OnRecord(d, classes) => OnRecord(d, classes)'
  BY DEF OnRecord
<1>2. IsOpen(breaker) => IsOpen(breaker)' /\ breaker'.reason = breaker.reason
  BY OpenStep DEF IsOpen
<1>3. Reported(d) => Reported(d)'
  <2>1. /\ OnRecord(d, {"SUCCESS"}) => OnRecord(d, {"SUCCESS"})'
        /\ OnRecord(d, {"SUCCESS", "QUOTA_EXHAUSTED"}) => OnRecord(d, {"SUCCESS", "QUOTA_EXHAUSTED"})'
        /\ OnRecord(d, {result[d].classification}) => OnRecord(d, {result[d].classification})'
        /\ OnRecord(d, Retried) => OnRecord(d, Retried)'
    BY DEF OnRecord
  <2> QED BY <1>2, <2>1 DEF Reported
<1> QED BY <1>1, <1>3 DEF Told

(* A call that returns without a transport tells what it is.               *)
LEMMA UnsentIsTold ==
  ASSUME Shape, NEW c \in Calls, Told(c), pc[c] \in {"idle", "sleeping"}, ReturnsUnsent(c)
  PROVE  Told(c)'
<1>1. PICK status \in {"FAILED", "CIRCUIT_OPEN", "BUDGET_EXHAUSTED"} :
        \E classification :
          /\ ReturnWithoutTransport(c, status, classification)
          /\ status = "FAILED" => classification = "INVALID_REQUEST"
  BY DEF ReturnsUnsent
<1>2. PICK classification :
        /\ ReturnWithoutTransport(c, status, classification)
        /\ status = "FAILED" => classification = "INVALID_REQUEST"
  BY <1>1
<1>3. UNCHANGED <<breaker, attempt, number, response, audits>>
  BY <1>2 DEF ReturnWithoutTransport
<1>4. /\ pc'[c] = "done" /\ result'[c].status = status
      /\ result'[c].classification = classification
      /\ result'[c].circuit = breaker'.state /\ result'[c].reason = breaker'.reason
  BY <1>2, ReturnedFields DEF ReturnWithoutTransport
<1>5. attempt'[c] > 0 => OnRecord(c, Retried)'
  BY <1>3 DEF Told, OnRecord
<1> QED BY <1>2, <1>4, <1>5 DEF Told, Reported, IsOpen

(* A call that settles its response tells what it put on record.           *)
LEMMA SettleIsTold ==
  ASSUME Shape, NEW c \in Calls, Settle(c)
  PROVE  Told(c)'
<1> DEFINE outcome == BlockingOutcome(Parse(response[c].metadata))
<1>1. PICK class : class = Classification(response[c])
  OBVIOUS
<1>2. \A classes : class \in classes => OnRecord(c, classes)'
  BY <1>1, SettledIsRecorded DEF OnRecord
<1>3. BreakerShape(breaker) /\ BreakerShape(WithSuccess(breaker))
  BY SuccessShape DEF Shape
<1>4. CASE SettleSuccess(c)
  <2>1. class = SuccessClassification(outcome)
    BY <1>4, <1>1 DEF SettleSuccess, Classification
  <2>2. CASE RejectsResponse(outcome) /\ Return(c, "FAILED", "INVALID_RESPONSE")
    <3>1. class = "INVALID_RESPONSE"
      BY <2>1, <2>2 DEF SuccessClassification, RejectsResponse
    <3>2. OnRecord(c, {"INVALID_RESPONSE"})'
      BY <1>2, <3>1
    <3> QED BY <2>2, <3>2, ReturnedFields DEF Told, Reported, IsOpen
  <2>3. CASE /\ StopsAfterResponse(outcome)
             /\ breaker' = Opened(WithSuccess(breaker), BreakerReason(outcome))
             /\ Return(c, "SUCCESS_RUN_BLOCKED", SuccessClassification(outcome))
    <3>1. class \in {"SUCCESS", "QUOTA_EXHAUSTED"}
      BY <2>1, <2>3 DEF SuccessClassification, StopsAfterResponse, RejectsResponse
    <3>2. OnRecord(c, {"SUCCESS", "QUOTA_EXHAUSTED"})'
      BY <1>2, <3>1
    <3>3. BreakerReason(outcome) \in Reasons
      BY DEF BreakerReason, Reasons
    <3>4. IsOpen(breaker')
      BY <1>3, <2>3, <3>3, OpenedShape
    <3> QED BY <2>3, <3>2, <3>4, ReturnedFields DEF Told, Reported, IsOpen
  <2>4. CASE outcome = "ALLOW" /\ Return(c, "SUCCESS", "SUCCESS")
    <3>1. class = "SUCCESS"
      BY <2>1, <2>4 DEF SuccessClassification, RejectsResponse
    <3>2. OnRecord(c, {"SUCCESS"})'
      BY <1>2, <3>1
    <3> QED BY <2>4, <3>2, ReturnedFields DEF Told, Reported, IsOpen
  <2> QED BY <1>4, <2>2, <2>3, <2>4 DEF SettleSuccess
<1>5. CASE SettleFailure(c)
  <2>1. Return(c, "FAILED", class)
    BY <1>5, <1>1 DEF SettleFailure, Classification, MapClassification
  <2>2. OnRecord(c, {class})'
    BY <1>2
  <2> QED BY <2>1, <2>2, ReturnedFields DEF Told, Reported, IsOpen
<1>6. CASE SettleRetryable(c)
  <2>1. class \in Retried
    BY <1>6, <1>1 DEF SettleRetryable, Retryable, Retried
  <2>2. OnRecord(c, {class})' /\ OnRecord(c, Retried)'
    BY <1>2, <2>1
  <2>3. \/ Return(c, "FAILED", class)
        \/ Return(c, "BUDGET_EXHAUSTED", "BUDGET_EXHAUSTED")
        \/ pc' = [pc EXCEPT ![c] = "sleeping"]
    BY <1>6, <1>1 DEF SettleRetryable
  <2>4. CASE Return(c, "FAILED", class)
    BY <2>2, <2>4, ReturnedFields DEF Told, Reported, IsOpen
  <2>5. CASE Return(c, "BUDGET_EXHAUSTED", "BUDGET_EXHAUSTED")
    BY <2>2, <2>5, ReturnedFields DEF Told, Reported, IsOpen
  <2>6. CASE pc' = [pc EXCEPT ![c] = "sleeping"]
    BY <2>2, <2>6 DEF Told, Shape, TypeOK
  <2> QED BY <2>3, <2>4, <2>5, <2>6
<1> QED BY <1>4, <1>5, <1>6 DEF Settle

LEMMA ReportsStep == Reports /\ [Next]_vars => Reports'
<1> SUFFICES ASSUME Reports, [Next]_vars PROVE \A d \in Calls : Told(d)'
  BY LedgerKept DEF Reports
<1>1. Shape /\ Ledger /\ \A d \in Calls : Told(d)
  BY DEF Reports, Ledger
<1>2. ASSUME NEW c \in Calls, CallStep(c)
      PROVE  Told(c)'
  <2>1. CASE Enter(c) \/ Wake(c)
    <3>1. CASE BeginsAttempt(c)
      BY <1>1, <3>1 DEF BeginsAttempt, Told, Shape, TypeOK
    <3>2. CASE ReturnsUnsent(c)
      BY <1>1, <2>1, <3>2, EnterOrWake, UnsentIsTold
    <3> QED BY <2>1, <3>1, <3>2, EnterOrWake
  <2>2. CASE \E e \in Exchanges : Respond(c, e)
    BY <1>1, <2>2 DEF Respond, Told, Shape, TypeOK
  <2>3. CASE AuditFails(c)
    <3>1. IsOpen(breaker')
      BY <1>1, <2>3, OpenedShape DEF AuditFails, Shape, Reasons
    <3>2. Return(c, "AUDIT_FAILED", "AUDIT_FAILED")
      BY <2>3 DEF AuditFails
    <3> QED BY <1>1, <3>1, <3>2, ReturnedFields DEF Told, Reported, IsOpen
  <2>4. CASE Settle(c)
    BY <1>1, <2>4, SettleIsTold
  <2> QED BY <1>2, <2>1, <2>2, <2>3, <2>4 DEF CallStep
<1>3. ASSUME NEW c \in Calls, CallStep(c), NEW d \in Calls
      PROVE  Told(d)'
  <2>1. CASE d = c
    BY <1>2, <1>3, <2>1
  <2>2. CASE d # c
    BY <1>1, <1>3, <2>2, OthersUntouched, ToldStaysTold
  <2> QED BY <2>1, <2>2
<1>4. CASE UNCHANGED vars
  <2>1. ASSUME NEW d \in Calls PROVE Told(d)'
    BY <1>1, <1>4, ToldStaysTold DEF vars
  <2> QED BY <2>1
<1> QED BY <1>3, <1>4 DEF Next, Finished

(* ResultMatchesAudit: what a call reports is what is on record for its    *)
(* last attempt, with the reason for which the run stopped.                *)
THEOREM ResultsMatch == Spec => []ResultMatchesAudit
<1>1. ASSUME Reports
      PROVE  ResultMatchesAudit
  <2>1. ASSUME NEW c \in Calls, pc[c] = "done", result[c].status = "AUDIT_FAILED", NEW a \in audits
        PROVE  a.number # number[c]
    <3>1. number[c] \in Lost /\ a.number \in Recorded
      BY <2>1 DEF Lost, AuditLost, Recorded
    <3> QED BY <1>1, <3>1 DEF Reports, Ledger, EveryAttemptAccounted
  <2>2. ASSUME NEW c \in Calls, pc[c] = "done"
        PROVE  Reported(c)
    BY <1>1, <2>2 DEF Reports, Told
  <2> QED BY <2>1, <2>2 DEF ResultMatchesAudit, Reported, OnRecord, Retried
<1>2. Init => Reports
  BY LedgerInit DEF Init, Reports, Told
<1> QED BY <1>1, <1>2, ReportsStep, PTL DEF Spec

-----------------------------------------------------------------------------
(* The reason of the breaker is earned.                                    *)

Threshold == "RETRYABLE_FAILURE_THRESHOLD_REACHED"

(* A breaker has a reason when it is open, and the one of the threshold    *)
(* when the threshold was reached.                                         *)
Coherent(b) ==
  /\ IsOpen(b) <=> b.reason # None
  /\ b.reason = Threshold <=> b.failures >= MaxConsecutive

(* What the events do to the breaker.                                      *)
LEMMA OpenedCoherent ==
  ASSUME NEW b, BreakerShape(b), Coherent(b), NEW r \in Reasons \ {Threshold}
  PROVE  /\ Coherent(Opened(b, r)) /\ Opened(b, r).failures = b.failures
         /\ Opened(b, r).reason \in {b.reason, r}
<1>1. CASE IsOpen(b)
  BY <1>1 DEF Opened
<1>2. CASE ~IsOpen(b)
  <2>1. /\ b.reason = None /\ ~(b.failures >= MaxConsecutive)
        /\ b \in [state : {"CLOSED", "OPEN"}, reason : Reasons \union {None}, failures : Nat]
    BY <1>2, ReasonsAssumption DEF Coherent, BreakerShape, Breakers, IsOpen, Threshold, Reasons
  <2>2. Opened(b, r) = [b EXCEPT !.state = "OPEN", !.reason = r]
    BY <1>2 DEF Opened
  <2>3. Opened(b, r).state = "OPEN" /\ Opened(b, r).reason = r /\ Opened(b, r).failures = b.failures
    BY <2>1, <2>2
  <2>4. r # None /\ r # Threshold
    BY ReasonsAssumption
  <2> HIDE DEF Threshold
  <2> QED BY <2>1, <2>3, <2>4 DEF Coherent, IsOpen
<1> QED BY <1>1, <1>2

LEMMA SuccessCoherent ==
  ASSUME NEW b, BreakerShape(b), Coherent(b)
  PROVE  /\ Coherent(WithSuccess(b)) /\ WithSuccess(b).failures \in 0..b.failures
         /\ WithSuccess(b).reason = b.reason
BY ReasonsAssumption, ExecutorAssumption
   DEF BreakerShape, Breakers, Coherent, WithSuccess, IsOpen, Reasons, Threshold

LEMMA RetryableFailureCoherent ==
  ASSUME NEW b, BreakerShape(b), Coherent(b)
  PROVE  /\ Coherent(WithRetryableFailure(b))
         /\ WithRetryableFailure(b).failures \in 0..(b.failures + 1)
         /\ WithRetryableFailure(b).reason \in {b.reason, Threshold}
<1>1. CASE IsOpen(b)
  BY <1>1 DEF WithRetryableFailure, BreakerShape, Breakers
<1>2. CASE ~IsOpen(b)
  <2> DEFINE counted == [b EXCEPT !.failures = @ + 1]
  <2>1. /\ counted.failures = b.failures + 1 /\ counted.state = b.state
        /\ counted.reason = b.reason /\ ~IsOpen(counted) /\ b.reason = None
        /\ counted.failures \in Nat
        /\ counted \in [state : {"CLOSED", "OPEN"}, reason : Reasons \union {None}, failures : Nat]
    BY <1>2 DEF BreakerShape, Breakers, IsOpen, Coherent
  <2>2. WithRetryableFailure(b) =
          IF counted.failures >= MaxConsecutive THEN Opened(counted, Threshold) ELSE counted
    BY <1>2 DEF WithRetryableFailure, Threshold
  <2>3. Threshold \in Reasons /\ Threshold # None
    BY ReasonsAssumption DEF Reasons, Threshold
  <2> HIDE DEF counted, Threshold
  <2>4. CASE counted.failures >= MaxConsecutive
    <3>1. /\ Opened(counted, Threshold).state = "OPEN"
          /\ Opened(counted, Threshold).reason = Threshold
          /\ Opened(counted, Threshold).failures = counted.failures
      BY <2>1 DEF Opened
    <3> QED BY <2>1, <2>2, <2>3, <2>4, <3>1 DEF Coherent, IsOpen, BreakerShape, Breakers
  <2>5. CASE ~(counted.failures >= MaxConsecutive)
    BY <2>1, <2>2, <2>3, <2>5 DEF Coherent, BreakerShape, Breakers
  <2> QED BY <2>4, <2>5
<1> QED BY <1>1, <1>2

(* The calls that lost the record of an attempt.                           *)
Losing == {c \in Calls : AuditLost(c)}

(* The records, or the calls that lost one, show the event a reason names. *)
Shown(reason, records, losing) ==
  LET classified(class) == \E a \in records : a.classification = class IN
  /\ reason = "QUOTA_EXHAUSTED" => classified("QUOTA_EXHAUSTED")
  /\ reason \in {"DAILY_SAFETY_THRESHOLD_REACHED", "MINUTE_LIMIT_EXHAUSTED"} =>
       classified("SUCCESS")
  /\ reason = "AUTHENTICATION_REJECTED" => classified("PERMANENT_FAILURE")
  /\ reason = "INVALID_RATE_LIMIT_HEADERS" => classified("INVALID_RESPONSE")
  /\ reason = "AUDIT_PERSISTENCE_FAILURE" => losing # {}

Failures == {a \in audits : Retryable(a.classification)}

Earned ==
  /\ Ledger
  /\ IsFiniteSet(audits)
  /\ Coherent(breaker)
  /\ Shown(breaker.reason, audits, Losing)
  /\ breaker.failures <= Cardinality(Failures)

(* What was shown stays so: records are kept, lost records stay lost.      *)
LEMMA ShownStaysShown ==
  ASSUME Shape, NEW c \in Calls, CallStep(c), NEW reason, Shown(reason, audits, Losing)
  PROVE  Shown(reason, audits', Losing')
<1>1. audits \subseteq audits'
  BY OthersUntouched
<1>2. ASSUME NEW d \in Calls, AuditLost(d) PROVE AuditLost(d)'
  <2>1. d # c
    BY <1>2 DEF AuditLost, CallStep, Enter, Respond, AuditFails, Settle, SettleSuccess,
                SettleFailure, SettleRetryable, Audited, Wake
  <2> QED BY <1>2, <2>1, OthersUntouched DEF AuditLost
<1>3. Losing \subseteq Losing'
  BY <1>2 DEF Losing
<1> QED BY <1>1, <1>3 DEF Shown

(* A step appends one record at most.                                      *)
LEMMA AuditsStayFinite ==
  ASSUME Shape, IsFiniteSet(audits), NEW c \in Calls, CallStep(c)
  PROVE  /\ IsFiniteSet(audits')
         /\ Cardinality(Failures) \in Nat /\ Cardinality(Failures') \in Nat
         /\ Cardinality(Failures) <= Cardinality(Failures')
<1>1. audits' = audits \/ audits' = audits \union {AuditRecord(c)}
  BY BeginAttemptCases
     DEF CallStep, Enter, Respond, AuditFails, Settle, SettleSuccess, SettleFailure,
         SettleRetryable, Audited, Wake, ReturnWithoutTransport, BeginsAttempt
<1>2. IsFiniteSet(audits')
  BY <1>1, FS_AddElement
<1>3. Failures \subseteq audits /\ Failures' \subseteq audits' /\ Failures \subseteq Failures'
  BY <1>1 DEF Failures
<1>4. IsFiniteSet(Failures) /\ IsFiniteSet(Failures')
  BY <1>2, <1>3, FS_Subset
<1> QED BY <1>2, <1>3, <1>4, FS_Subset, FS_CardinalityType

(* A retryable failure that is settled is one more on record.              *)
LEMMA FailureIsCounted ==
  ASSUME Ledger, IsFiniteSet(audits), NEW c \in Calls, SettleRetryable(c)
  PROVE  Cardinality(Failures') = Cardinality(Failures) + 1
<1>1. /\ audits' = audits \union {AuditRecord(c)} /\ InFlight(c)
      /\ Retryable(Classification(response[c]))
  BY DEF SettleRetryable, Audited, InFlight
<1>2. AuditRecord(c).number = number[c]
      /\ AuditRecord(c).classification = Classification(response[c])
  BY DEF AuditRecord
<1>3. number[c] \in Flying
  BY <1>1 DEF Flying
<1>4. number[c] \notin Recorded
  BY <1>3 DEF Ledger, EveryAttemptAccounted
<1>5. AuditRecord(c) \notin Failures
  BY <1>2, <1>4 DEF Recorded, Failures
<1>6. Failures' = Failures \union {AuditRecord(c)}
  BY <1>1, <1>2 DEF Failures
<1>7. IsFiniteSet(Failures)
  BY FS_Subset DEF Failures
<1> QED BY <1>5, <1>6, <1>7, FS_AddElement

(* A settled response shows the reason it gives.                           *)
LEMMA SettleIsEarned ==
  ASSUME Earned, NEW c \in Calls, Settle(c)
  PROVE  /\ Coherent(breaker') /\ breaker'.failures <= Cardinality(Failures')
         /\ Shown(breaker'.reason, audits', Losing')
<1>1. Shape /\ BreakerShape(breaker) /\ Coherent(breaker) /\ CallStep(c)
  BY DEF Earned, Ledger, Shape, CallStep
<1>2. PICK class : class = Classification(response[c])
  OBVIOUS
<1>3. \E a \in audits' : a.classification = class
  BY <1>1, <1>2, SettledIsRecorded
<1>4. Shown(breaker.reason, audits', Losing')
  BY <1>1, ShownStaysShown DEF Earned
<1>5. /\ Cardinality(Failures) \in Nat /\ Cardinality(Failures') \in Nat
      /\ Cardinality(Failures) <= Cardinality(Failures')
  BY <1>1, AuditsStayFinite DEF Earned
<1>6. breaker.failures \in Nat /\ breaker.failures <= Cardinality(Failures)
  BY <1>1 DEF BreakerShape, Breakers, Earned
<1>7. ASSUME breaker' = breaker
      PROVE  /\ Coherent(breaker') /\ breaker'.failures <= Cardinality(Failures')
             /\ Shown(breaker'.reason, audits', Losing')
  BY <1>1, <1>4, <1>5, <1>6, <1>7
<1>8. ASSUME NEW b, BreakerShape(b), Coherent(b), b.failures \in 0..breaker.failures,
             b.reason = breaker.reason, NEW r \in Reasons \ {Threshold}, Shown(r, audits', Losing'),
             breaker' = Opened(b, r)
      PROVE  /\ Coherent(breaker') /\ breaker'.failures <= Cardinality(Failures')
             /\ Shown(breaker'.reason, audits', Losing')
  <2>1. /\ Coherent(breaker') /\ breaker'.failures = b.failures
        /\ breaker'.reason \in {breaker.reason, r}
    BY <1>8, OpenedCoherent
  <2>2. Shown(breaker'.reason, audits', Losing')
    BY <1>4, <1>8, <2>1
  <2> QED BY <1>5, <1>6, <1>8, <2>1, <2>2
<1>9. CASE SettleSuccess(c)
  <2>1. PICK outcome : outcome = BlockingOutcome(Parse(response[c].metadata))
    OBVIOUS
  <2>2. class = SuccessClassification(outcome)
    BY <1>2, <1>9, <2>1 DEF SettleSuccess, Classification
  <2>3. /\ BreakerShape(WithSuccess(breaker)) /\ Coherent(WithSuccess(breaker))
        /\ WithSuccess(breaker).failures \in 0..breaker.failures
        /\ WithSuccess(breaker).reason = breaker.reason
    BY <1>1, SuccessShape, SuccessCoherent
  <2>4. CASE RejectsResponse(outcome) /\ breaker' = Opened(breaker, "INVALID_RATE_LIMIT_HEADERS")
    <3>1. class = "INVALID_RESPONSE"
      BY <2>2, <2>4 DEF SuccessClassification, RejectsResponse
    <3>2. Shown("INVALID_RATE_LIMIT_HEADERS", audits', Losing')
      BY <1>3, <3>1 DEF Shown
    <3>3. "INVALID_RATE_LIMIT_HEADERS" \in Reasons \ {Threshold} /\ breaker.failures \in 0..breaker.failures
      BY <1>6 DEF Reasons, Threshold
    <3> QED BY <1>1, <1>8, <2>4, <3>2, <3>3
  <2>5. CASE /\ StopsAfterResponse(outcome)
             /\ breaker' = Opened(WithSuccess(breaker), BreakerReason(outcome))
    <3>1. BreakerReason(outcome) \in Reasons \ {Threshold}
      BY DEF BreakerReason, Reasons, Threshold
    <3>2. Shown(BreakerReason(outcome), audits', Losing')
      <4>1. CASE outcome = "BLOCK_DAILY_EXHAUSTED"
        <5>1. BreakerReason(outcome) = "QUOTA_EXHAUSTED" /\ class = "QUOTA_EXHAUSTED"
          BY <2>2, <4>1 DEF BreakerReason, SuccessClassification, RejectsResponse
        <5>2. Shown("QUOTA_EXHAUSTED", audits', Losing')
          BY <1>3, <5>1 DEF Shown
        <5> QED BY <5>1, <5>2
      <4>2. CASE outcome # "BLOCK_DAILY_EXHAUSTED"
        <5>1. /\ BreakerReason(outcome) \in {"DAILY_SAFETY_THRESHOLD_REACHED", "MINUTE_LIMIT_EXHAUSTED"}
              /\ class = "SUCCESS"
          BY <2>2, <2>5, <4>2
             DEF BreakerReason, SuccessClassification, RejectsResponse, StopsAfterResponse
        <5>2. /\ Shown("DAILY_SAFETY_THRESHOLD_REACHED", audits', Losing')
              /\ Shown("MINUTE_LIMIT_EXHAUSTED", audits', Losing')
          BY <1>3, <5>1 DEF Shown
        <5> QED BY <5>1, <5>2
      <4> QED BY <4>1, <4>2
    <3> QED BY <1>8, <2>3, <2>5, <3>1, <3>2
  <2>6. CASE breaker' = WithSuccess(breaker)
    <3>1. Shown(breaker'.reason, audits', Losing')
      BY <1>4, <2>3, <2>6
    <3> QED BY <1>5, <1>6, <2>3, <2>6, <3>1
  <2> QED BY <1>9, <2>1, <2>4, <2>5, <2>6 DEF SettleSuccess
<1>10. CASE SettleFailure(c)
  <2>1. CASE /\ HeadersInvalid(response[c])
             /\ breaker' = Opened(breaker, "INVALID_RATE_LIMIT_HEADERS")
    <3>1. class = "INVALID_RESPONSE"
      BY <1>2, <1>10, <2>1 DEF SettleFailure, Classification
    <3>2. Shown("INVALID_RATE_LIMIT_HEADERS", audits', Losing')
      BY <1>3, <3>1 DEF Shown
    <3>3. "INVALID_RATE_LIMIT_HEADERS" \in Reasons \ {Threshold} /\ breaker.failures \in 0..breaker.failures
      BY <1>6 DEF Reasons, Threshold
    <3> QED BY <1>1, <1>8, <2>1, <3>2, <3>3
  <2>2. CASE /\ ~HeadersInvalid(response[c]) /\ response[c].error = "AUTHENTICATION_REJECTED"
             /\ breaker' = Opened(breaker, "AUTHENTICATION_REJECTED")
    <3>1. class = "PERMANENT_FAILURE"
      BY <1>2, <1>10, <2>2 DEF SettleFailure, Classification, MapClassification
    <3>2. Shown("AUTHENTICATION_REJECTED", audits', Losing')
      BY <1>3, <3>1 DEF Shown
    <3>3. "AUTHENTICATION_REJECTED" \in Reasons \ {Threshold} /\ breaker.failures \in 0..breaker.failures
      BY <1>6 DEF Reasons, Threshold
    <3> QED BY <1>1, <1>8, <2>2, <3>2, <3>3
  <2> QED BY <1>7, <1>10, <2>1, <2>2 DEF SettleFailure
<1>11. CASE SettleRetryable(c)
  <2>1. breaker' = WithRetryableFailure(breaker)
    BY <1>11 DEF SettleRetryable
  <2>2. /\ Coherent(breaker') /\ breaker'.failures \in 0..(breaker.failures + 1)
        /\ breaker'.reason \in {breaker.reason, Threshold}
    BY <1>1, <2>1, RetryableFailureCoherent
  <2>3. Cardinality(Failures') = Cardinality(Failures) + 1
    BY <1>11, FailureIsCounted DEF Earned
  <2>4. Shown(Threshold, audits', Losing')
    BY DEF Shown, Threshold
  <2>5. Shown(breaker'.reason, audits', Losing')
    BY <1>4, <2>2, <2>4
  <2> QED BY <1>5, <1>6, <2>2, <2>3, <2>5
<1> QED BY <1>9, <1>10, <1>11 DEF Settle

LEMMA EarnedStep == Earned /\ [Next]_vars => Earned'
<1> SUFFICES ASSUME Earned, [Next]_vars PROVE Earned'
  OBVIOUS
<1>1. Ledger' /\ Shape
  BY LedgerKept DEF Earned, Ledger
<1>2. ASSUME NEW c \in Calls, CallStep(c)
      PROVE  Earned'
  <2>1. IsFiniteSet(audits)'
    BY <1>1, <1>2, AuditsStayFinite DEF Earned
  <2>2. /\ Cardinality(Failures) \in Nat /\ Cardinality(Failures') \in Nat
        /\ Cardinality(Failures) <= Cardinality(Failures')
    BY <1>1, <1>2, AuditsStayFinite DEF Earned
  <2>3. Shown(breaker.reason, audits', Losing')
    BY <1>1, <1>2, ShownStaysShown DEF Earned
  <2>4. breaker.failures \in Nat /\ breaker.failures <= Cardinality(Failures)
    BY <1>1 DEF Shape, BreakerShape, Breakers, Earned
  <2>5. CASE Settle(c)
    BY <1>1, <2>1, <2>5, SettleIsEarned DEF Earned, Coherent, IsOpen, Shown
  <2>6. CASE AuditFails(c)
    <3>1. breaker' = Opened(breaker, "AUDIT_PERSISTENCE_FAILURE")
      BY <2>6 DEF AuditFails
    <3>2. "AUDIT_PERSISTENCE_FAILURE" \in Reasons \ {Threshold}
      BY DEF Reasons, Threshold
    <3>3. /\ Coherent(breaker') /\ breaker'.failures = breaker.failures
          /\ breaker'.reason \in {breaker.reason, "AUDIT_PERSISTENCE_FAILURE"}
      BY <1>1, <3>1, <3>2, OpenedCoherent DEF Earned, Shape
    <3>4. AuditLost(c)'
      BY <1>1, <2>6, ReturnedFields DEF AuditFails, AuditLost
    <3>5. Shown("AUDIT_PERSISTENCE_FAILURE", audits', Losing')
      BY <3>4 DEF Shown, Losing
    <3>6. Shown(breaker'.reason, audits', Losing')
      BY <2>3, <3>3, <3>5
    <3> QED BY <1>1, <2>1, <2>2, <2>4, <3>3, <3>6 DEF Earned, Coherent, IsOpen, Shown
  <2>7. CASE breaker' = breaker
    BY <1>1, <2>1, <2>2, <2>3, <2>4, <2>7 DEF Earned, Coherent, IsOpen, Shown
  <2> QED BY <1>2, <2>5, <2>6, <2>7, EnterOrWake
             DEF CallStep, Respond, BeginsAttempt, ReturnsUnsent, ReturnWithoutTransport
<1>3. CASE UNCHANGED vars
  BY <1>1, <1>3 DEF vars, Earned, Coherent, IsOpen, Shown, Losing, AuditLost, Failures
<1> QED BY <1>2, <1>3 DEF Next, Finished

(* ReasonEarned: the reason the run stopped for is one that the records or *)
(* the results show, and the failures counted are on record.               *)
THEOREM ReasonsEarned == Spec => []ReasonEarned
<1>1. Earned => ReasonEarned
  BY DEF Earned, Coherent, Shown, Losing, Failures, Threshold, ReasonEarned
<1>2. ASSUME Init
      PROVE  Earned
  <2>1. IsFiniteSet(audits) /\ Failures = {}
    BY <1>2, FS_EmptySet DEF Init, Failures
  <2>2. Cardinality(Failures) = 0
    BY <2>1, FS_EmptySet
  <2>3. Coherent(breaker) /\ breaker.failures = 0 /\ breaker.reason = None
    BY <1>2, ReasonsAssumption, ExecutorAssumption
       DEF Init, Coherent, IsOpen, Threshold, Reasons
  <2>4. Shown(breaker.reason, audits, Losing)
    BY <2>3, ReasonsAssumption DEF Shown, Reasons
  <2> QED BY <1>2, <2>1, <2>2, <2>3, <2>4, LedgerInit DEF Earned
<1> QED BY <1>1, <1>2, EarnedStep, PTL DEF Spec

-----------------------------------------------------------------------------
(* The executor implements the promise of RequestGovernance.               *)

(* The initial state is the initial state of the promise.                  *)
LEMMA PromiseInit == Init => Governance!Init
<1> SUFFICES ASSUME Init PROVE Governance!Init
  OBVIOUS
<1>1. Recorded = {} /\ Lost = {}
  BY DEF Init, Recorded, Lost, AuditLost
<1> QED BY <1>1 DEF Init, Governance!Init, IsOpen

(* Every step is a step of the promise or a stutter.                       *)
LEMMA PromiseStep ==
  Ledger /\ [Next]_vars => [Governance!Next]_(Governance!governanceVars)
<1> SUFFICES ASSUME Ledger, [Next]_vars
             PROVE  [Governance!Next]_(Governance!governanceVars)
  OBVIOUS
<1>1. CASE StepSkips
  BY <1>1, SkipsAccounts DEF StepSkips, Governance!governanceVars, IsOpen
<1>2. ASSUME NEW c \in Calls, StepBegins(c) PROVE Governance!Begin
  <2>1. Recorded' = Recorded /\ Lost' = Lost
    BY <1>2, BeginsAccounts
  <2>2. budget.started < MaxAttempts
    BY <1>2, ExecutorAssumption DEF StepBegins, Ledger, Shape, TypeOK
  <2> QED BY <1>2, <2>1, <2>2 DEF StepBegins, Governance!Begin, IsOpen
<1>3. ASSUME NEW c \in Calls, number[c] \in Flying
      PROVE  number[c] \in 1..budget.started /\ Governance!Open(number[c])
  BY <1>3 DEF Ledger, EveryAttemptAccounted, Governance!Open
<1>4. ASSUME NEW c \in Calls, StepRecords(c)
      PROVE  \E n \in 1..budget.started : Governance!Record(n)
  <2>1. /\ number[c] \in Flying
        /\ Recorded' = Recorded \union {number[c]}
        /\ Lost' = Lost
    BY <1>4, RecordsAccounts
  <2>2. number[c] \in 1..budget.started /\ Governance!Open(number[c])
    BY <1>3, <2>1
  <2>3. Governance!Record(number[c])
    BY <1>4, <2>1, <2>2 DEF StepRecords, Governance!Record, IsOpen
  <2> QED BY <2>2, <2>3
<1>5. ASSUME NEW c \in Calls, StepLoses(c)
      PROVE  \E n \in 1..budget.started : Governance!Lose(n)
  <2>1. /\ number[c] \in Flying
        /\ Lost' = Lost \union {number[c]}
        /\ Recorded' = Recorded
    BY <1>5, LosesAccounts
  <2>2. number[c] \in 1..budget.started /\ Governance!Open(number[c])
    BY <1>3, <2>1
  <2>3. Governance!Lose(number[c])
    BY <1>5, <2>1, <2>2 DEF StepLoses, Governance!Lose, IsOpen
  <2> QED BY <2>2, <2>3
<1> QED BY <1>1, <1>2, <1>4, <1>5, LedgerStep DEF Ledger, Governance!Next

(* GovernanceKept: every behaviour of the executor, seen through its       *)
(* budget, its records and its breaker, is one the promise allows.         *)
THEOREM Refinement == Spec => GovernanceKept
BY PromiseInit, PromiseStep, LedgerInit, LedgerKept, PTL
   DEF Spec, GovernanceKept, Governance!Spec

-----------------------------------------------------------------------------
(* What the providers can answer, and the records the program keeps of it. *)
Answers == UNION {AnswersTo[item] : item \in Items}
Instants == {a.at : a \in Answers}
Bodies == {a.drafts : a \in Answers}
Drafts == UNION {Range(b) : b \in Bodies}

Evidences == [provider : Providers, reference : Items, at : Instants, sha : Bodies]
Observables == [draft : Drafts, reference : Items, hash : Bodies]
Memories ==
  [records : SUBSET ({RecordKey(d) : d \in Drafts} \X Bodies),
   logical : SUBSET ({LogicalKey(d) : d \in Drafts} \X Bodies)]

Runs ==
  [pc : {"capturing", "done"}, provider : Providers, stage : Stages,
   orchestrator : Nat, attempt : 1..AttemptLimit, agenda : SUBSET Items,
   fixtures : SUBSET Observables, data : SUBSET Observables,
   attempted : Nat, successful : Nat, duplicates : Nat, conflicts : Nat,
   failed : Nat, retries : Nat, limited : Nat, discovered : Nat,
   abstained : SUBSET (Fixtures \union {0})]

SyntheticTypes ==
  /\ store \subseteq Evidences
  /\ dedup \in Memories
  /\ run = Off \/ (run \in Runs /\ run.pc = "capturing" /\ IsFiniteSet(run.data))
  /\ results \in Seq(Runs)
  /\ \A p \in packets : p.observations \subseteq Observables /\ p.offered \subseteq PredictionInputs
  /\ troubles \in 0..MaxTroubles

(* An answer is a sequence of drafts of what was asked.                    *)
LEMMA AnswerType ==
  ASSUME NEW item \in Items, NEW answer \in AnswersTo[item]
  PROVE  /\ answer.at \in Instants /\ answer.drafts \in Bodies
         /\ Len(answer.drafts) \in Nat
         /\ DOMAIN answer.drafts = 1..Len(answer.drafts)
         /\ \A i \in DOMAIN answer.drafts :
              /\ answer.drafts[i] \in Drafts
              /\ answer.drafts[i] \in Range(answer.drafts)
              /\ answer.drafts[i].kind = item[1]
              /\ answer.drafts[i].fixture \in Fixtures
              /\ item[1] # "FIXTURES" => answer.drafts[i].fixture = item[2]
         /\ item[1] # "FIXTURES" => 1 \in DOMAIN answer.drafts
<1>1. answer \in Answers
  BY DEF Answers
<1>2. answer.at \in Instants /\ answer.drafts \in Bodies
  BY <1>1 DEF Instants, Bodies
<1>3. answer.drafts \in Seq(Range(answer.drafts))
  BY ProviderAssumption
<1>4. Len(answer.drafts) \in Nat /\ DOMAIN answer.drafts = 1..Len(answer.drafts)
  BY <1>3
<1>5. ASSUME NEW i \in DOMAIN answer.drafts
      PROVE  /\ answer.drafts[i] \in Drafts
             /\ answer.drafts[i] \in Range(answer.drafts)
             /\ answer.drafts[i].kind = item[1]
             /\ answer.drafts[i].fixture \in Fixtures
             /\ item[1] # "FIXTURES" => answer.drafts[i].fixture = item[2]
  <2>1. answer.drafts[i] \in Range(answer.drafts)
    BY DEF Range
  <2> QED BY <1>2, <2>1, ProviderAssumption DEF Drafts
<1>6. item[1] # "FIXTURES" => 1 \in DOMAIN answer.drafts
  <2>1. item[1] # "FIXTURES" => answer.drafts # <<>>
    BY ProviderAssumption
  <2>2. answer.drafts # <<>> => Len(answer.drafts) # 0
    BY <1>3
  <2> QED BY <2>1, <2>2, <1>4
<1> QED BY <1>2, <1>4, <1>5, <1>6

(* Of a draft all of whose answer shares one hash.                         *)
LEMMA DraftOfBody ==
  ASSUME NEW item \in Items, NEW answer \in AnswersTo[item], NEW d \in Range(answer.drafts)
  PROVE  d.kind = item[1] /\ (item[1] # "FIXTURES" => d.fixture = item[2])
BY ProviderAssumption

(* What is published under an identity holds what was answered: a replay   *)
(* finds the same reference and the same content.                          *)
LEMMA PublishedIsTheAnswer ==
  ASSUME NEW S, NEW e, ~Conflicts(S, e)
  PROVE  /\ Published(S, e) \in S \union {e}
         /\ Published(S, e).reference = e.reference
         /\ Published(S, e).sha = e.sha
<1>1. CASE Replays(S, e)
  <2>1. \E r \in S : SameIdentity(e, r)
    BY <1>1 DEF Replays
  <2>2. Published(S, e) \in S /\ SameIdentity(e, Published(S, e))
    BY <1>1, <2>1 DEF Published
  <2> QED BY <2>2 DEF SameIdentity, Conflicts
<1>2. CASE ~Replays(S, e)
  BY <1>2 DEF Published
<1> QED BY <1>1, <1>2

-----------------------------------------------------------------------------
(* The walk over the drafts of an answer.                                  *)

(* It takes the new drafts only: each is acceptable, its record was not    *)
(* known, and the memory then knows it under the hash of the evidence.     *)
LEMMA TakenIsNew ==
  ASSUME NEW memory, NEW drafts, NEW n \in Nat, DOMAIN drafts = 1..n,
         NEW evidence, NEW kickoff,
         NEW taken \in Takings(memory, drafts, evidence, kickoff),
         NEW o \in taken.accepted
  PROVE  \E i \in DOMAIN drafts :
           /\ o = Observation(drafts[i], evidence)
           /\ Acceptable(drafts[i], kickoff)
           /\ ~\E p \in memory.records : p[1] = RecordKey(drafts[i])
           /\ <<RecordKey(drafts[i]), evidence.sha>> \in taken.dedup.records
<1>1. PICK v \in [DOMAIN drafts -> Verdicts] :
        /\ \A i \in DOMAIN drafts :
             v[i] = VerdictAt(i, v, memory, drafts, evidence.sha, kickoff)
        /\ taken = Taken(v, memory, drafts, evidence)
  BY DEF Takings
<1> DEFINE new == NewAmong(drafts, v, DOMAIN drafts)
<1>2. /\ taken.accepted = {Observation(d, evidence) : d \in new}
      /\ taken.dedup = Remember(memory, new, evidence.sha)
  BY <1>1 DEF Taken
<1>3. PICK i \in DOMAIN drafts : v[i] = "NEW" /\ o = Observation(drafts[i], evidence)
  BY <1>2 DEF NewAmong
<1>4. drafts[i] \in new
  BY <1>3 DEF NewAmong
<1>5. <<RecordKey(drafts[i]), evidence.sha>> \in taken.dedup.records
  BY <1>2, <1>4 DEF Remember
<1>6. PICK earlier \in SUBSET DOMAIN drafts :
        /\ Acceptable(drafts[i], kickoff)
        /\ Classify(Remember(memory, NewAmong(drafts, v, earlier), evidence.sha),
                    drafts[i], evidence.sha) = "NEW"
  <2> DEFINE before == {j \in DOMAIN drafts : j < i}
  <2>1. VerdictAt(i, v, memory, drafts, evidence.sha, kickoff) = "NEW"
    BY <1>1, <1>3
  <2>2. /\ Acceptable(drafts[i], kickoff)
        /\ Classify(Remember(memory, NewAmong(drafts, v, before), evidence.sha),
                    drafts[i], evidence.sha) = "NEW"
    BY <2>1 DEF VerdictAt
  <2> QED BY <2>2
<1>7. ~\E p \in memory.records : p[1] = RecordKey(drafts[i])
  BY <1>6 DEF Classify, Remember
<1> QED BY <1>3, <1>5, <1>6, <1>7

(* No record is taken twice of one answer.                                 *)
LEMMA TakenOnce ==
  ASSUME NEW memory, NEW drafts, NEW n \in Nat, DOMAIN drafts = 1..n,
         NEW evidence, NEW kickoff,
         NEW taken \in Takings(memory, drafts, evidence, kickoff),
         NEW o \in taken.accepted, NEW q \in taken.accepted,
         RecordKey(o.draft) = RecordKey(q.draft)
  PROVE  o = q
<1>1. PICK v \in [DOMAIN drafts -> Verdicts] :
        /\ \A i \in DOMAIN drafts :
             v[i] = VerdictAt(i, v, memory, drafts, evidence.sha, kickoff)
        /\ taken = Taken(v, memory, drafts, evidence)
  BY DEF Takings
<1>2. taken.accepted = {Observation(d, evidence) : d \in NewAmong(drafts, v, DOMAIN drafts)}
  BY <1>1 DEF Taken
<1>3. PICK i \in DOMAIN drafts : v[i] = "NEW" /\ o = Observation(drafts[i], evidence)
  BY <1>2 DEF NewAmong
<1>4. PICK k \in DOMAIN drafts : v[k] = "NEW" /\ q = Observation(drafts[k], evidence)
  BY <1>2 DEF NewAmong
<1>5. ASSUME NEW a \in DOMAIN drafts, NEW b \in DOMAIN drafts, a < b,
             v[a] = "NEW", v[b] = "NEW"
      PROVE  RecordKey(drafts[a]) # RecordKey(drafts[b])
  <2> DEFINE before == {j \in DOMAIN drafts : j < b}
             known == Remember(memory, NewAmong(drafts, v, before), evidence.sha)
  <2>1. VerdictAt(b, v, memory, drafts, evidence.sha, kickoff) = "NEW"
    BY <1>1, <1>5
  <2>2. Classify(known, drafts[b], evidence.sha) = "NEW"
    BY <2>1 DEF VerdictAt
  <2>3. drafts[a] \in NewAmong(drafts, v, before)
    BY <1>5 DEF NewAmong
  <2>4. <<RecordKey(drafts[a]), evidence.sha>> \in known.records
    BY <2>3 DEF Remember
  <2> HIDE DEF known
  <2>5. {p \in known.records : p[1] = RecordKey(drafts[b])} = {}
    BY <2>2 DEF Classify
  <2> QED BY <2>4, <2>5
<1>6. o.draft = drafts[i] /\ q.draft = drafts[k]
  BY <1>3, <1>4 DEF Observation
<1>7. ~(i < k) /\ ~(k < i)
  BY <1>3, <1>4, <1>5, <1>6
<1>8. i = k
  BY <1>7
<1> QED BY <1>3, <1>4, <1>8

(* What the memory knows afterwards it knew before, or it is the hash of   *)
(* the answer, of which then something was taken.                          *)
LEMMA TakenMemory ==
  ASSUME NEW memory, NEW drafts, NEW n \in Nat, DOMAIN drafts = 1..n,
         NEW evidence, NEW kickoff,
         NEW taken \in Takings(memory, drafts, evidence, kickoff)
  PROVE  /\ memory.records \subseteq taken.dedup.records
         /\ \A p \in taken.dedup.records \union taken.dedup.logical :
              \/ p \in memory.records \union memory.logical
              \/ \E o \in taken.accepted : p[2] = o.hash
<1>1. PICK v \in [DOMAIN drafts -> Verdicts] : taken = Taken(v, memory, drafts, evidence)
  BY DEF Takings
<1> DEFINE new == NewAmong(drafts, v, DOMAIN drafts)
<1>2. /\ taken.accepted = {Observation(d, evidence) : d \in new}
      /\ taken.dedup = Remember(memory, new, evidence.sha)
  BY <1>1 DEF Taken
<1> HIDE DEF new
<1>3. /\ taken.dedup.records = memory.records \union {<<RecordKey(d), evidence.sha>> : d \in new}
      /\ taken.dedup.logical = memory.logical \union {<<LogicalKey(d), evidence.sha>> : d \in new}
  BY <1>2 DEF Remember
<1>4. ASSUME NEW p \in taken.dedup.records \union taken.dedup.logical,
             p \notin memory.records \union memory.logical
      PROVE  \E o \in taken.accepted : p[2] = o.hash
  <2>1. PICK d \in new : p = <<RecordKey(d), evidence.sha>> \/ p = <<LogicalKey(d), evidence.sha>>
    BY <1>3, <1>4
  <2>2. Observation(d, evidence) \in taken.accepted
    BY <1>2
  <2> QED BY <2>1, <2>2 DEF Observation
<1> QED BY <1>3, <1>4

(* An answer that holds something and is not refused leaves something, or  *)
(* its hash was known: the first of its drafts is new or a duplicate.      *)
LEMMA TakenOrKnown ==
  ASSUME NEW memory, NEW drafts, NEW n \in Nat, DOMAIN drafts = 1..n, 1 \in DOMAIN drafts,
         NEW evidence, NEW kickoff,
         NEW taken \in Takings(memory, drafts, evidence, kickoff), taken.error = Absent
  PROVE  \/ taken.accepted # {}
         \/ \E p \in memory.records \union memory.logical : p[2] = evidence.sha
<1>1. PICK v \in [DOMAIN drafts -> Verdicts] :
        /\ \A i \in DOMAIN drafts :
             v[i] = VerdictAt(i, v, memory, drafts, evidence.sha, kickoff)
        /\ taken = Taken(v, memory, drafts, evidence)
  BY DEF Takings
<1>2. /\ {i \in DOMAIN drafts : v[i] = "INVALID"} = {}
      /\ {i \in DOMAIN drafts : v[i] = "CONFLICT"} = {}
  BY <1>1, AbsentAssumption DEF Taken
<1>3. taken.accepted = {Observation(d, evidence) : d \in NewAmong(drafts, v, DOMAIN drafts)}
  BY <1>1 DEF Taken
<1> DEFINE before == {j \in DOMAIN drafts : j < 1}
           known == Remember(memory, NewAmong(drafts, v, before), evidence.sha)
<1>4. before = {}
  OBVIOUS
<1>5. known.records = memory.records /\ known.logical = memory.logical
  BY <1>4 DEF Remember, NewAmong
<1>6. v[1] = IF ~Acceptable(drafts[1], kickoff) THEN "INVALID"
             ELSE Classify(known, drafts[1], evidence.sha)
  <2>1. v[1] = VerdictAt(1, v, memory, drafts, evidence.sha, kickoff)
    BY <1>1
  <2> QED BY <2>1, <1>4 DEF VerdictAt
<1> HIDE DEF known
<1>7. CASE v[1] = "NEW"
  <2>1. drafts[1] \in NewAmong(drafts, v, DOMAIN drafts)
    BY <1>7 DEF NewAmong
  <2> QED BY <1>3, <2>1
<1>8. CASE v[1] # "NEW"
  <2>1. Classify(known, drafts[1], evidence.sha) = "DUPLICATE"
    BY <1>2, <1>6, <1>8 DEF Classify
  <2>2. \E p \in known.records \union known.logical : p[2] = evidence.sha
    BY <2>1 DEF Classify
  <2> QED BY <1>5, <2>2
<1> QED BY <1>7, <1>8

LEMMA FirstAreFinite ==
  ASSUME NEW n \in Nat
  PROVE  IsFiniteSet(1..n)
BY FS_Interval

(* A function on a finite set has finitely many values.                    *)
LEMMA FiniteImage ==
  ASSUME NEW S, IsFiniteSet(S), NEW f, DOMAIN f = S, f = [x \in S |-> f[x]]
  PROVE  IsFiniteSet({f[x] : x \in S})
<1> DEFINE T == {f[x] : x \in S}
<1>1. f \in [S -> T]
  OBVIOUS
<1>2. \A t \in T : \E x \in S : f[x] = t
  OBVIOUS
<1>3. f \in Surjection(S, T)
  BY <1>1, <1>2 DEF Surjection
<1> QED BY <1>3, FS_Surjection

(* The counts and the sets are of their types.                             *)
LEMMA TakenType ==
  ASSUME NEW memory \in Memories, NEW drafts \in Bodies, NEW n \in Nat, DOMAIN drafts = 1..n,
         NEW evidence, evidence.sha = drafts, evidence.reference \in Items, NEW kickoff,
         NEW taken \in Takings(memory, drafts, evidence, kickoff)
  PROVE  /\ taken.dedup \in Memories
         /\ taken.accepted \in SUBSET Observables
         /\ IsFiniteSet(taken.accepted)
         /\ taken.duplicates \in Nat
<1>1. PICK v \in [DOMAIN drafts -> Verdicts] : taken = Taken(v, memory, drafts, evidence)
  BY DEF Takings
<1> DEFINE new == NewAmong(drafts, v, DOMAIN drafts)
           again == {i \in DOMAIN drafts : v[i] = "DUPLICATE"}
           fresh == {i \in DOMAIN drafts : v[i] = "NEW"}
<1>2. /\ taken.accepted = {Observation(d, evidence) : d \in new}
      /\ taken.dedup = Remember(memory, new, evidence.sha)
      /\ taken.duplicates = Cardinality(again)
  BY <1>1 DEF Taken
<1>3. new \subseteq Drafts
  BY DEF NewAmong, Drafts, Range
<1>4. taken.dedup \in Memories
  BY <1>2, <1>3 DEF Remember, Memories
<1>5. taken.accepted \in SUBSET Observables
  BY <1>2, <1>3 DEF Observation, Observables
<1>6. IsFiniteSet(DOMAIN drafts)
  BY FirstAreFinite
<1>7. IsFiniteSet(again) /\ IsFiniteSet(fresh)
  <2>1. again \subseteq DOMAIN drafts /\ fresh \subseteq DOMAIN drafts
    OBVIOUS
  <2> HIDE DEF again, fresh
  <2> QED BY <1>6, <2>1, FS_Subset
<1>8. taken.duplicates \in Nat
  BY <1>2, <1>7, FS_CardinalityType
<1>9. taken.accepted = {Observation(drafts[i], evidence) : i \in fresh}
  BY <1>2 DEF NewAmong
<1>10. IsFiniteSet({Observation(drafts[i], evidence) : i \in fresh})
  <2> DEFINE f == [i \in fresh |-> Observation(drafts[i], evidence)]
  <2>1. {Observation(drafts[i], evidence) : i \in fresh} = {f[i] : i \in fresh}
    OBVIOUS
  <2>2. DOMAIN f = fresh /\ f = [i \in fresh |-> f[i]]
    OBVIOUS
  <2> HIDE DEF f
  <2>3. IsFiniteSet({f[i] : i \in fresh})
    BY <1>7, <2>2, FiniteImage
  <2> QED BY <2>1, <2>3
<1> QED BY <1>4, <1>5, <1>8, <1>9, <1>10

-----------------------------------------------------------------------------
(* How a run ends an item.                                                 *)

LEMMA AgendaType ==
  ASSUME NEW m \in Runs
  PROVE  Agenda(m.provider, m.stage, m.fixtures) \in SUBSET Items
<1>1. CapabilitiesOf[m.provider] \subseteq Kinds
  BY SyntheticAssumption DEF Runs
<1>2. Universe(m.fixtures) \subseteq Fixtures
  <2>1. m.fixtures \subseteq Observables
    BY DEF Runs
  <2>2. \A o \in Observables : o.draft.fixture \in Fixtures
    <3>1. \A d \in Drafts : d.fixture \in Fixtures
      BY ProviderAssumption DEF Drafts, Bodies, Answers
    <3> QED BY <3>1 DEF Observables
  <2> QED BY <2>1, <2>2 DEF Universe
<1> QED BY <1>1, <1>2 DEF Agenda, Items

(* The run n is the run m after the item, of which something was accepted  *)
(* and which may have been given up.                                       *)
Closed(m, n, item, accepted, gaveUp) ==
  /\ n \in Runs
  /\ n.pc = m.pc /\ n.provider = m.provider /\ n.stage = m.stage
  /\ n.orchestrator = m.orchestrator
  /\ n.fixtures = IF item[1] = "FIXTURES" THEN m.fixtures \union accepted ELSE m.fixtures
  /\ n.data = IF item[1] = "FIXTURES" THEN m.data ELSE m.data \union accepted
  /\ n.agenda = IF item[1] = "FIXTURES" THEN Agenda(m.provider, m.stage, n.fixtures)
                ELSE m.agenda \ {item}
  /\ n.abstained = IF gaveUp THEN m.abstained \union {item[2]} ELSE m.abstained

LEMMA CountedRun ==
  ASSUME NEW m \in Runs
  PROVE  /\ Counted(m) \in Runs
         /\ Counted(m) = [m EXCEPT !.attempted = Counted(m).attempted]
BY DEF Counted, Runs

LEMMA AdvancedRun ==
  ASSUME NEW m \in Runs, NEW item \in Items
  PROVE  Closed(m, Advanced(m, item), item, {}, FALSE)
<1>1. 1 \in 1..AttemptLimit
  BY SyntheticAssumption
<1>2. Agenda(m.provider, m.stage, m.fixtures) \in SUBSET Items
  BY AgendaType
<1> DEFINE left == IF item[1] = "FIXTURES" THEN Agenda(m.provider, m.stage, m.fixtures)
                   ELSE m.agenda \ {item}
<1>3. left \in SUBSET Items
  BY <1>2 DEF Runs
<1>4. Advanced(m, item) = [m EXCEPT !.attempt = 1, !.agenda = left]
  BY DEF Advanced, Runs
<1>5. item[1] = "FIXTURES" => left = Agenda(m.provider, m.stage, m.fixtures)
  OBVIOUS
<1>6. item[1] # "FIXTURES" => left = m.agenda \ {item}
  OBVIOUS
<1> HIDE DEF left
<1> QED BY <1>1, <1>3, <1>4, <1>5, <1>6 DEF Closed, Runs

LEMMA AbstainedRun ==
  ASSUME NEW m \in Runs, NEW item \in Items, NEW error
  PROVE  Closed(m, Abstained(m, item, error), item, {}, TRUE)
<1> DEFINE c == m.conflicts + (IF error = "FIXTURE_IDENTITY_CONFLICT" THEN 1 ELSE 0)
           l == m.limited + (IF error = "CAPTURE_RATE_LIMITED" THEN 1 ELSE 0)
           k == [m EXCEPT !.failed = m.failed + 1, !.conflicts = c, !.limited = l,
                          !.abstained = m.abstained \union {item[2]}]
<1>1. c \in Nat /\ l \in Nat /\ m.failed + 1 \in Nat
  BY DEF Runs
<1>2. item[2] \in Fixtures \union {0}
  BY DEF Items
<1>3. Abstained(m, item, error) = Advanced(k, item)
  BY DEF Abstained, Runs
<1> HIDE DEF c, l
<1>4. /\ k \in Runs
      /\ k.pc = m.pc /\ k.provider = m.provider /\ k.stage = m.stage
      /\ k.orchestrator = m.orchestrator /\ k.fixtures = m.fixtures /\ k.data = m.data
      /\ k.agenda = m.agenda
      /\ k.abstained = m.abstained \union {item[2]}
  BY <1>1, <1>2 DEF Runs
<1> HIDE DEF k
<1>5. Closed(k, Advanced(k, item), item, {}, FALSE)
  BY <1>4, AdvancedRun
<1> QED BY <1>3, <1>4, <1>5 DEF Closed

LEMMA KeptRun ==
  ASSUME NEW m \in Runs, NEW item \in Items, NEW taken,
         taken.accepted \in SUBSET Observables, taken.duplicates \in Nat
  PROVE  LET k == Kept(m, item, taken)
         IN  /\ k \in Runs
             /\ k.pc = m.pc /\ k.provider = m.provider /\ k.stage = m.stage
             /\ k.orchestrator = m.orchestrator /\ k.agenda = m.agenda
             /\ k.abstained = m.abstained
             /\ k.fixtures = IF item[1] = "FIXTURES" THEN m.fixtures \union taken.accepted
                             ELSE m.fixtures
             /\ k.data = IF item[1] = "FIXTURES" THEN m.data
                         ELSE m.data \union taken.accepted
<1> DEFINE d == m.duplicates + taken.duplicates
           f == m.fixtures \union taken.accepted
           g == m.data \union taken.accepted
<1>1. d \in Nat /\ f \in SUBSET Observables /\ g \in SUBSET Observables
  BY DEF Runs
<1>2. CASE item[1] = "FIXTURES"
  <2>1. Kept(m, item, taken) = [m EXCEPT !.duplicates = d, !.fixtures = f]
    BY <1>2 DEF Kept, Runs
  <2>2. f = m.fixtures \union taken.accepted
    OBVIOUS
  <2> HIDE DEF d, f
  <2> QED BY <1>1, <1>2, <2>1, <2>2 DEF Runs
<1>3. CASE item[1] # "FIXTURES"
  <2>1. Kept(m, item, taken) = [m EXCEPT !.duplicates = d, !.data = g]
    BY <1>3 DEF Kept, Runs
  <2>2. g = m.data \union taken.accepted
    OBVIOUS
  <2> HIDE DEF d, g
  <2> QED BY <1>1, <1>3, <2>1, <2>2 DEF Runs
<1> QED BY <1>2, <1>3

LEMMA CompletedRun ==
  ASSUME NEW m \in Runs, NEW item \in Items, NEW taken, NEW size \in Nat,
         taken.accepted \in SUBSET Observables, taken.duplicates \in Nat
  PROVE  Closed(m, Completed(m, item, taken, size), item, taken.accepted,
                taken.error # Absent)
<1> DEFINE k == Kept(m, item, taken)
<1>1. /\ k \in Runs
      /\ k.pc = m.pc /\ k.provider = m.provider /\ k.stage = m.stage
      /\ k.orchestrator = m.orchestrator /\ k.agenda = m.agenda
      /\ k.abstained = m.abstained
      /\ k.fixtures = IF item[1] = "FIXTURES" THEN m.fixtures \union taken.accepted
                      ELSE m.fixtures
      /\ k.data = IF item[1] = "FIXTURES" THEN m.data ELSE m.data \union taken.accepted
  BY KeptRun
<1>2. CASE taken.error # Absent
  <2>1. Completed(m, item, taken, size) = Abstained(k, item, taken.error)
    BY <1>2 DEF Completed
  <2> HIDE DEF k
  <2>2. Closed(k, Abstained(k, item, taken.error), item, {}, TRUE)
    BY <1>1, AbstainedRun
  <2> QED BY <1>1, <1>2, <2>1, <2>2 DEF Closed
<1>3. CASE taken.error = Absent
  <2> DEFINE s == k.successful + 1
             d == IF item[1] = "FIXTURES" THEN size ELSE k.discovered
             j == [k EXCEPT !.successful = s, !.discovered = d]
  <2>1. Completed(m, item, taken, size) = Advanced(j, item)
    BY <1>1, <1>3 DEF Completed, Runs
  <2>4. s \in Nat /\ d \in Nat
    BY <1>1 DEF Runs
  <2> HIDE DEF k, s, d
  <2>2. /\ j \in Runs
        /\ j.pc = k.pc /\ j.provider = k.provider /\ j.stage = k.stage
        /\ j.orchestrator = k.orchestrator /\ j.fixtures = k.fixtures /\ j.data = k.data
        /\ j.agenda = k.agenda /\ j.abstained = k.abstained
    BY <1>1, <2>4 DEF Runs
  <2> HIDE DEF j
  <2>3. Closed(j, Advanced(j, item), item, {}, FALSE)
    BY <2>2, AdvancedRun
  <2> QED BY <1>1, <1>3, <2>1, <2>2, <2>3 DEF Closed
<1> QED BY <1>2, <1>3

-----------------------------------------------------------------------------
(* The inductive invariant.                                                *)

Held(m) == m.fixtures \union m.data

Capturing == run.pc = "capturing"

(* The observation is of an evidence in the store, and of what that holds. *)
Bound(o) ==
  /\ \E r \in store : r.reference = o.reference /\ r.sha = o.hash
  /\ o.draft \in Range(o.hash)

BoundInv ==
  /\ \A i \in DOMAIN results : \A o \in Held(results[i]) : Bound(o)
  /\ Capturing => \A o \in Held(run) : Bound(o)

(* The fixtures of a run are told apart, what it captured is of one of     *)
(* them and passed the tests against it, and no record is there twice.     *)
SoundRun(m) ==
  /\ \A o \in m.fixtures : o.draft.kind = "FIXTURES"
  /\ \A o, q \in m.fixtures : o.draft.fixture = q.draft.fixture => o = q
  /\ \A o \in m.data :
       /\ o.draft.kind \in {"FOREBET", "ODDS", "CLOSING", "OUTCOMES"}
       /\ o.draft.fixture \in Universe(m.fixtures)
       /\ Acceptable(o.draft, KickoffOf(m.fixtures, o.draft.fixture))
  /\ \A o, q \in m.data : RecordKey(o.draft) = RecordKey(q.draft) => o = q

SoundInv ==
  /\ \A i \in DOMAIN results : SoundRun(results[i])
  /\ Capturing => SoundRun(run)

(* Until the fixtures are discovered a run holds nothing; then its agenda  *)
(* is what is left of that of its fixtures.                                *)
Discovering ==
  run.agenda = {<<"FIXTURES", 0>>} /\ run.fixtures = {} /\ run.data = {}

AgendaInv ==
  Capturing => \/ Discovering
               \/ run.agenda \subseteq Agenda(run.provider, run.stage, run.fixtures)

(* The orchestrator in use, and what its runs hold so far.                 *)
Orchestrator == IF Capturing THEN run.orchestrator ELSE Last(results).orchestrator

Remembered ==
  (UNION {Held(results[i]) : i \in {j \in DOMAIN results : results[j].orchestrator = Orchestrator}})
    \union (IF Capturing THEN Held(run) ELSE {})

(* Each hash the deduplicator knows is that of an observation its runs     *)
(* hold, and it knows the records of the run under way.                    *)
MemoryInv ==
  /\ \A p \in dedup.records \union dedup.logical : \E q \in Remembered : p[2] = q.hash
  /\ Capturing => \A o \in run.data : \E p \in dedup.records : p[1] = RecordKey(o.draft)

(* An item that is no longer on the agenda was given up, or its fixture    *)
(* has an observation of its kind.                                         *)
Accounted(item) ==
  \/ item[2] \in run.abstained
  \/ \E o \in Remembered : o.draft.kind = item[1] /\ o.draft.fixture = item[2]

CoverInv ==
  /\ Capturing /\ ~Discovering =>
       \A item \in Agenda(run.provider, run.stage, run.fixtures) \ run.agenda : Accounted(item)
  /\ NoFixtureIsForgotten

SyntheticInv ==
  /\ SyntheticTypes
  /\ BoundInv
  /\ SoundInv
  /\ AgendaInv
  /\ MemoryInv
  /\ CoverInv

-----------------------------------------------------------------------------
(* The step that ends an item, by an answer or without one.                *)

Closing(item, accepted, gaveUp) ==
  /\ Capturing /\ item \in run.agenda
  /\ Closed(run, run', item, accepted, gaveUp)
  /\ store \subseteq store' /\ store' \subseteq Evidences /\ dedup' \in Memories
  /\ IsFiniteSet(accepted)
  /\ \A o \in accepted :
       /\ o.draft.kind = item[1]
       /\ item[1] # "FIXTURES" =>
            /\ o.draft.fixture = item[2]
            /\ Acceptable(o.draft, KickoffOf(run.fixtures, item[2]))
       /\ \E r \in store' : r.reference = o.reference /\ r.sha = o.hash
       /\ o.draft \in Range(o.hash)
       /\ ~\E p \in dedup.records : p[1] = RecordKey(o.draft)
       /\ \E p \in dedup'.records : p[1] = RecordKey(o.draft)
  /\ \A o, q \in accepted : RecordKey(o.draft) = RecordKey(q.draft) => o = q
  /\ dedup.records \subseteq dedup'.records
  /\ \A p \in dedup'.records \union dedup'.logical :
       \/ p \in dedup.records \union dedup.logical
       \/ \E o \in accepted : p[2] = o.hash
  /\ \/ gaveUp
     \/ item[1] = "FIXTURES"
     \/ \E o \in accepted \union Remembered :
          o.draft.kind = item[1] /\ o.draft.fixture = item[2]
  /\ UNCHANGED <<results, packets>>
  /\ troubles' \in 0..MaxTroubles

(* The step after which the item is attempted again.                       *)
Retrying ==
  /\ Capturing
  /\ run' \in Runs /\ run'.pc = run.pc /\ run'.provider = run.provider
  /\ run'.stage = run.stage /\ run'.orchestrator = run.orchestrator
  /\ run'.agenda = run.agenda /\ run'.fixtures = run.fixtures /\ run'.data = run.data
  /\ run'.abstained = run.abstained
  /\ UNCHANGED <<store, dedup, results, packets>>
  /\ troubles' \in 0..MaxTroubles

LEMMA CapturingRun ==
  ASSUME SyntheticTypes, Capturing
  PROVE  run \in Runs /\ run.pc = "capturing" /\ IsFiniteSet(run.data)
BY DEF SyntheticTypes, Capturing, Off

LEMMA CountedIsClosed ==
  ASSUME NEW m \in Runs, NEW n, NEW item, NEW accepted, NEW gaveUp
  PROVE  Closed(Counted(m), n, item, accepted, gaveUp) => Closed(m, n, item, accepted, gaveUp)
<1>1. /\ Counted(m).pc = m.pc /\ Counted(m).provider = m.provider
      /\ Counted(m).stage = m.stage /\ Counted(m).orchestrator = m.orchestrator
      /\ Counted(m).fixtures = m.fixtures /\ Counted(m).data = m.data
      /\ Counted(m).agenda = m.agenda /\ Counted(m).abstained = m.abstained
  BY DEF Counted, Runs
<1> QED BY <1>1 DEF Closed

(* An item that is given up without an answer.                             *)
LEMMA GivenUp ==
  ASSUME SyntheticTypes, NEW item \in Items, Attempting(item), NEW error,
         run' = Abstained(Counted(run), item, error),
         troubles' \in 0..MaxTroubles,
         UNCHANGED <<store, dedup, results, packets>>
  PROVE  Closing(item, {}, TRUE)
<1>1. Capturing /\ item \in run.agenda
  BY DEF Attempting, Capturing
<1>2. run \in Runs /\ Counted(run) \in Runs
  BY <1>1, CapturingRun, CountedRun
<1>3. Closed(run, run', item, {}, TRUE)
  BY <1>2, AbstainedRun, CountedIsClosed
<1>4. store' \subseteq Evidences /\ dedup' \in Memories
  BY DEF SyntheticTypes
<1>5. IsFiniteSet({})
  BY FS_EmptySet
<1> QED BY <1>1, <1>3, <1>4, <1>5 DEF Closing

LEMMA TroubleType ==
  ASSUME SyntheticTypes
  PROVE  (Trouble \/ Smooth) => troubles' \in 0..MaxTroubles
BY SyntheticAssumption DEF SyntheticTypes, Trouble, Smooth

LEMMA LimitedCloses ==
  ASSUME SyntheticTypes, NEW item \in Items, Limited(item)
  PROVE  Closing(item, {}, TRUE)
<1>1. troubles' \in 0..MaxTroubles
  BY TroubleType DEF Limited
<1> QED BY <1>1, GivenUp DEF Limited

LEMMA FailCloses ==
  ASSUME SyntheticTypes, NEW item \in Items, NEW retryable \in BOOLEAN, Fail(item, retryable)
  PROVE  Retrying \/ Closing(item, {}, TRUE)
<1>1. troubles' \in 0..MaxTroubles
  BY TroubleType DEF Fail
<1>2. Capturing /\ Attempting(item)
  BY DEF Fail, Attempting, Capturing
<1>3. run \in Runs
  BY <1>2, CapturingRun
<1>4. CASE retryable /\ run.attempt < AttemptLimit
  <2> DEFINE m == Counted(run)
  <2>1. m \in Runs /\ m = [run EXCEPT !.attempted = m.attempted]
    BY <1>3, CountedRun
  <2>2. /\ m.attempt = run.attempt /\ m.pc = run.pc /\ m.provider = run.provider
        /\ m.stage = run.stage /\ m.orchestrator = run.orchestrator
        /\ m.agenda = run.agenda /\ m.fixtures = run.fixtures /\ m.data = run.data
        /\ m.abstained = run.abstained
    BY <1>3 DEF Counted, Runs
  <2>3. run' = [m EXCEPT !.attempt = @ + 1, !.retries = @ + 1]
    BY <1>4 DEF Fail
  <2> HIDE DEF m
  <2> DEFINE a == m.attempt + 1
             r == m.retries + 1
  <2>4. a \in 1..AttemptLimit /\ r \in Nat
    BY <1>4, <2>1, <2>2, SyntheticAssumption DEF Runs
  <2>5. run' = [m EXCEPT !.attempt = a, !.retries = r]
    BY <2>1, <2>3 DEF Runs
  <2> HIDE DEF a, r
  <2>6. /\ run' \in Runs /\ run'.pc = m.pc /\ run'.provider = m.provider
        /\ run'.stage = m.stage /\ run'.orchestrator = m.orchestrator
        /\ run'.agenda = m.agenda /\ run'.fixtures = m.fixtures /\ run'.data = m.data
        /\ run'.abstained = m.abstained
    BY <2>1, <2>4, <2>5 DEF Runs
  <2> QED BY <1>1, <1>2, <2>2, <2>6 DEF Retrying, Fail
<1>5. CASE ~(retryable /\ run.attempt < AttemptLimit)
  BY <1>1, <1>2, <1>5, GivenUp DEF Fail
<1> QED BY <1>4, <1>5

LEMMA RememberedIsBound ==
  ASSUME BoundInv, NEW q \in Remembered
  PROVE  Bound(q)
<1>1. CASE Capturing /\ q \in Held(run)
  BY <1>1 DEF BoundInv
<1>2. CASE ~(Capturing /\ q \in Held(run))
  <2>1. PICK i \in DOMAIN results : q \in Held(results[i])
    BY <1>2 DEF Remembered
  <2> QED BY <2>1 DEF BoundInv
<1> QED BY <1>1, <1>2

(* An answer ends its item, whether its evidence is refused or its drafts  *)
(* are taken, all of them or those before one that is refused.             *)
LEMMA AnswerCloses ==
  ASSUME SyntheticTypes, BoundInv, MemoryInv,
         NEW item \in Items, NEW answer \in AnswersTo[item], Answer(item, answer)
  PROVE  \E accepted, gaveUp : Closing(item, accepted, gaveUp)
<1> DEFINE evidence == RawEvidence(run.provider, Reference(item[1], item[2]), answer)
           kickoff == IF item[1] = "FIXTURES" THEN Absent ELSE KickoffOf(run.fixtures, item[2])
<1>1. Attempting(item) /\ Capturing /\ item \in run.agenda
  BY DEF Answer, Attempting, Capturing
<1>2. run \in Runs
  BY <1>1, CapturingRun
<1>3. troubles' \in 0..MaxTroubles
  BY TroubleType DEF Answer
<1>4. CASE Conflicts(store, evidence)
  <2>1. /\ run' = Abstained(Counted(run), item, "CAPTURE_EVIDENCE_CONFLICT")
        /\ UNCHANGED <<store, dedup, results, packets>>
    BY <1>4 DEF Answer
  <2>2. Closing(item, {}, TRUE)
    BY <1>1, <1>3, <2>1, GivenUp
  <2> QED BY <2>2
<1>5. CASE ~Conflicts(store, evidence)
  <2> DEFINE published == Published(store, evidence)
  <2>1. /\ store' = store \union {published}
        /\ UNCHANGED <<results, packets>>
    BY <1>5 DEF Answer
  <2>2. PICK taken \in Takings(dedup, answer.drafts, published, kickoff) :
          /\ dedup' = taken.dedup
          /\ run' = Completed(Counted(run), item, taken, Len(answer.drafts))
    BY <1>5 DEF Answer
  <2>3. /\ answer.at \in Instants /\ answer.drafts \in Bodies
        /\ Len(answer.drafts) \in Nat
        /\ DOMAIN answer.drafts = 1..Len(answer.drafts)
        /\ \A i \in DOMAIN answer.drafts :
             /\ answer.drafts[i] \in Drafts
             /\ answer.drafts[i] \in Range(answer.drafts)
             /\ answer.drafts[i].kind = item[1]
             /\ answer.drafts[i].fixture \in Fixtures
             /\ item[1] # "FIXTURES" => answer.drafts[i].fixture = item[2]
        /\ item[1] # "FIXTURES" => 1 \in DOMAIN answer.drafts
    BY AnswerType
  <2>4. item = <<item[1], item[2]>>
    BY DEF Items
  <2>5. /\ evidence \in Evidences
        /\ evidence.reference = item /\ evidence.sha = answer.drafts
    BY <1>2, <2>3, <2>4 DEF RawEvidence, Reference, Evidences, Runs
  <2>6. published \in store \union {evidence} /\ published.reference = evidence.reference
        /\ published.sha = evidence.sha
    BY <1>5, PublishedIsTheAnswer
  <2> HIDE DEF published, evidence, kickoff
  <2>7. published.reference = item /\ published.sha = answer.drafts
    BY <2>5, <2>6
  <2>8. published \in Evidences
    BY <2>5, <2>6 DEF SyntheticTypes
  <2>9. /\ taken.dedup \in Memories
        /\ taken.accepted \in SUBSET Observables
        /\ IsFiniteSet(taken.accepted)
        /\ taken.duplicates \in Nat
    <3>1. dedup \in Memories
      BY DEF SyntheticTypes
    <3> QED BY <2>2, <2>3, <2>7, <3>1, TakenType
  <2>10. Closed(run, run', item, taken.accepted, taken.error # Absent)
    <3>1. Counted(run) \in Runs
      BY <1>2, CountedRun
    <3>2. Closed(Counted(run), run', item, taken.accepted, taken.error # Absent)
      BY <2>2, <2>3, <2>9, <3>1, CompletedRun
    <3> QED BY <1>2, <3>2, CountedIsClosed
  <2>11. ASSUME NEW o \in taken.accepted
         PROVE  /\ o.draft.kind = item[1]
                /\ item[1] # "FIXTURES" =>
                     /\ o.draft.fixture = item[2]
                     /\ Acceptable(o.draft, KickoffOf(run.fixtures, item[2]))
                /\ \E r \in store' : r.reference = o.reference /\ r.sha = o.hash
                /\ o.draft \in Range(o.hash)
                /\ ~\E p \in dedup.records : p[1] = RecordKey(o.draft)
                /\ \E p \in dedup'.records : p[1] = RecordKey(o.draft)
    <3>1. PICK i \in DOMAIN answer.drafts :
            /\ o = Observation(answer.drafts[i], published)
            /\ Acceptable(answer.drafts[i], kickoff)
            /\ ~\E p \in dedup.records : p[1] = RecordKey(answer.drafts[i])
            /\ <<RecordKey(answer.drafts[i]), published.sha>> \in taken.dedup.records
      BY <2>2, <2>3, TakenIsNew
    <3>2. /\ o.draft = answer.drafts[i] /\ o.reference = published.reference
          /\ o.hash = published.sha
      BY <3>1 DEF Observation
    <3>3. item[1] # "FIXTURES" => kickoff = KickoffOf(run.fixtures, item[2])
      BY DEF kickoff
    <3>4. \E p \in dedup'.records : p[1] = RecordKey(o.draft)
      BY <2>2, <3>1, <3>2
    <3> QED BY <2>1, <2>3, <2>7, <3>1, <3>2, <3>3, <3>4
  <2>12. \A o, q \in taken.accepted : RecordKey(o.draft) = RecordKey(q.draft) => o = q
    BY <2>2, <2>3, TakenOnce
  <2>13. /\ dedup.records \subseteq dedup'.records
         /\ \A p \in dedup'.records \union dedup'.logical :
              \/ p \in dedup.records \union dedup.logical
              \/ \E o \in taken.accepted : p[2] = o.hash
    BY <2>2, <2>3, TakenMemory
  <2>14. \/ taken.error # Absent
         \/ item[1] = "FIXTURES"
         \/ \E o \in taken.accepted \union Remembered :
              o.draft.kind = item[1] /\ o.draft.fixture = item[2]
    <3> SUFFICES ASSUME taken.error = Absent, item[1] # "FIXTURES"
                 PROVE  \E o \in taken.accepted \union Remembered :
                          o.draft.kind = item[1] /\ o.draft.fixture = item[2]
      OBVIOUS
    <3>1. \/ taken.accepted # {}
          \/ \E p \in dedup.records \union dedup.logical : p[2] = published.sha
      BY <2>2, <2>3, TakenOrKnown
    <3>2. CASE taken.accepted # {}
      BY <2>11, <3>2
    <3>3. CASE \E p \in dedup.records \union dedup.logical : p[2] = published.sha
      <4>1. PICK q \in Remembered : q.hash = published.sha
        BY <3>3 DEF MemoryInv
      <4>2. Bound(q)
        BY <4>1, RememberedIsBound
      <4>3. q.draft \in Range(answer.drafts)
        BY <2>7, <4>1, <4>2 DEF Bound
      <4> QED BY <4>1, <4>3, DraftOfBody
    <3> QED BY <3>1, <3>2, <3>3
  <2>15. store \subseteq store' /\ store' \subseteq Evidences /\ dedup' \in Memories
    BY <2>1, <2>2, <2>8, <2>9 DEF SyntheticTypes
  <2>16. Closing(item, taken.accepted, taken.error # Absent)
    BY <1>1, <1>3, <2>1, <2>9, <2>10, <2>11, <2>12, <2>13, <2>14, <2>15 DEF Closing
  <2> QED BY <2>16
<1> QED BY <1>4, <1>5

-----------------------------------------------------------------------------
(* Every step keeps the invariant: types.                                  *)

LEMMA ClosingTypes ==
  ASSUME SyntheticTypes, NEW item, NEW accepted, NEW gaveUp, Closing(item, accepted, gaveUp)
  PROVE  SyntheticTypes'
<1>1. run \in Runs /\ run.pc = "capturing" /\ IsFiniteSet(run.data)
  BY CapturingRun DEF Closing
<1>2. run' \in Runs /\ run'.pc = "capturing"
  BY <1>1 DEF Closing, Closed
<1>3. run'.data = run.data \/ run'.data = run.data \union accepted
  BY DEF Closing, Closed
<1>4. IsFiniteSet(run.data \union accepted)
  BY <1>1, FS_Union DEF Closing
<1>5. IsFiniteSet(run'.data)
  BY <1>1, <1>3, <1>4
<1> QED BY <1>2, <1>5 DEF SyntheticTypes, Closing

LEMMA RetryingTypes ==
  ASSUME SyntheticTypes, Retrying
  PROVE  SyntheticTypes'
<1>1. run \in Runs /\ run.pc = "capturing" /\ IsFiniteSet(run.data)
  BY CapturingRun DEF Retrying
<1> QED BY <1>1 DEF SyntheticTypes, Retrying

LEMMA OrchestratorsCounted ==
  ASSUME SyntheticTypes
  PROVE  Cardinality(Orchestrators) + 1 \in Nat
<1> DEFINE n == Len(results)
           f == [i \in 1..n |-> results[i].orchestrator]
<1>1. n \in Nat /\ DOMAIN results = 1..n
  BY DEF SyntheticTypes
<1>2. IsFiniteSet(1..n)
  BY <1>1, FirstAreFinite
<1> HIDE DEF n
<1>3. Orchestrators = {f[i] : i \in 1..n}
  BY <1>1 DEF Orchestrators
<1>4. DOMAIN f = 1..n /\ f = [i \in 1..n |-> f[i]]
  OBVIOUS
<1> HIDE DEF f
<1>5. IsFiniteSet(Orchestrators)
  BY <1>2, <1>3, <1>4, FiniteImage
<1> QED BY <1>5, FS_CardinalityType

(* What a run that begins is, and the memory it begins with.               *)
LEMMA BegunRun ==
  ASSUME SyntheticTypes, NEW provider \in Providers, NEW stage \in Stages,
         NEW known \in {{}} \union {results[i].fixtures : i \in DOMAIN results},
         BeginRun(provider, stage, known)
  PROVE  /\ run' \in Runs /\ run'.pc = "capturing"
         /\ run'.provider = provider /\ run'.stage = stage
         /\ run'.fixtures = known /\ run'.data = {} /\ run'.abstained = {}
         /\ run'.agenda = IF Discovers(provider, stage, known) THEN {<<"FIXTURES", 0>>}
                          ELSE Agenda(provider, stage, known)
         /\ \/ dedup' = Fresh
            \/ /\ dedup' = dedup
               /\ run'.orchestrator = Last(results).orchestrator
<1>1. PICK again \in BOOLEAN :
        /\ again => results # <<>>
        /\ dedup' = IF again THEN dedup ELSE Fresh
        /\ LET chosen == IF again THEN Last(results).orchestrator
                                  ELSE Cardinality(Orchestrators) + 1
           IN  run' = [Started(provider, stage, known, chosen) EXCEPT
                         !.agenda = IF Discovers(provider, stage, known)
                                    THEN {<<"FIXTURES", 0>>}
                                    ELSE Agenda(provider, stage, known)]
  BY DEF BeginRun
<1> DEFINE chosen == IF again THEN Last(results).orchestrator
                     ELSE Cardinality(Orchestrators) + 1
           agenda == IF Discovers(provider, stage, known) THEN {<<"FIXTURES", 0>>}
                     ELSE Agenda(provider, stage, known)
           m == Started(provider, stage, known, chosen)
<1>2. results \in Seq(Runs)
  BY DEF SyntheticTypes
<1>3. chosen \in Nat
  <2>1. CASE again
    <3>1. results # <<>>
      BY <1>1, <2>1
    <3>2. Last(results) \in Runs
      BY <1>2, <3>1 DEF Last
    <3> QED BY <2>1, <3>2 DEF Runs
  <2>2. CASE ~again
    BY <2>2, OrchestratorsCounted
  <2> QED BY <2>1, <2>2
<1>4. known \in SUBSET Observables
  <2>1. ASSUME NEW i \in DOMAIN results PROVE results[i].fixtures \in SUBSET Observables
    <3>1. results[i] \in Runs
      BY <1>2
    <3> QED BY <3>1 DEF Runs
  <2>2. known = {} \/ \E i \in DOMAIN results : known = results[i].fixtures
    OBVIOUS
  <2> QED BY <2>1, <2>2
<1>5. 1 \in 1..AttemptLimit
  BY SyntheticAssumption
<1>6. run' = [m EXCEPT !.agenda = agenda]
  BY <1>1
<1>7. again => chosen = Last(results).orchestrator
  OBVIOUS
<1> HIDE DEF chosen
<1>8. m \in Runs
  BY <1>3, <1>4, <1>5 DEF Started, Runs
<1>9. m.provider = provider /\ m.stage = stage /\ m.fixtures = known
  BY DEF Started
<1>10. Agenda(provider, stage, known) \in SUBSET Items
  BY <1>8, <1>9, AgendaType
<1>11. <<"FIXTURES", 0>> \in Items
  BY DEF Items, Kinds
<1>12. agenda \in SUBSET Items
  BY <1>10, <1>11
<1>13. agenda = IF Discovers(provider, stage, known) THEN {<<"FIXTURES", 0>>}
                ELSE Agenda(provider, stage, known)
  OBVIOUS
<1> HIDE DEF agenda
<1>14. run' \in Runs
  BY <1>6, <1>8, <1>12 DEF Runs
<1>15. /\ run'.pc = "capturing" /\ run'.provider = provider /\ run'.stage = stage
       /\ run'.fixtures = known /\ run'.data = {} /\ run'.abstained = {}
       /\ run'.agenda = agenda /\ run'.orchestrator = chosen
  BY <1>6 DEF Started
<1> QED BY <1>1, <1>7, <1>13, <1>14, <1>15

LEMMA BeginTypes ==
  ASSUME SyntheticTypes, NEW provider \in Providers, NEW stage \in Stages,
         NEW known \in {{}} \union {results[i].fixtures : i \in DOMAIN results},
         BeginRun(provider, stage, known)
  PROVE  SyntheticTypes'
<1>1. run' \in Runs /\ run'.pc = "capturing" /\ run'.data = {}
  BY BegunRun
<1>2. IsFiniteSet({})
  BY FS_EmptySet
<1>3. dedup' \in Memories
  BY BegunRun DEF SyntheticTypes, Fresh, Memories
<1> QED BY <1>1, <1>2, <1>3 DEF SyntheticTypes, BeginRun

(* The result of a run that ends: the run, with the corrections that do    *)
(* not follow counted and their fixtures given up.                         *)
LEMMA FinishedRun ==
  ASSUME SyntheticTypes, Finish
  PROVE  \E m \in Runs :
           /\ results' = Append(results, m)
           /\ m.provider = run.provider /\ m.stage = run.stage
           /\ m.orchestrator = run.orchestrator
           /\ m.fixtures = run.fixtures /\ m.data = run.data
           /\ run.abstained \subseteq m.abstained
<1> DEFINE bad == BadCorrections(run.data)
           failed == run.failed + Cardinality(bad)
           abstained == run.abstained \union {o.draft.fixture : o \in bad}
           m == [run EXCEPT !.pc = "done", !.failed = failed, !.abstained = abstained]
<1>1. run \in Runs /\ IsFiniteSet(run.data)
  BY CapturingRun DEF Finish, Capturing
<1>2. bad \subseteq run.data
  BY DEF BadCorrections, OfKind
<1>3. IsFiniteSet(bad)
  BY <1>1, <1>2, FS_Subset
<1>4. failed \in Nat
  BY <1>1, <1>3, FS_CardinalityType DEF Runs
<1>5. {o.draft.fixture : o \in bad} \subseteq Fixtures
  <2>1. \A d \in Drafts : d.fixture \in Fixtures
    BY ProviderAssumption DEF Drafts, Bodies, Answers
  <2>2. bad \subseteq Observables
    BY <1>1, <1>2 DEF Runs
  <2> QED BY <2>1, <2>2 DEF Observables
<1>6. abstained \in SUBSET (Fixtures \union {0}) /\ run.abstained \subseteq abstained
  BY <1>1, <1>5 DEF Runs
<1>7. results' = Append(results, m)
  BY <1>1 DEF Finish, Runs
<1> HIDE DEF failed, abstained
<1>8. /\ m \in Runs
      /\ m.provider = run.provider /\ m.stage = run.stage
      /\ m.orchestrator = run.orchestrator
      /\ m.fixtures = run.fixtures /\ m.data = run.data /\ m.abstained = abstained
  BY <1>1, <1>4, <1>6 DEF Runs
<1> QED BY <1>6, <1>7, <1>8

LEMMA FinishTypes ==
  ASSUME SyntheticTypes, Finish
  PROVE  SyntheticTypes'
<1>1. PICK m \in Runs : results' = Append(results, m)
  BY FinishedRun
<1>2. results' \in Seq(Runs)
  BY <1>1 DEF SyntheticTypes
<1> QED BY <1>2 DEF SyntheticTypes, Finish

LEMMA AssembleTypes ==
  ASSUME SyntheticTypes, NEW stage \in Stages, NEW R \in SUBSET DOMAIN results,
         NEW decided \in BOOLEAN, NEW inputs \in SUBSET PredictionInputs,
         Assemble(stage, R, decided, inputs)
  PROVE  SyntheticTypes'
<1> DEFINE packet == Packet(store, stage, Contents(R), decided, inputs)
<1>1. Contents(R) \subseteq Observables
  <2>1. \A i \in R : results[i] \in Runs
    BY DEF SyntheticTypes
  <2> QED BY <2>1 DEF Contents, Runs
<1>2. packet.observations \subseteq Observables /\ packet.offered \subseteq PredictionInputs
  BY <1>1 DEF Packet
<1>3. packets' = packets \union {packet}
  BY DEF Assemble
<1> HIDE DEF packet
<1> QED BY <1>2, <1>3 DEF SyntheticTypes, Assemble

-----------------------------------------------------------------------------
(* Every step keeps the invariant: evidence.                               *)

LEMMA BoundKept ==
  ASSUME store \subseteq store', NEW o, Bound(o)
  PROVE  Bound(o)'
BY DEF Bound

LEMMA ClosingBound ==
  ASSUME SyntheticTypes, BoundInv,
         NEW item, NEW accepted, NEW gaveUp, Closing(item, accepted, gaveUp)
  PROVE  BoundInv'
<1>1. store \subseteq store' /\ results' = results /\ Capturing
  BY DEF Closing
<1>2. ASSUME NEW i \in DOMAIN results', NEW o \in Held(results[i])'
      PROVE  Bound(o)'
  <2>1. Bound(o)
    BY <1>1, <1>2 DEF BoundInv, Held
  <2> QED BY <1>1, <2>1, BoundKept
<1>3. ASSUME NEW o \in Held(run)'
      PROVE  Bound(o)'
  <2>1. o \in Held(run) \/ o \in accepted
    BY <1>3 DEF Held, Closing, Closed
  <2>2. CASE o \in Held(run)
    BY <1>1, <2>2, BoundKept DEF BoundInv
  <2>3. CASE o \in accepted
    BY <2>3 DEF Closing, Bound
  <2> QED BY <2>1, <2>2, <2>3
<1> QED BY <1>2, <1>3 DEF BoundInv

LEMMA RetryingBound ==
  ASSUME BoundInv, Retrying
  PROVE  BoundInv'
BY DEF BoundInv, Retrying, Bound, Held, Capturing

LEMMA BeginBound ==
  ASSUME SyntheticTypes, BoundInv, NEW provider \in Providers, NEW stage \in Stages,
         NEW known \in {{}} \union {results[i].fixtures : i \in DOMAIN results},
         BeginRun(provider, stage, known)
  PROVE  BoundInv'
<1>1. store' = store /\ results' = results
  BY DEF BeginRun
<1>2. \A i \in DOMAIN results : \A o \in Held(results[i]) : Bound(o)'
  BY <1>1, BoundKept DEF BoundInv
<1>3. ASSUME NEW o \in Held(run)'
      PROVE  Bound(o)'
  <2>1. o \in known
    BY <1>3, BegunRun DEF Held
  <2>2. PICK i \in DOMAIN results : o \in results[i].fixtures
    BY <2>1
  <2> QED BY <1>2, <2>2 DEF Held
<1>4. \A i \in DOMAIN results' : Held(results[i])' = Held(results[i])
  BY <1>1 DEF Held
<1> QED BY <1>1, <1>2, <1>3, <1>4 DEF BoundInv

(* What the results are after the end of a run.                            *)
LEMMA FinishedResults ==
  ASSUME SyntheticTypes, Finish
  PROVE  \E n \in Nat :
           /\ DOMAIN results = 1..n /\ DOMAIN results' = 1..(n + 1)
           /\ \A i \in 1..n : results'[i] = results[i]
           /\ Last(results)' = results'[n + 1]
           /\ results'[n + 1].provider = run.provider /\ results'[n + 1].stage = run.stage
           /\ results'[n + 1].orchestrator = run.orchestrator
           /\ results'[n + 1].fixtures = run.fixtures /\ results'[n + 1].data = run.data
           /\ run.abstained \subseteq results'[n + 1].abstained
<1>1. PICK m \in Runs :
        /\ results' = Append(results, m)
        /\ m.provider = run.provider /\ m.stage = run.stage
        /\ m.orchestrator = run.orchestrator
        /\ m.fixtures = run.fixtures /\ m.data = run.data
        /\ run.abstained \subseteq m.abstained
  BY FinishedRun
<1> DEFINE n == Len(results)
<1>2. results \in Seq(Runs)
  BY DEF SyntheticTypes
<1>3. n \in Nat /\ DOMAIN results = 1..n
  BY <1>2
<1>4. Len(results') = n + 1 /\ DOMAIN results' = 1..(n + 1)
  BY <1>1, <1>2
<1>5. \A i \in 1..n : results'[i] = results[i]
  BY <1>1, <1>2
<1>6. results'[n + 1] = m
  BY <1>1, <1>2
<1>7. Last(results)' = results'[n + 1]
  BY <1>4 DEF Last
<1> HIDE DEF n
<1> QED BY <1>1, <1>3, <1>4, <1>5, <1>6, <1>7

LEMMA FinishBound ==
  ASSUME SyntheticTypes, BoundInv, Finish
  PROVE  BoundInv'
<1>1. PICK n \in Nat :
        /\ DOMAIN results = 1..n /\ DOMAIN results' = 1..(n + 1)
        /\ \A i \in 1..n : results'[i] = results[i]
        /\ results'[n + 1].fixtures = run.fixtures /\ results'[n + 1].data = run.data
  BY FinishedResults
<1>2. Capturing /\ ~Capturing' /\ store' = store
  BY DEF Finish, Capturing, Off
<1>3. ASSUME NEW i \in DOMAIN results', NEW o \in Held(results[i])'
      PROVE  Bound(o)'
  <2>1. Bound(o)
    <3>1. CASE i \in 1..n
      BY <1>1, <1>3, <3>1 DEF BoundInv, Held
    <3>2. CASE i = n + 1
      BY <1>1, <1>2, <1>3, <3>2 DEF BoundInv, Held
    <3> QED BY <1>1, <3>1, <3>2
  <2> QED BY <1>2, <2>1, BoundKept
<1> QED BY <1>2, <1>3 DEF BoundInv

LEMMA AssembleBound ==
  ASSUME BoundInv, UNCHANGED <<store, run, results>>
  PROVE  BoundInv'
BY DEF BoundInv, Bound, Held, Capturing

-----------------------------------------------------------------------------
(* Every step keeps the invariant: what a run holds.                       *)

(* An item of the discovery is one of a run that holds nothing yet; any    *)
(* other is of a fixture the run knows, and of a kind its stage captures.  *)
LEMMA ItemOfTheAgenda ==
  ASSUME AgendaInv, Capturing, NEW item \in run.agenda
  PROVE  /\ item[1] = "FIXTURES" => Discovering
         /\ item[1] # "FIXTURES" =>
              /\ item \in Agenda(run.provider, run.stage, run.fixtures)
              /\ item[2] \in Universe(run.fixtures)
              /\ item[1] \in {"FOREBET", "ODDS", "CLOSING", "OUTCOMES"}
<1>1. CASE Discovering
  BY <1>1 DEF Discovering
<1>2. CASE item \in Agenda(run.provider, run.stage, run.fixtures)
  BY <1>2 DEF Agenda, Captured
<1> QED BY <1>1, <1>2 DEF AgendaInv

LEMMA ClosingSound ==
  ASSUME SyntheticTypes, SoundInv, AgendaInv, MemoryInv,
         NEW item, NEW accepted, NEW gaveUp, Closing(item, accepted, gaveUp)
  PROVE  SoundInv'
<1>1. results' = results /\ Capturing /\ item \in run.agenda
  BY DEF Closing
<1>2. Closed(run, run', item, accepted, gaveUp)
  BY DEF Closing
<1>3. SoundRun(run)
  BY <1>1 DEF SoundInv
<1>4. CASE item[1] = "FIXTURES"
  <2>1. run'.fixtures = accepted /\ run'.data = {}
    BY <1>1, <1>2, <1>4, ItemOfTheAgenda DEF Discovering, Closed
  <2>2. \A o \in accepted : o.draft.kind = "FIXTURES"
    BY <1>4 DEF Closing
  <2>3. \A o, q \in accepted : o.draft.fixture = q.draft.fixture => o = q
    BY <2>2 DEF Closing, RecordKey
  <2> QED BY <1>1, <2>1, <2>2, <2>3 DEF SoundInv, SoundRun
<1>5. CASE item[1] # "FIXTURES"
  <2>1. run'.fixtures = run.fixtures /\ run'.data = run.data \union accepted
    BY <1>2, <1>5 DEF Closed
  <2>2. /\ item[2] \in Universe(run.fixtures)
        /\ item[1] \in {"FOREBET", "ODDS", "CLOSING", "OUTCOMES"}
    BY <1>1, <1>5, ItemOfTheAgenda
  <2>3. \A o \in accepted :
          /\ o.draft.kind \in {"FOREBET", "ODDS", "CLOSING", "OUTCOMES"}
          /\ o.draft.fixture \in Universe(run.fixtures)
          /\ Acceptable(o.draft, KickoffOf(run.fixtures, o.draft.fixture))
    BY <1>5, <2>2 DEF Closing
  <2>4. \A o \in run.data, q \in accepted : RecordKey(o.draft) # RecordKey(q.draft)
    BY <1>1 DEF MemoryInv, Closing
  <2>5. \A o, q \in accepted : RecordKey(o.draft) = RecordKey(q.draft) => o = q
    BY DEF Closing
  <2>6. \A o, q \in run.data \union accepted : RecordKey(o.draft) = RecordKey(q.draft) => o = q
    BY <1>3, <2>4, <2>5 DEF SoundRun
  <2>7. SoundRun(run')
    BY <1>3, <2>1, <2>3, <2>6 DEF SoundRun
  <2> QED BY <1>1, <2>7 DEF SoundInv
<1> QED BY <1>4, <1>5

LEMMA RetryingSound ==
  ASSUME SoundInv, Retrying
  PROVE  SoundInv'
BY DEF SoundInv, Retrying, SoundRun, Capturing

LEMMA BeginSound ==
  ASSUME SyntheticTypes, SoundInv, NEW provider \in Providers, NEW stage \in Stages,
         NEW known \in {{}} \union {results[i].fixtures : i \in DOMAIN results},
         BeginRun(provider, stage, known)
  PROVE  SoundInv'
<1>1. results' = results
  BY DEF BeginRun
<1>2. run'.fixtures = known /\ run'.data = {}
  BY BegunRun
<1>3. known = {} \/ \E i \in DOMAIN results : known = results[i].fixtures
  OBVIOUS
<1>4. SoundRun(run')
  BY <1>2, <1>3 DEF SoundInv, SoundRun
<1> QED BY <1>1, <1>4 DEF SoundInv

LEMMA FinishSound ==
  ASSUME SyntheticTypes, SoundInv, Finish
  PROVE  SoundInv'
<1>1. PICK n \in Nat :
        /\ DOMAIN results = 1..n /\ DOMAIN results' = 1..(n + 1)
        /\ \A i \in 1..n : results'[i] = results[i]
        /\ results'[n + 1].fixtures = run.fixtures /\ results'[n + 1].data = run.data
  BY FinishedResults
<1>2. Capturing /\ ~Capturing'
  BY DEF Finish, Capturing, Off
<1>3. SoundRun(results'[n + 1])
  BY <1>1, <1>2 DEF SoundInv, SoundRun
<1>4. ASSUME NEW i \in DOMAIN results'
      PROVE  SoundRun(results'[i])
  <2>1. CASE i \in 1..n
    BY <1>1, <2>1 DEF SoundInv
  <2>2. CASE i = n + 1
    BY <1>3, <2>2
  <2> QED BY <1>1, <2>1, <2>2
<1> QED BY <1>2, <1>4 DEF SoundInv

LEMMA AssembleSound ==
  ASSUME SoundInv, UNCHANGED <<run, results>>
  PROVE  SoundInv'
BY DEF SoundInv, Capturing

-----------------------------------------------------------------------------
(* Every step keeps the invariant: the agenda.                             *)

LEMMA ClosingAgenda ==
  ASSUME AgendaInv, NEW item, NEW accepted, NEW gaveUp, Closing(item, accepted, gaveUp)
  PROVE  run'.agenda \subseteq Agenda(run'.provider, run'.stage, run'.fixtures)
<1>1. Capturing /\ item \in run.agenda /\ Closed(run, run', item, accepted, gaveUp)
  BY DEF Closing
<1>2. CASE item[1] = "FIXTURES"
  BY <1>1, <1>2 DEF Closed
<1>3. CASE item[1] # "FIXTURES"
  <2>1. run.agenda \subseteq Agenda(run.provider, run.stage, run.fixtures)
    BY <1>1, <1>3 DEF AgendaInv, Discovering
  <2> QED BY <1>1, <1>3, <2>1 DEF Closed
<1> QED BY <1>2, <1>3

LEMMA BeginAgenda ==
  ASSUME SyntheticTypes, NEW provider \in Providers, NEW stage \in Stages,
         NEW known \in {{}} \union {results[i].fixtures : i \in DOMAIN results},
         BeginRun(provider, stage, known)
  PROVE  /\ Discovers(provider, stage, known) => Discovering'
         /\ ~Discovers(provider, stage, known) =>
              run'.agenda = Agenda(run'.provider, run'.stage, run'.fixtures)
BY BegunRun DEF Discovering, Discovers

-----------------------------------------------------------------------------
(* Every step keeps the invariant: the memory of the deduplicator.         *)

LEMMA ClosingRemembers ==
  ASSUME NEW item, NEW accepted, NEW gaveUp, Closing(item, accepted, gaveUp)
  PROVE  Remembered \union accepted \subseteq Remembered'
<1>1. /\ Capturing /\ Capturing' /\ results' = results
      /\ run'.orchestrator = run.orchestrator
      /\ Held(run) \union accepted \subseteq Held(run')
  BY DEF Closing, Closed, Capturing, Held
<1>2. Orchestrator' = Orchestrator
  BY <1>1 DEF Orchestrator
<1>3. (UNION {Held(results[i]) : i \in {j \in DOMAIN results : results[j].orchestrator = Orchestrator}})'
        = UNION {Held(results[i]) : i \in {j \in DOMAIN results : results[j].orchestrator = Orchestrator}}
  BY <1>1, <1>2 DEF Held
<1> QED BY <1>1, <1>3 DEF Remembered

LEMMA ClosingMemory ==
  ASSUME MemoryInv, AgendaInv, NEW item, NEW accepted, NEW gaveUp, Closing(item, accepted, gaveUp)
  PROVE  MemoryInv'
<1>1. Remembered \union accepted \subseteq Remembered'
  BY ClosingRemembers
<1>2. \A p \in dedup'.records \union dedup'.logical :
        \/ p \in dedup.records \union dedup.logical
        \/ \E o \in accepted : p[2] = o.hash
  BY DEF Closing
<1>3. \A p \in dedup'.records \union dedup'.logical : \E q \in Remembered' : p[2] = q.hash
  BY <1>1, <1>2 DEF MemoryInv
<1>4. /\ Capturing /\ dedup.records \subseteq dedup'.records
      /\ \A o \in accepted : \E p \in dedup'.records : p[1] = RecordKey(o.draft)
      /\ run'.data \subseteq run.data \union accepted
  BY DEF Closing, Closed
<1>5. \A o \in run'.data : \E p \in dedup'.records : p[1] = RecordKey(o.draft)
  BY <1>4 DEF MemoryInv
<1> QED BY <1>3, <1>5 DEF MemoryInv

LEMMA RetryingRemembers ==
  ASSUME Retrying
  PROVE  Remembered' = Remembered
<1>1. /\ Capturing /\ Capturing' /\ results' = results
      /\ run'.orchestrator = run.orchestrator /\ Held(run') = Held(run)
  BY DEF Retrying, Capturing, Held
<1>2. Orchestrator' = Orchestrator
  BY <1>1 DEF Orchestrator
<1>3. (UNION {Held(results[i]) : i \in {j \in DOMAIN results : results[j].orchestrator = Orchestrator}})'
        = UNION {Held(results[i]) : i \in {j \in DOMAIN results : results[j].orchestrator = Orchestrator}}
  BY <1>1, <1>2 DEF Held
<1> QED BY <1>1, <1>3 DEF Remembered

LEMMA RetryingMemory ==
  ASSUME MemoryInv, Retrying
  PROVE  MemoryInv'
BY RetryingRemembers DEF MemoryInv, Retrying

LEMMA BeginMemory ==
  ASSUME SyntheticTypes, MemoryInv, NEW provider \in Providers, NEW stage \in Stages,
         NEW known \in {{}} \union {results[i].fixtures : i \in DOMAIN results},
         BeginRun(provider, stage, known)
  PROVE  MemoryInv'
<1>1. run'.data = {} /\ Capturing' /\ ~Capturing /\ results' = results
  BY BegunRun DEF BeginRun, Capturing
<1>2. CASE dedup' = Fresh
  BY <1>1, <1>2 DEF MemoryInv, Fresh
<1>3. CASE dedup' = dedup /\ run'.orchestrator = Last(results).orchestrator
  <2>1. Orchestrator' = Orchestrator
    BY <1>1, <1>3 DEF Orchestrator
  <2>2. (UNION {Held(results[i]) : i \in {j \in DOMAIN results : results[j].orchestrator = Orchestrator}})'
          = UNION {Held(results[i]) : i \in {j \in DOMAIN results : results[j].orchestrator = Orchestrator}}
    BY <1>1, <2>1 DEF Held
  <2>3. Remembered \subseteq Remembered'
    BY <1>1, <2>2 DEF Remembered
  <2> QED BY <1>1, <1>3, <2>3 DEF MemoryInv
<1> QED BY <1>2, <1>3, BegunRun

LEMMA FinishRemembers ==
  ASSUME SyntheticTypes, Finish
  PROVE  Remembered \subseteq Remembered'
<1>1. PICK n \in Nat :
        /\ DOMAIN results = 1..n /\ DOMAIN results' = 1..(n + 1)
        /\ \A i \in 1..n : results'[i] = results[i]
        /\ Last(results)' = results'[n + 1]
        /\ results'[n + 1].orchestrator = run.orchestrator
        /\ results'[n + 1].fixtures = run.fixtures /\ results'[n + 1].data = run.data
  BY FinishedResults
<1>2. Capturing /\ ~Capturing'
  BY DEF Finish, Capturing, Off
<1>3. Orchestrator' = run.orchestrator /\ Orchestrator = run.orchestrator
  BY <1>1, <1>2 DEF Orchestrator
<1>4. ASSUME NEW q \in Remembered
      PROVE  \E i \in DOMAIN results' :
               results'[i].orchestrator = run.orchestrator /\ q \in Held(results'[i])
  <2>1. CASE q \in Held(run)
    BY <1>1, <2>1 DEF Held
  <2>2. CASE q \notin Held(run)
    <3>1. PICK i \in DOMAIN results :
            results[i].orchestrator = run.orchestrator /\ q \in Held(results[i])
      BY <1>2, <1>3, <2>2 DEF Remembered
    <3> QED BY <1>1, <3>1
  <2> QED BY <2>1, <2>2
<1>5. Remembered' =
        UNION {Held(results'[i]) : i \in {j \in DOMAIN results' : results'[j].orchestrator = run.orchestrator}}
  BY <1>2, <1>3 DEF Remembered, Held
<1> QED BY <1>4, <1>5

LEMMA FinishMemory ==
  ASSUME SyntheticTypes, MemoryInv, Finish
  PROVE  MemoryInv'
<1>1. ~Capturing' /\ dedup' = dedup
  BY DEF Finish, Capturing, Off
<1> QED BY <1>1, FinishRemembers DEF MemoryInv

LEMMA AssembleMemory ==
  ASSUME MemoryInv, UNCHANGED <<dedup, run, results>>
  PROVE  MemoryInv'
BY DEF MemoryInv, Remembered, Orchestrator, Capturing, Held

-----------------------------------------------------------------------------
(* Every step keeps the invariant: no item is forgotten.                   *)

LEMMA ClosingCover ==
  ASSUME SyntheticTypes, AgendaInv, CoverInv,
         NEW item, NEW accepted, NEW gaveUp, Closing(item, accepted, gaveUp)
  PROVE  CoverInv'
<1>1. /\ Capturing /\ item \in run.agenda /\ results' = results
      /\ Closed(run, run', item, accepted, gaveUp)
  BY DEF Closing
<1>2. NoFixtureIsForgotten'
  BY <1>1 DEF CoverInv, NoFixtureIsForgotten, OfKind
<1>3. ASSUME NEW x, Accounted(x)
      PROVE  Accounted(x)'
  BY <1>1, <1>3, ClosingRemembers DEF Accounted, Closed
<1>4. CASE item[1] = "FIXTURES"
  <2>1. run'.agenda = Agenda(run'.provider, run'.stage, run'.fixtures)
    BY <1>1, <1>4 DEF Closed
  <2> QED BY <1>2, <2>1 DEF CoverInv
<1>5. CASE item[1] # "FIXTURES"
  <2>1. ~Discovering
    BY <1>1, <1>5 DEF Discovering
  <2>2. /\ Agenda(run'.provider, run'.stage, run'.fixtures)
             = Agenda(run.provider, run.stage, run.fixtures)
        /\ run'.agenda = run.agenda \ {item}
    BY <1>1, <1>5 DEF Closed
  <2>3. Accounted(item)'
    <3>1. CASE gaveUp
      BY <1>1, <3>1 DEF Accounted, Closed
    <3>2. CASE ~gaveUp
      <4>1. PICK o \in accepted \union Remembered :
              o.draft.kind = item[1] /\ o.draft.fixture = item[2]
        BY <1>5, <3>2 DEF Closing
      <4> QED BY <4>1, ClosingRemembers DEF Accounted
    <3> QED BY <3>1, <3>2
  <2>4. ASSUME NEW x \in Agenda(run'.provider, run'.stage, run'.fixtures) \ run'.agenda
        PROVE  Accounted(x)'
    <3>1. CASE x = item
      BY <2>3, <3>1
    <3>2. CASE x # item
      BY <1>1, <1>3, <2>1, <2>2, <2>4, <3>2 DEF CoverInv
    <3> QED BY <3>1, <3>2
  <2> QED BY <1>2, <2>4 DEF CoverInv
<1> QED BY <1>4, <1>5

LEMMA RetryingCover ==
  ASSUME CoverInv, Retrying
  PROVE  CoverInv'
BY RetryingRemembers DEF CoverInv, Retrying, Accounted, Discovering, Capturing,
                         NoFixtureIsForgotten, OfKind

LEMMA BeginCover ==
  ASSUME SyntheticTypes, CoverInv, NEW provider \in Providers, NEW stage \in Stages,
         NEW known \in {{}} \union {results[i].fixtures : i \in DOMAIN results},
         BeginRun(provider, stage, known)
  PROVE  CoverInv'
<1>1. results' = results
  BY DEF BeginRun
<1>2. NoFixtureIsForgotten'
  BY <1>1 DEF CoverInv, NoFixtureIsForgotten, OfKind
<1> QED BY <1>2, BeginAgenda DEF CoverInv

(* When nothing is left on the agenda each item of it was given up, or is  *)
(* in what a run of the orchestrator up to this one holds.                 *)
LEMMA FinishCover ==
  ASSUME SyntheticTypes, SoundInv, CoverInv, Finish
  PROVE  CoverInv'
<1>1. PICK n \in Nat :
        /\ DOMAIN results = 1..n /\ DOMAIN results' = 1..(n + 1)
        /\ \A i \in 1..n : results'[i] = results[i]
        /\ results'[n + 1].provider = run.provider /\ results'[n + 1].stage = run.stage
        /\ results'[n + 1].orchestrator = run.orchestrator
        /\ results'[n + 1].fixtures = run.fixtures /\ results'[n + 1].data = run.data
        /\ run.abstained \subseteq results'[n + 1].abstained
  BY FinishedResults
<1>2. Capturing /\ ~Capturing' /\ run.agenda = {} /\ ~Discovering
  BY DEF Finish, Capturing, Off, Discovering
<1>3. Orchestrator = run.orchestrator
  BY <1>2 DEF Orchestrator
<1>4. ASSUME NEW c \in Captured(run.stage) \intersect CapabilitiesOf[run.provider],
             NEW f \in Universe(run.fixtures)
      PROVE  \/ f \in run.abstained
             \/ \E j \in 1..(n + 1) :
                  /\ results'[j].orchestrator = run.orchestrator
                  /\ \E o \in results'[j].data : o.draft.kind = c /\ o.draft.fixture = f
  <2>1. <<c, f>> \in Agenda(run.provider, run.stage, run.fixtures)
    BY DEF Agenda
  <2>2. Accounted(<<c, f>>)
    BY <1>2, <2>1 DEF CoverInv
  <2>3. SUFFICES ASSUME NEW o \in Remembered, o.draft.kind = c, o.draft.fixture = f
                 PROVE  \E j \in 1..(n + 1) :
                          results'[j].orchestrator = run.orchestrator /\ o \in results'[j].data
    BY <2>2 DEF Accounted
  <2>4. c # "FIXTURES"
    BY DEF Captured
  <2>5. CASE o \in Held(run)
    <3>1. o \in run.data
      BY <1>2, <2>3, <2>4, <2>5 DEF Held, SoundInv, SoundRun
    <3> QED BY <1>1, <3>1
  <2>6. CASE o \notin Held(run)
    <3>1. PICK i \in DOMAIN results :
            results[i].orchestrator = run.orchestrator /\ o \in Held(results[i])
      BY <1>2, <1>3, <2>6 DEF Remembered
    <3>2. o \in results[i].data
      BY <2>3, <2>4, <3>1 DEF Held, SoundInv, SoundRun
    <3> QED BY <1>1, <3>1, <3>2
  <2> QED BY <2>5, <2>6
<1>5. ASSUME NEW i \in DOMAIN results',
             NEW c \in Captured(results'[i].stage) \intersect CapabilitiesOf[results'[i].provider],
             NEW f \in Universe(results'[i].fixtures)
      PROVE  \/ f \in results'[i].abstained
             \/ \E j \in 1..i :
                  /\ results'[j].orchestrator = results'[i].orchestrator
                  /\ \E o \in OfKind(results'[j].data, c) : o.draft.fixture = f
  <2>1. CASE i \in 1..n
    <3>1. results'[i] = results[i] /\ i \in DOMAIN results
      BY <1>1, <2>1
    <3>2. \/ f \in results[i].abstained
          \/ \E j \in 1..i :
               /\ results[j].orchestrator = results[i].orchestrator
               /\ \E o \in OfKind(results[j].data, c) : o.draft.fixture = f
      BY <3>1 DEF CoverInv, NoFixtureIsForgotten
    <3>3. \A j \in 1..i : results'[j] = results[j]
      BY <1>1, <2>1
    <3> QED BY <3>1, <3>2, <3>3
  <2>2. CASE i = n + 1
    <3>1. \/ f \in run.abstained
          \/ \E j \in 1..(n + 1) :
               /\ results'[j].orchestrator = run.orchestrator
               /\ \E o \in results'[j].data : o.draft.kind = c /\ o.draft.fixture = f
      BY <1>1, <1>4, <2>2
    <3> QED BY <1>1, <2>2, <3>1 DEF OfKind
  <2> QED BY <1>1, <2>1, <2>2
<1>6. NoFixtureIsForgotten'
  BY <1>5 DEF NoFixtureIsForgotten, OfKind
<1> QED BY <1>2, <1>6 DEF CoverInv

LEMMA AssembleCover ==
  ASSUME CoverInv, UNCHANGED <<run, results>>
  PROVE  CoverInv'
BY DEF CoverInv, Accounted, Remembered, Orchestrator, Capturing, Held, Discovering,
       NoFixtureIsForgotten, OfKind

-----------------------------------------------------------------------------
(* The invariant is inductive.                                             *)

LEMMA ClosingKeeps ==
  ASSUME SyntheticInv, NEW item, NEW accepted, NEW gaveUp, Closing(item, accepted, gaveUp)
  PROVE  SyntheticInv'
<1>1. AgendaInv'
  BY ClosingAgenda DEF SyntheticInv, AgendaInv
<1> QED BY <1>1, ClosingTypes, ClosingBound, ClosingSound, ClosingMemory, ClosingCover
        DEF SyntheticInv

LEMMA RetryingKeeps ==
  ASSUME SyntheticInv, Retrying
  PROVE  SyntheticInv'
<1>1. AgendaInv'
  BY DEF SyntheticInv, AgendaInv, Retrying, Discovering
<1> QED BY <1>1, RetryingTypes, RetryingBound, RetryingSound, RetryingMemory, RetryingCover
        DEF SyntheticInv

LEMMA BeginKeeps ==
  ASSUME SyntheticInv, NEW provider \in Providers, NEW stage \in Stages,
         NEW known \in {{}} \union {results[i].fixtures : i \in DOMAIN results},
         BeginRun(provider, stage, known)
  PROVE  SyntheticInv'
<1>1. AgendaInv'
  BY BeginAgenda DEF SyntheticInv, AgendaInv
<1> QED BY <1>1, BeginTypes, BeginBound, BeginSound, BeginMemory, BeginCover DEF SyntheticInv

LEMMA FinishKeeps ==
  ASSUME SyntheticInv, Finish
  PROVE  SyntheticInv'
<1>1. AgendaInv'
  BY DEF AgendaInv, Finish, Capturing, Off
<1> QED BY <1>1, FinishTypes, FinishBound, FinishSound, FinishMemory, FinishCover DEF SyntheticInv

(* Nor does writing a packet, or doing nothing, touch what it is about.    *)
LEMMA IdleKeeps ==
  ASSUME SyntheticInv, SyntheticTypes', UNCHANGED <<store, dedup, run, results>>
  PROVE  SyntheticInv'
<1>1. AgendaInv'
  BY DEF SyntheticInv, AgendaInv, Capturing, Discovering
<1> QED BY <1>1, AssembleBound, AssembleSound, AssembleMemory, AssembleCover DEF SyntheticInv

LEMMA InitHolds ==
  ASSUME SyntheticInit
  PROVE  SyntheticInv
<1>1. ~Capturing /\ DOMAIN results = {} /\ results \in Seq(Runs)
  BY DEF SyntheticInit, Capturing, Off
<1>2. SyntheticTypes
  BY <1>1, SyntheticAssumption DEF SyntheticInit, SyntheticTypes, Fresh, Memories
<1>3. BoundInv /\ SoundInv /\ AgendaInv
  BY <1>1 DEF BoundInv, SoundInv, AgendaInv
<1>4. MemoryInv
  BY <1>1 DEF MemoryInv, SyntheticInit, Fresh
<1>5. CoverInv
  BY <1>1 DEF CoverInv, NoFixtureIsForgotten
<1> QED BY <1>2, <1>3, <1>4, <1>5 DEF SyntheticInv

LEMMA SyntheticStep ==
  ASSUME SyntheticInv, [SyntheticNext]_syntheticVars
  PROVE  SyntheticInv'
<1>1. ASSUME NEW p \in Providers, NEW stage \in Stages,
             NEW known \in {{}} \union {results[i].fixtures : i \in DOMAIN results},
             BeginRun(p, stage, known)
      PROVE  SyntheticInv'
  BY <1>1, BeginKeeps
<1>2. ASSUME NEW item \in Items, Limited(item)
      PROVE  SyntheticInv'
  <2>1. Closing(item, {}, TRUE)
    BY <1>2, LimitedCloses DEF SyntheticInv
  <2> QED BY <2>1, ClosingKeeps
<1>3. ASSUME NEW item \in Items, NEW retryable \in BOOLEAN, Fail(item, retryable)
      PROVE  SyntheticInv'
  <2>1. Retrying \/ Closing(item, {}, TRUE)
    BY <1>3, FailCloses DEF SyntheticInv
  <2> QED BY <2>1, ClosingKeeps, RetryingKeeps
<1>4. ASSUME NEW item \in Items, NEW answer \in AnswersTo[item], Answer(item, answer)
      PROVE  SyntheticInv'
  <2>1. PICK accepted, gaveUp : Closing(item, accepted, gaveUp)
    BY <1>4, AnswerCloses DEF SyntheticInv
  <2> QED BY <2>1, ClosingKeeps
<1>5. CASE Finish
  BY <1>5, FinishKeeps
<1>6. ASSUME NEW stage \in Stages, NEW R \in SUBSET DOMAIN results,
             NEW decided \in BOOLEAN, NEW inputs \in SUBSET PredictionInputs,
             Assemble(stage, R, decided, inputs)
      PROVE  SyntheticInv'
  <2>1. SyntheticTypes'
    BY <1>6, AssembleTypes DEF SyntheticInv
  <2>2. UNCHANGED <<store, dedup, run, results>>
    BY <1>6 DEF Assemble
  <2> QED BY <2>1, <2>2, IdleKeeps
<1>7. CASE UNCHANGED syntheticVars
  <2>1. UNCHANGED <<store, dedup, run, results, packets, troubles>>
    BY <1>7 DEF syntheticVars
  <2>2. SyntheticTypes'
    BY <2>1 DEF SyntheticInv, SyntheticTypes
  <2> QED BY <2>1, <2>2, IdleKeeps
<1> QED BY <1>1, <1>2, <1>3, <1>4, <1>5, <1>6, <1>7 DEF SyntheticNext

(* What the orchestrator, its memory and the packets are about is of its   *)
(* type at every moment, and the invariant above holds: CaptureOrchestrator*)
(* and PacketAssembler, whatever the providers answer.                     *)
THEOREM SyntheticInvHolds == SyntheticSpec => []SyntheticInv
<1>1. SyntheticInit => SyntheticInv
  BY InitHolds
<1>2. SyntheticInv /\ [SyntheticNext]_syntheticVars => SyntheticInv'
  BY SyntheticStep
<1> QED BY <1>1, <1>2, PTL DEF SyntheticSpec

THEOREM SyntheticTypesHold == SyntheticSpec => []SyntheticTypes
<1>1. SyntheticInv => SyntheticTypes
  BY DEF SyntheticInv
<1> QED BY <1>1, SyntheticInvHolds, PTL

(* Each observation of a result is bound to an evidence of the store that  *)
(* holds it (attachEvidence after publish), for every provider and every   *)
(* sequence of runs, retries, replays and refusals.                        *)
THEOREM ObservationsAreBoundHolds == SyntheticSpec => []ObservationsAreBound
<1>1. SyntheticInv => ObservationsAreBound
  <2> SUFFICES ASSUME SyntheticInv, NEW o \in Observations
               PROVE  /\ \E r \in store : r.reference = o.reference /\ r.sha = o.hash
                      /\ o.draft \in Range(o.hash)
    BY DEF ObservationsAreBound
  <2>1. PICK i \in DOMAIN results : o \in Held(results[i])
    BY DEF Observations, Held
  <2> QED BY <2>1 DEF SyntheticInv, BoundInv, Bound
<1> QED BY <1>1, SyntheticInvHolds, PTL

(* What the data of a run says of a fixture was captured on the right side *)
(* of the kickoff the run itself gives for it.                             *)
LEMMA AcceptableInTime ==
  ASSUME NEW draft, NEW kickoff, Acceptable(draft, kickoff),
         draft.kind \in {"FOREBET", "ODDS", "CLOSING", "OUTCOMES"}
  PROVE  IF draft.kind = "OUTCOMES" THEN draft.at > kickoff ELSE draft.at < kickoff
<1>1. CASE draft.kind = "OUTCOMES"
  BY <1>1 DEF Acceptable
<1>2. CASE draft.kind = "CLOSING"
  BY <1>2 DEF Acceptable, BeforeKickoff
<1>3. CASE draft.kind \in {"FOREBET", "ODDS"}
  BY <1>3 DEF Acceptable, BeforeKickoff
<1> QED BY <1>1, <1>2, <1>3

(* No result holds what was captured after the kickoff it gives, and none  *)
(* holds a record twice with other content (validateForebet and its like,  *)
(* ObservationDeduplicator), however often the provider revises itself.    *)
THEOREM ResultsAreProspectiveHolds == SyntheticSpec => []ResultsAreProspective
<1>1. SyntheticInv => ResultsAreProspective
  <2> SUFFICES ASSUME SyntheticInv, NEW i \in DOMAIN results
               PROVE  /\ \A o \in results[i].data :
                           LET kickoff == KickoffOf(results[i].fixtures, o.draft.fixture)
                           IN  IF o.draft.kind = "OUTCOMES" THEN o.draft.at > kickoff
                                                            ELSE o.draft.at < kickoff
                      /\ ~\E o, q \in results[i].data :
                            RecordKey(o.draft) = RecordKey(q.draft) /\ o # q
    BY DEF ResultsAreProspective
  <2>1. SoundRun(results[i])
    BY DEF SyntheticInv, SoundInv
  <2>2. ASSUME NEW o \in results[i].data
        PROVE  LET kickoff == KickoffOf(results[i].fixtures, o.draft.fixture)
               IN  IF o.draft.kind = "OUTCOMES" THEN o.draft.at > kickoff
                                                ELSE o.draft.at < kickoff
    BY <2>1, AcceptableInTime DEF SoundRun
  <2> QED BY <2>1, <2>2 DEF SoundRun
<1> QED BY <1>1, SyntheticInvHolds, PTL

(* What a stage captures of a fixture is in the data of the orchestrator,  *)
(* or the fixture has a technical abstention: recordFailure isolates each  *)
(* failure, and the rest of the agenda is gone through.                    *)
THEOREM NoFixtureIsForgottenHolds == SyntheticSpec => []NoFixtureIsForgotten
<1>1. SyntheticInv => NoFixtureIsForgotten
  BY DEF SyntheticInv, CoverInv
<1> QED BY <1>1, SyntheticInvHolds, PTL

(* In what runs found that do not contradict each other a fixture has one  *)
(* kickoff, whichever of them it comes from.                               *)
LEMMA OneKickoff ==
  ASSUME SoundInv, NEW R \in SUBSET DOMAIN results, ~Contradictory(Contents(R)),
         NEW i \in R, NEW o \in results[i].data,
         NEW x \in Contents(R), x.draft.kind = "FIXTURES", x.draft.fixture = o.draft.fixture
  PROVE  KickoffOf(results[i].fixtures, o.draft.fixture) = x.draft.kickoff
<1> DEFINE f == o.draft.fixture
           y == CHOOSE y \in results[i].fixtures : y.draft.fixture = f
<1>1. SoundRun(results[i])
  BY DEF SoundInv
<1>2. f \in Universe(results[i].fixtures)
  BY <1>1 DEF SoundRun
<1>3. y \in results[i].fixtures /\ y.draft.fixture = f
  BY <1>2 DEF Universe
<1>4. y \in Contents(R)
  BY <1>3 DEF Contents
<1>5. y.draft.kind = "FIXTURES"
  BY <1>1, <1>3 DEF SoundRun
<1>6. KickoffOf(results[i].fixtures, f) = y.draft.kickoff
  BY DEF KickoffOf
<1> HIDE DEF y
<1>7. RecordKey(y.draft) = RecordKey(x.draft)
  BY <1>3, <1>5 DEF RecordKey
<1> QED BY <1>4, <1>6, <1>7 DEF Contradictory

(* The predictions that are kept are the latest of those taken in time.    *)
LEMMA LatestInTime ==
  ASSUME NEW inputs \in SUBSET PredictionInputs, ~Ambiguous(inputs),
         NEW s \in PredictionSnapshots(inputs)
  PROVE  /\ s.at < s.kickoff
         /\ \A q \in inputs \ {s} :
              q.fixture = s.fixture => q.at < s.at \/ q.at >= q.kickoff
<1>1. s \in Candidates(inputs) /\ s.at < s.kickoff
  BY DEF PredictionSnapshots, Candidates
<1>2. ASSUME NEW q \in inputs \ {s}, q.fixture = s.fixture, ~(q.at >= q.kickoff)
      PROVE  q.at < s.at
  <2>1. /\ q.at \in Int /\ q.kickoff \in Int /\ s.at \in Int
    BY PredictionAssumption DEF PredictionSnapshots, Candidates
  <2>2. q \in Candidates(inputs)
    BY <1>2, <2>1 DEF Candidates
  <2>3. q.at <= s.at
    BY <1>2, <2>2 DEF PredictionSnapshots
  <2>4. q.at # s.at
    BY <1>1, <1>2, <2>2 DEF Ambiguous
  <2> QED BY <2>1, <2>3, <2>4
<1> QED BY <1>1, <1>2

LEMMA AssembleIsProspective ==
  ASSUME SyntheticInv, PacketIsProspective, NEW stage \in Stages,
         NEW R \in SUBSET DOMAIN results,
         NEW decided \in BOOLEAN, NEW inputs \in SUBSET PredictionInputs,
         Assemble(stage, R, decided, inputs)
  PROVE  PacketIsProspective'
<1> DEFINE packet == Packet(store, stage, Contents(R), decided, inputs)
<1>1. packets' = packets \union {packet}
  BY DEF Assemble
<1>2. ~Contradictory(Contents(R)) /\ ~Ambiguous(inputs)
  BY DEF Assemble, Assemblable, PredictionsAllowed
<1>3. /\ packet.observations = Contents(R) /\ packet.offered = inputs
      /\ packet.predictions = PredictionSnapshots(inputs)
  BY DEF Packet
<1> HIDE DEF packet
<1>4. ASSUME NEW o \in packet.observations, NEW x \in OfKind(packet.observations, "FIXTURES"),
             o.draft.kind # "FIXTURES", x.draft.fixture = o.draft.fixture
      PROVE  IF o.draft.kind = "OUTCOMES" THEN o.draft.at > x.draft.kickoff
                                          ELSE o.draft.at < x.draft.kickoff
  <2>1. PICK i \in R : o \in Held(results[i])
    BY <1>3 DEF Contents, Held
  <2>2. SoundRun(results[i])
    BY DEF SyntheticInv, SoundInv
  <2>3. o \in results[i].data
    BY <1>4, <2>1, <2>2 DEF Held, SoundRun
  <2>4. x \in Contents(R) /\ x.draft.kind = "FIXTURES"
    BY <1>3 DEF OfKind
  <2>5. KickoffOf(results[i].fixtures, o.draft.fixture) = x.draft.kickoff
    BY <1>2, <1>4, <2>3, <2>4, OneKickoff DEF SyntheticInv
  <2> QED BY <2>2, <2>3, <2>5, AcceptableInTime DEF SoundRun
<1>5. ASSUME NEW s \in packet.predictions
      PROVE  /\ s.at < s.kickoff
             /\ \A q \in packet.offered \ {s} :
                  q.fixture = s.fixture => q.at < s.at \/ q.at >= q.kickoff
  BY <1>2, <1>3, LatestInTime
<1> QED BY <1>1, <1>4, <1>5 DEF PacketIsProspective

(* A packet looks back only, whatever runs, of whatever orchestrators, it  *)
(* is made of (PacketAssembler.assemble, uniqueSorted), and its predictions*)
(* are the latest that were taken in time (predictionSnapshots).           *)
THEOREM PacketIsProspectiveHolds == SyntheticSpec => []PacketIsProspective
<1>1. SyntheticInit => PacketIsProspective
  BY DEF SyntheticInit, PacketIsProspective
<1>2. SyntheticInv /\ PacketIsProspective /\ [SyntheticNext]_syntheticVars => PacketIsProspective'
  <2> SUFFICES ASSUME SyntheticInv, PacketIsProspective, [SyntheticNext]_syntheticVars
               PROVE  PacketIsProspective'
    OBVIOUS
  <2>1. CASE \E stage \in Stages, R \in SUBSET DOMAIN results,
                decided \in BOOLEAN, inputs \in SUBSET PredictionInputs :
               Assemble(stage, R, decided, inputs)
    BY <2>1, AssembleIsProspective
  <2>2. CASE packets' = packets
    BY <2>2 DEF PacketIsProspective
  <2> QED BY <2>1, <2>2 DEF SyntheticNext, syntheticVars, BeginRun, Limited, Fail, Answer, Finish
<1> QED BY <1>1, <1>2, SyntheticInvHolds, PTL DEF SyntheticSpec

-----------------------------------------------------------------------------
(* What was written, read by the contract in Python.                       *)

FiniteInv ==
  /\ Capturing => IsFiniteSet(Held(run))
  /\ \A i \in DOMAIN results : IsFiniteSet(Held(results[i]))

LEMMA ClosingFinite ==
  ASSUME FiniteInv, NEW item, NEW accepted, NEW gaveUp, Closing(item, accepted, gaveUp)
  PROVE  FiniteInv'
<1>1. /\ Capturing /\ results' = results /\ IsFiniteSet(accepted)
      /\ Held(run') = Held(run) \union accepted
  BY DEF Closing, Closed, Held
<1>2. IsFiniteSet(Held(run) \union accepted)
  BY <1>1, FS_Union DEF FiniteInv
<1> QED BY <1>1, <1>2 DEF FiniteInv, Held

LEMMA FiniteStep ==
  ASSUME SyntheticInv, FiniteInv, [SyntheticNext]_syntheticVars
  PROVE  FiniteInv'
<1>1. ASSUME NEW p \in Providers, NEW stage \in Stages,
             NEW known \in {{}} \union {results[i].fixtures : i \in DOMAIN results},
             BeginRun(p, stage, known)
      PROVE  FiniteInv'
  <2>1. run'.fixtures = known /\ run'.data = {}
    BY <1>1, BegunRun DEF SyntheticInv
  <2>2. IsFiniteSet(known)
    <3>1. CASE known = {}
      BY <3>1, FS_EmptySet
    <3>2. ASSUME NEW i \in DOMAIN results, known = results[i].fixtures
          PROVE  IsFiniteSet(known)
      <4>1. IsFiniteSet(Held(results[i])) /\ known \subseteq Held(results[i])
        BY <3>2 DEF FiniteInv, Held
      <4> QED BY <4>1, FS_Subset
    <3> QED BY <3>1, <3>2
  <2>3. Held(run') = known
    BY <2>1 DEF Held
  <2> QED BY <1>1, <2>2, <2>3 DEF FiniteInv, Held, BeginRun
<1>2. ASSUME NEW item \in Items, Limited(item)
      PROVE  FiniteInv'
  <2>1. Closing(item, {}, TRUE)
    BY <1>2, LimitedCloses DEF SyntheticInv
  <2> QED BY <2>1, ClosingFinite
<1>3. ASSUME NEW item \in Items, NEW retryable \in BOOLEAN, Fail(item, retryable)
      PROVE  FiniteInv'
  <2>1. Retrying \/ Closing(item, {}, TRUE)
    BY <1>3, FailCloses DEF SyntheticInv
  <2>2. ASSUME Retrying PROVE FiniteInv'
    BY <2>2 DEF Retrying, FiniteInv, Held, Capturing
  <2> QED BY <2>1, <2>2, ClosingFinite
<1>4. ASSUME NEW item \in Items, NEW answer \in AnswersTo[item], Answer(item, answer)
      PROVE  FiniteInv'
  <2>1. PICK accepted, gaveUp : Closing(item, accepted, gaveUp)
    BY <1>4, AnswerCloses DEF SyntheticInv
  <2> QED BY <2>1, ClosingFinite
<1>5. CASE Finish
  <2>1. PICK n \in Nat :
          /\ DOMAIN results = 1..n /\ DOMAIN results' = 1..(n + 1)
          /\ \A i \in 1..n : results'[i] = results[i]
          /\ results'[n + 1].fixtures = run.fixtures /\ results'[n + 1].data = run.data
    BY <1>5, FinishedResults DEF SyntheticInv
  <2>2. Capturing /\ ~Capturing'
    BY <1>5 DEF Finish, Capturing, Off
  <2>3. ASSUME NEW i \in DOMAIN results'
        PROVE  IsFiniteSet(Held(results'[i]))
    <3>1. CASE i \in 1..n
      BY <2>1, <3>1 DEF FiniteInv
    <3>2. CASE i = n + 1
      <4>1. Held(results'[i]) = Held(run)
        BY <2>1, <3>2 DEF Held
      <4> QED BY <2>2, <4>1 DEF FiniteInv
    <3> QED BY <2>1, <3>1, <3>2
  <2> QED BY <2>2, <2>3 DEF FiniteInv, Held
<1>6. CASE UNCHANGED <<run, results>>
  BY <1>6 DEF FiniteInv, Held, Capturing
<1> QED BY <1>1, <1>2, <1>3, <1>4, <1>5, <1>6 DEF SyntheticNext, syntheticVars, Assemble

LEMMA ContentsAreFinite ==
  ASSUME SyntheticTypes, FiniteInv, NEW R \in SUBSET DOMAIN results
  PROVE  IsFiniteSet(Contents(R))
<1> DEFINE f == [i \in R |-> Held(results[i])]
           T == {f[i] : i \in R}
<1>1. IsFiniteSet(DOMAIN results)
  <2>1. Len(results) \in Nat /\ DOMAIN results = 1..Len(results)
    BY DEF SyntheticTypes
  <2> QED BY <2>1, FirstAreFinite
<1>2. IsFiniteSet(R)
  BY <1>1, FS_Subset
<1>3. \A i \in R : f[i] = Held(results[i])
  OBVIOUS
<1>4. DOMAIN f = R /\ f = [i \in R |-> f[i]]
  OBVIOUS
<1> HIDE DEF f
<1>5. IsFiniteSet(T)
  BY <1>2, <1>4, FiniteImage
<1>6. \A t \in T : IsFiniteSet(t)
  BY <1>3 DEF FiniteInv
<1>7. Contents(R) = UNION T
  BY <1>3 DEF Contents, Held
<1> HIDE DEF T
<1>8. IsFiniteSet(UNION T)
  BY <1>5, <1>6, FS_UNION
<1> QED BY <1>7, <1>8

(* A packet is finite and of the five kinds, its manifest gives each of    *)
(* its references the hash of an evidence that is in the store, and all it *)
(* holds of a fixture passes the tests against that fixture, which it has. *)
PacketInv ==
  \A p \in packets :
    /\ IsFiniteSet(p.observations)
    /\ DOMAIN p.manifest = References(p.observations)
    /\ \A o \in p.observations :
         /\ o.draft \in Drafts
         /\ \E r \in store : r.reference = o.reference /\ r.sha = p.manifest[o.reference]
         /\ o.draft.kind \in {"FIXTURES", "FOREBET", "ODDS", "CLOSING", "OUTCOMES"}
         /\ o.draft.kind # "FIXTURES" =>
              \E x \in p.observations :
                x.draft.kind = "FIXTURES" /\ x.draft.fixture = o.draft.fixture
    /\ \A o, x \in p.observations :
         o.draft.kind # "FIXTURES" /\ x.draft.kind = "FIXTURES" /\ x.draft.fixture = o.draft.fixture
           => Acceptable(o.draft, x.draft.kickoff)

LEMMA AssembledPacket ==
  ASSUME SyntheticInv, FiniteInv, PacketInv, NEW stage \in Stages,
         NEW R \in SUBSET DOMAIN results,
         NEW decided \in BOOLEAN, NEW inputs \in SUBSET PredictionInputs,
         Assemble(stage, R, decided, inputs)
  PROVE  PacketInv'
<1> DEFINE packet == Packet(store, stage, Contents(R), decided, inputs)
<1>1. packets' = packets \union {packet} /\ store' = store
  BY DEF Assemble
<1>2. ~Contradictory(Contents(R))
  BY DEF Assemble, Assemblable
<1>3. /\ packet.observations = Contents(R)
      /\ packet.manifest = [reference \in References(Contents(R)) |->
                              FindByReference(store, reference).sha]
  BY DEF Packet, Manifest
<1> HIDE DEF packet
<1>4. IsFiniteSet(packet.observations) /\ DOMAIN packet.manifest = References(packet.observations)
  BY <1>3, ContentsAreFinite DEF SyntheticInv
<1>5. ASSUME NEW o \in Contents(R)
      PROVE  /\ \E i \in R : \/ o \in results[i].fixtures /\ o.draft.kind = "FIXTURES"
                             \/ o \in results[i].data /\ o.draft.kind # "FIXTURES"
             /\ o.draft \in Drafts
             /\ Bound(o)
  <2>1. PICK i \in R : o \in Held(results[i])
    BY DEF Contents, Held
  <2>2. SoundRun(results[i]) /\ Bound(o)
    BY <2>1 DEF SyntheticInv, SoundInv, BoundInv
  <2>3. o \in Observables
    <3>1. results[i] \in Runs
      BY DEF SyntheticInv, SyntheticTypes
    <3> QED BY <2>1, <3>1 DEF Held, Runs
  <2>4. o.draft \in Drafts
    BY <2>3 DEF Observables
  <2> QED BY <2>1, <2>2, <2>4 DEF Held, SoundRun
<1>6. ASSUME NEW o \in Contents(R)
      PROVE  /\ \E r \in store : r.reference = o.reference /\ r.sha = packet.manifest[o.reference]
             /\ o.draft.kind \in {"FIXTURES", "FOREBET", "ODDS", "CLOSING", "OUTCOMES"}
             /\ o.draft.kind # "FIXTURES" =>
                  \E x \in Contents(R) :
                    x.draft.kind = "FIXTURES" /\ x.draft.fixture = o.draft.fixture
  <2>1. \E r \in store : r.reference = o.reference /\ r.sha = packet.manifest[o.reference]
    <3> DEFINE found == {r \in store : r.reference = o.reference}
    <3>1. found # {}
      BY <1>5 DEF Bound
    <3>2. FindByReference(store, o.reference) \in found
      BY <3>1 DEF FindByReference
    <3>3. packet.manifest[o.reference] = FindByReference(store, o.reference).sha
      BY <1>3 DEF References
    <3> QED BY <3>2, <3>3
  <2>2. PICK i \in R : \/ o \in results[i].fixtures /\ o.draft.kind = "FIXTURES"
                       \/ o \in results[i].data /\ o.draft.kind # "FIXTURES"
    BY <1>5
  <2>3. SoundRun(results[i])
    BY DEF SyntheticInv, SoundInv
  <2>4. CASE o \in results[i].data /\ o.draft.kind # "FIXTURES"
    <3>1. /\ o.draft.kind \in {"FOREBET", "ODDS", "CLOSING", "OUTCOMES"}
          /\ o.draft.fixture \in Universe(results[i].fixtures)
      BY <2>3, <2>4 DEF SoundRun
    <3>2. PICK x \in results[i].fixtures : x.draft.fixture = o.draft.fixture
      BY <3>1 DEF Universe
    <3>3. x \in Contents(R) /\ x.draft.kind = "FIXTURES"
      BY <2>3 DEF Contents, SoundRun
    <3> QED BY <2>1, <3>1, <3>2, <3>3
  <2> QED BY <2>1, <2>2, <2>4
<1>7. ASSUME NEW o \in Contents(R), NEW x \in Contents(R), o.draft.kind # "FIXTURES",
             x.draft.kind = "FIXTURES", x.draft.fixture = o.draft.fixture
      PROVE  Acceptable(o.draft, x.draft.kickoff)
  <2>1. PICK i \in R : o \in results[i].data
    BY <1>5, <1>7
  <2>2. SoundRun(results[i]) /\ SoundInv
    BY DEF SyntheticInv, SoundInv
  <2>3. KickoffOf(results[i].fixtures, o.draft.fixture) = x.draft.kickoff
    BY <1>2, <1>7, <2>1, <2>2, OneKickoff
  <2> QED BY <2>1, <2>2, <2>3 DEF SoundRun
<1>8. ASSUME NEW p \in packets'
      PROVE  /\ IsFiniteSet(p.observations)
             /\ DOMAIN p.manifest = References(p.observations)
             /\ \A o \in p.observations :
                  /\ o.draft \in Drafts
                  /\ \E r \in store : r.reference = o.reference /\ r.sha = p.manifest[o.reference]
                  /\ o.draft.kind \in {"FIXTURES", "FOREBET", "ODDS", "CLOSING", "OUTCOMES"}
                  /\ o.draft.kind # "FIXTURES" =>
                       \E x \in p.observations :
                         x.draft.kind = "FIXTURES" /\ x.draft.fixture = o.draft.fixture
             /\ \A o, x \in p.observations :
                  o.draft.kind # "FIXTURES" /\ x.draft.kind = "FIXTURES"
                    /\ x.draft.fixture = o.draft.fixture
                    => Acceptable(o.draft, x.draft.kickoff)
  <2>1. CASE p \in packets
    BY <2>1 DEF PacketInv
  <2>2. CASE p = packet
    BY <1>3, <1>4, <1>5, <1>6, <1>7, <2>2
  <2> QED BY <1>1, <2>1, <2>2
<1> QED BY <1>1, <1>8 DEF PacketInv

LEMMA PacketStep ==
  ASSUME SyntheticInv, FiniteInv, PacketInv, [SyntheticNext]_syntheticVars
  PROVE  PacketInv'
<1>1. CASE \E stage \in Stages, R \in SUBSET DOMAIN results,
              decided \in BOOLEAN, inputs \in SUBSET PredictionInputs :
             Assemble(stage, R, decided, inputs)
  BY <1>1, AssembledPacket
<1>2. CASE packets' = packets /\ store \subseteq store'
  BY <1>2 DEF PacketInv
<1> QED BY <1>1, <1>2
        DEF SyntheticNext, syntheticVars, BeginRun, Limited, Fail, Answer, Finish

LEMMA PacketInvHolds == SyntheticSpec => []PacketInv
<1>1. SyntheticInit => FiniteInv /\ PacketInv
  BY DEF SyntheticInit, FiniteInv, PacketInv, Capturing, Off
<1>2. SyntheticInv /\ FiniteInv /\ PacketInv /\ [SyntheticNext]_syntheticVars
        => FiniteInv' /\ PacketInv'
  BY FiniteStep, PacketStep
<1> QED BY <1>1, <1>2, SyntheticInvHolds, PTL DEF SyntheticSpec

(* A finite set in some order: each of its members once.                   *)
LEMMA SequenceOfSet ==
  ASSUME NEW S, IsFiniteSet(S)
  PROVE  /\ DOMAIN SetToSeq(S) \subseteq Nat
         /\ \A i \in DOMAIN SetToSeq(S) : SetToSeq(S)[i] \in S
         /\ \A x \in S : \E i \in DOMAIN SetToSeq(S) : SetToSeq(S)[i] = x
<1> DEFINE n == Cardinality(S)
           s == SetToSeq(S)
<1>1. n \in Nat /\ ExistsBijection(1..n, S)
  BY FS_CardinalityType
<1>2. PICK f \in [1..n -> S] : IsInjective(f)
  BY <1>1 DEF ExistsBijection, Bijection, Injection
<1>3. s \in [1..n -> S] /\ IsInjective(s)
  BY <1>2 DEF SetToSeq
<1> HIDE DEF s
<1>4. s \in Injection(1..n, S)
  BY <1>3 DEF Injection
<1>5. IsFiniteSet(1..n) /\ Cardinality(1..n) = n
  BY <1>1, FS_Interval
<1>6. s \in Surjection(1..n, S)
  BY <1>4, <1>5, FS_Injection
<1> QED BY <1>1, <1>3, <1>6 DEF Surjection, s

LEMMA KindOfPacket ==
  ASSUME PacketInv, NEW p \in packets, NEW kind
  PROVE  LET order == SetToSeq(OfKind(p.observations, kind))
         IN  /\ DOMAIN order \subseteq Nat
             /\ \A i \in DOMAIN order : order[i] \in OfKind(p.observations, kind)
             /\ \A o \in OfKind(p.observations, kind) : \E i \in DOMAIN order : order[i] = o
<1>1. OfKind(p.observations, kind) \subseteq p.observations
  BY DEF OfKind
<1>2. IsFiniteSet(OfKind(p.observations, kind))
  BY <1>1, FS_Subset DEF PacketInv
<1> HIDE DEF OfKind
<1> QED BY <1>2, SequenceOfSet

(* The records of a written packet are those of its observations.          *)
LEMMA WrittenRecords ==
  ASSUME PacketInv, NEW p \in packets
  PROVE  LET w == Written(p)
         IN  /\ Contract!Range(w.fixtures) = {AsFixture(o) : o \in OfKind(p.observations, "FIXTURES")}
             /\ Contract!Range(w.forebets) = {AsForebet(o) : o \in OfKind(p.observations, "FOREBET")}
             /\ Contract!Range(w.odds) = {AsQuote(o) : o \in OfKind(p.observations, "ODDS")}
             /\ Contract!Range(w.closings) = {AsClosing(o) : o \in OfKind(p.observations, "CLOSING")}
             /\ Contract!Range(w.outcomes) = {AsOutcome(o) : o \in OfKind(p.observations, "OUTCOMES")}
<1> DEFINE order(kind) == SetToSeq(OfKind(p.observations, kind))
<1>1. ASSUME NEW kind
      PROVE  /\ \A i \in DOMAIN order(kind) : order(kind)[i] \in OfKind(p.observations, kind)
             /\ \A o \in OfKind(p.observations, kind) :
                  \E i \in DOMAIN order(kind) : order(kind)[i] = o
  BY KindOfPacket
<1>2. /\ Written(p).fixtures = [i \in DOMAIN order("FIXTURES") |-> AsFixture(order("FIXTURES")[i])]
      /\ Written(p).forebets = [i \in DOMAIN order("FOREBET") |-> AsForebet(order("FOREBET")[i])]
      /\ Written(p).odds = [i \in DOMAIN order("ODDS") |-> AsQuote(order("ODDS")[i])]
      /\ Written(p).closings = [i \in DOMAIN order("CLOSING") |-> AsClosing(order("CLOSING")[i])]
      /\ Written(p).outcomes = [i \in DOMAIN order("OUTCOMES") |-> AsOutcome(order("OUTCOMES")[i])]
  BY DEF Written, Sequenced
<1> HIDE DEF order
<1>3. Contract!Range(Written(p).fixtures) = {AsFixture(o) : o \in OfKind(p.observations, "FIXTURES")}
  BY <1>1, <1>2 DEF Contract!Range
<1>4. Contract!Range(Written(p).forebets) = {AsForebet(o) : o \in OfKind(p.observations, "FOREBET")}
  BY <1>1, <1>2 DEF Contract!Range
<1>5. Contract!Range(Written(p).odds) = {AsQuote(o) : o \in OfKind(p.observations, "ODDS")}
  BY <1>1, <1>2 DEF Contract!Range
<1>6. Contract!Range(Written(p).closings) = {AsClosing(o) : o \in OfKind(p.observations, "CLOSING")}
  BY <1>1, <1>2 DEF Contract!Range
<1>7. Contract!Range(Written(p).outcomes) = {AsOutcome(o) : o \in OfKind(p.observations, "OUTCOMES")}
  BY <1>1, <1>2 DEF Contract!Range
<1> QED BY <1>3, <1>4, <1>5, <1>6, <1>7

(* The fixtures the contract finds for a record that is not one are there, *)
(* have a kickoff, and the record passes the capture's test against each.  *)
LEMMA FixturesFound ==
  ASSUME PacketInv, NEW p \in packets, NEW o \in p.observations, o.draft.kind # "FIXTURES"
  PROVE  LET found == Contract!FixturesOf(Written(p), o.draft.fixture)
         IN  /\ found # {}
             /\ \A f \in found : f.kickoff \in Int /\ Acceptable(o.draft, f.kickoff)
<1> DEFINE found == Contract!FixturesOf(Written(p), o.draft.fixture)
<1>1. Contract!Range(Written(p).fixtures) = {AsFixture(x) : x \in OfKind(p.observations, "FIXTURES")}
  BY WrittenRecords
<1>2. found = {f \in Contract!Range(Written(p).fixtures) : f.id = o.draft.fixture}
  BY DEF Contract!FixturesOf
<1> HIDE DEF found
<1>3. PICK y \in p.observations : y.draft.kind = "FIXTURES" /\ y.draft.fixture = o.draft.fixture
  BY DEF PacketInv
<1>4. AsFixture(y) \in found
  BY <1>1, <1>2, <1>3 DEF OfKind, AsFixture
<1>5. ASSUME NEW f \in found
      PROVE  f.kickoff \in Int /\ Acceptable(o.draft, f.kickoff)
  <2>1. PICK x \in OfKind(p.observations, "FIXTURES") : f = AsFixture(x)
    BY <1>1, <1>2
  <2>2. /\ x \in p.observations /\ x.draft.kind = "FIXTURES"
        /\ x.draft.fixture = o.draft.fixture /\ f.kickoff = x.draft.kickoff
    BY <1>2, <2>1 DEF OfKind, AsFixture
  <2>3. x.draft.kickoff \in Int
    <3>1. x.draft \in Drafts
      BY <2>2 DEF PacketInv
    <3>2. PICK item \in Items : \E answer \in AnswersTo[item] : x.draft \in Range(answer.drafts)
      BY <3>1 DEF Drafts, Bodies, Answers
    <3> QED BY <2>2, <3>2, ProviderAssumption
  <2> QED BY <2>2, <2>3 DEF PacketInv
<1> QED BY <1>4, <1>5 DEF found

(* What the capture lets through, the contract finds in time.              *)
LEMMA FoundPrior ==
  ASSUME PacketInv, NEW p \in packets, NEW o \in p.observations,
         o.draft.kind \in {"FOREBET", "ODDS", "CLOSING"}
  PROVE  Contract!PriorToKickoff(Written(p), o.draft.fixture, o.draft.at)
<1>1. PICK f \in Contract!FixturesOf(Written(p), o.draft.fixture) :
        f.kickoff \in Int /\ Acceptable(o.draft, f.kickoff)
  BY FixturesFound
<1>2. o.draft.at < f.kickoff
  BY <1>1, AcceptableInTime
<1>3. f.kickoff # Absent
  BY <1>1, AbsentAssumption
<1> QED BY <1>2, <1>3 DEF Contract!PriorToKickoff

LEMMA FoundForebets ==
  ASSUME PacketInv, NEW p \in packets
  PROVE  Contract!ForebetsPrior(Written(p))
<1>1. Contract!Range(Written(p).forebets) = {AsForebet(o) : o \in OfKind(p.observations, "FOREBET")}
  BY WrittenRecords
<1>2. ASSUME NEW o \in OfKind(p.observations, "FOREBET")
      PROVE  Contract!PriorToKickoff(Written(p), AsForebet(o).fixture, AsForebet(o).at)
  BY FoundPrior DEF OfKind, AsForebet
<1> QED BY <1>1, <1>2 DEF Contract!ForebetsPrior

LEMMA UniverseOffers ==
  ASSUME NEW p, NEW q, q.bookmaker = 1, q.market = "DOUBLE_CHANCE"
  PROVE  Contract!Offered(Written(p), q)
<1>1. /\ Written(p).universe.bookmakers = <<1>>
      /\ Written(p).universe.markets = <<"DOUBLE_CHANCE">>
  BY DEF Written, AsUniverse
<1>2. 1 \in Contract!Range(<<1>>) /\ "DOUBLE_CHANCE" \in Contract!Range(<<"DOUBLE_CHANCE">>)
  BY DEF Contract!Range
<1> QED BY <1>1, <1>2 DEF Contract!Offered

LEMMA FoundQuotes ==
  ASSUME PacketInv, NEW p \in packets
  PROVE  Contract!QuotesPrior(Written(p))
<1>1. Contract!Range(Written(p).odds) = {AsQuote(o) : o \in OfKind(p.observations, "ODDS")}
  BY WrittenRecords
<1>2. ASSUME NEW o \in OfKind(p.observations, "ODDS")
      PROVE  /\ Contract!Offered(Written(p), AsQuote(o))
             /\ Contract!PriorToKickoff(Written(p), AsQuote(o).fixture, AsQuote(o).at)
  <2>1. Contract!Offered(Written(p), AsQuote(o))
    BY UniverseOffers DEF AsQuote
  <2> QED BY <2>1, FoundPrior DEF OfKind, AsQuote
<1> QED BY <1>1, <1>2 DEF Contract!QuotesPrior

LEMMA FoundClosings ==
  ASSUME PacketInv, NEW p \in packets
  PROVE  Contract!ClosingsTimed(Written(p))
<1>1. Contract!Range(Written(p).closings) = {AsClosing(o) : o \in OfKind(p.observations, "CLOSING")}
  BY WrittenRecords
<1>2. ASSUME NEW o \in OfKind(p.observations, "CLOSING")
      PROVE  LET c == AsClosing(o)
             IN  /\ Contract!Offered(Written(p), c)
                 /\ Contract!PriorToKickoff(Written(p), c.fixture, c.at)
                 /\ \A f \in Contract!FixturesOf(Written(p), c.fixture) :
                      Contract!Distance(f.kickoff - c.at, c.lead) <= 1
  <2>1. o \in p.observations /\ o.draft.kind = "CLOSING"
    BY DEF OfKind
  <2>2. /\ AsClosing(o).fixture = o.draft.fixture /\ AsClosing(o).at = o.draft.at
        /\ AsClosing(o).lead = o.draft.lead
    BY DEF AsClosing
  <2>3. Contract!Offered(Written(p), AsClosing(o))
    BY UniverseOffers DEF AsClosing
  <2>4. Contract!PriorToKickoff(Written(p), o.draft.fixture, o.draft.at)
    BY <2>1, FoundPrior
  <2>5. o.draft.at \in Int
    <3>1. o.draft \in Drafts
      BY <2>1 DEF PacketInv
    <3> QED BY <3>1, ProviderAssumption DEF Drafts, Bodies, Answers
  <2>6. ASSUME NEW f \in Contract!FixturesOf(Written(p), o.draft.fixture)
        PROVE  Contract!Distance(f.kickoff - o.draft.at, o.draft.lead) <= 1
    <3>1. f.kickoff \in Int /\ Acceptable(o.draft, f.kickoff)
      BY <2>1, FixturesFound
    <3>2. f.kickoff - o.draft.at = o.draft.lead
      BY <2>1, <3>1 DEF Acceptable
    <3> QED BY <2>5, <3>1, <3>2 DEF Contract!Distance
  <2> QED BY <2>2, <2>3, <2>4, <2>6
<1> QED BY <1>1, <1>2 DEF Contract!ClosingsTimed

LEMMA FoundOutcomes ==
  ASSUME PacketInv, NEW p \in packets
  PROVE  Contract!OutcomesLater(Written(p))
<1>1. Contract!Range(Written(p).outcomes) = {AsOutcome(o) : o \in OfKind(p.observations, "OUTCOMES")}
  BY WrittenRecords
<1>2. ASSUME NEW o \in OfKind(p.observations, "OUTCOMES")
      PROVE  \E f \in Contract!FixturesOf(Written(p), AsOutcome(o).fixture) :
               f.kickoff # Absent /\ AsOutcome(o).at > f.kickoff
  <2>1. o \in p.observations /\ o.draft.kind = "OUTCOMES"
    BY DEF OfKind
  <2>2. AsOutcome(o).fixture = o.draft.fixture /\ AsOutcome(o).at = o.draft.at
    BY DEF AsOutcome
  <2>3. PICK f \in Contract!FixturesOf(Written(p), o.draft.fixture) :
          f.kickoff \in Int /\ Acceptable(o.draft, f.kickoff)
    BY <2>1, FixturesFound
  <2>4. o.draft.at > f.kickoff
    BY <2>1, <2>3, AcceptableInTime
  <2>5. f.kickoff # Absent
    BY <2>3, AbsentAssumption
  <2> QED BY <2>2, <2>3, <2>4, <2>5
<1> QED BY <1>1, <1>2 DEF Contract!OutcomesLater

(* The manifest of a written packet is that of the packet.                 *)
LEMMA WrittenManifest ==
  ASSUME PacketInv, NEW p \in packets
  PROVE  Contract!Range(Written(p).manifest)
           = {[reference |-> reference, hash |-> p.manifest[reference], at |-> 0] :
                reference \in References(p.observations)}
<1> DEFINE f == [o \in p.observations |-> o.reference]
<1>1. References(p.observations) = {f[o] : o \in p.observations}
  BY DEF References
<1>2. DOMAIN f = p.observations /\ f = [o \in p.observations |-> f[o]]
  OBVIOUS
<1> HIDE DEF f
<1>3. IsFiniteSet(References(p.observations))
  BY <1>1, <1>2, FiniteImage DEF PacketInv
<1> DEFINE order == SetToSeq(DOMAIN p.manifest)
<1>4. DOMAIN p.manifest = References(p.observations)
  BY DEF PacketInv
<1>5. /\ \A i \in DOMAIN order : order[i] \in References(p.observations)
      /\ \A x \in References(p.observations) : \E i \in DOMAIN order : order[i] = x
  BY <1>3, <1>4, SequenceOfSet
<1>6. Written(p).manifest =
        [i \in DOMAIN order |-> [reference |-> order[i], hash |-> p.manifest[order[i]], at |-> 0]]
  BY DEF Written
<1> HIDE DEF order
<1> QED BY <1>5, <1>6 DEF Contract!Range

(* The contract finds each record's hash under its reference if and only   *)
(* if no reference of the packet was captured twice with other content.    *)
LEMMA MatchesUnlessRebound ==
  ASSUME PacketInv, NEW p \in packets
  PROVE  Contract!EvidenceMatches(Written(p)) <=> ~Rebound(p)
<1> DEFINE w == Written(p)
           Named(r) == \E item \in Contract!Range(w.manifest) :
                         item.reference = r.reference /\ item.hash = r.hash
<1>1. /\ Contract!Range(w.fixtures) = {AsFixture(o) : o \in OfKind(p.observations, "FIXTURES")}
      /\ Contract!Range(w.forebets) = {AsForebet(o) : o \in OfKind(p.observations, "FOREBET")}
      /\ Contract!Range(w.odds) = {AsQuote(o) : o \in OfKind(p.observations, "ODDS")}
      /\ Contract!Range(w.closings) = {AsClosing(o) : o \in OfKind(p.observations, "CLOSING")}
      /\ Contract!Range(w.outcomes) = {AsOutcome(o) : o \in OfKind(p.observations, "OUTCOMES")}
  BY WrittenRecords
<1>2. Contract!Range(w.manifest)
        = {[reference |-> reference, hash |-> p.manifest[reference], at |-> 0] :
             reference \in References(p.observations)}
  BY WrittenManifest
<1> HIDE DEF w
<1>3. Contract!EvidenceMatches(w) <=>
        /\ \A r \in Contract!Range(w.fixtures) : Named(r)
        /\ \A r \in Contract!Range(w.forebets) : Named(r)
        /\ \A r \in Contract!Range(w.odds) : Named(r)
        /\ \A r \in Contract!Range(w.closings) : Named(r)
        /\ \A r \in Contract!Range(w.outcomes) : Named(r)
  BY DEF Contract!EvidenceMatches, Contract!Evidenced
<1>4. ASSUME NEW o \in p.observations, NEW r, r.reference = o.reference, r.hash = o.hash
      PROVE  Named(r) <=> p.manifest[o.reference] = o.hash
  <2>1. o.reference \in References(p.observations)
    BY DEF References
  <2> DEFINE item == [reference |-> o.reference, hash |-> p.manifest[o.reference], at |-> 0]
  <2>2. item \in Contract!Range(w.manifest)
    BY <1>2, <2>1
  <2>3. item.reference = o.reference /\ item.hash = p.manifest[o.reference]
    OBVIOUS
  <2>4. \A other \in Contract!Range(w.manifest) :
          other.reference = o.reference => other.hash = p.manifest[o.reference]
    BY <1>2
  <2> HIDE DEF item
  <2> QED BY <1>4, <2>2, <2>3, <2>4
<1> HIDE DEF Named
<1>5. ASSUME NEW o \in p.observations
      PROVE  LET same == p.manifest[o.reference] = o.hash
             IN  /\ Named(AsFixture(o)) <=> same
                 /\ Named(AsForebet(o)) <=> same
                 /\ Named(AsQuote(o)) <=> same
                 /\ Named(AsClosing(o)) <=> same
                 /\ Named(AsOutcome(o)) <=> same
  <2>1. AsFixture(o).reference = o.reference /\ AsFixture(o).hash = o.hash
    BY DEF AsFixture
  <2>2. AsForebet(o).reference = o.reference /\ AsForebet(o).hash = o.hash
    BY DEF AsForebet
  <2>3. AsQuote(o).reference = o.reference /\ AsQuote(o).hash = o.hash
    BY DEF AsQuote
  <2>4. AsClosing(o).reference = o.reference /\ AsClosing(o).hash = o.hash
    BY DEF AsClosing
  <2>5. AsOutcome(o).reference = o.reference /\ AsOutcome(o).hash = o.hash
    BY DEF AsOutcome
  <2> QED BY <1>4, <2>1, <2>2, <2>3, <2>4, <2>5
<1>6. \A o \in p.observations :
        o.draft.kind \in {"FIXTURES", "FOREBET", "ODDS", "CLOSING", "OUTCOMES"}
  BY DEF PacketInv
<1>7. ASSUME Contract!EvidenceMatches(w), NEW o \in p.observations
      PROVE  p.manifest[o.reference] = o.hash
  <2>1. CASE o.draft.kind = "FIXTURES"
    BY <1>1, <1>3, <1>5, <1>7, <2>1 DEF OfKind
  <2>2. CASE o.draft.kind = "FOREBET"
    BY <1>1, <1>3, <1>5, <1>7, <2>2 DEF OfKind
  <2>3. CASE o.draft.kind = "ODDS"
    BY <1>1, <1>3, <1>5, <1>7, <2>3 DEF OfKind
  <2>4. CASE o.draft.kind = "CLOSING"
    BY <1>1, <1>3, <1>5, <1>7, <2>4 DEF OfKind
  <2>5. CASE o.draft.kind = "OUTCOMES"
    BY <1>1, <1>3, <1>5, <1>7, <2>5 DEF OfKind
  <2> QED BY <1>6, <2>1, <2>2, <2>3, <2>4, <2>5
<1>8. ASSUME ~Rebound(p)
      PROVE  Contract!EvidenceMatches(w)
  <2>1. \A o \in p.observations : p.manifest[o.reference] = o.hash
    BY <1>8 DEF Rebound
  <2>2. \A kind : OfKind(p.observations, kind) \subseteq p.observations
    BY DEF OfKind
  <2> QED BY <1>1, <1>3, <1>5, <2>1, <2>2
<1> QED BY <1>7, <1>8 DEF Rebound, w

(* The outcomes of a packet whose versions follow are chains of            *)
(* corrections: one first outcome of each fixture, and no version is       *)
(* superseded twice or by one of an earlier time.                          *)
LEMMA FollowingIsVersioned ==
  ASSUME PacketInv, NEW p \in packets, Contract!VersionsFollow(Written(p).outcomes)
  PROVE  ~Unversioned(p)
<1> DEFINE outcomes == OfKind(p.observations, "OUTCOMES")
           order == SetToSeq(outcomes)
           s == Written(p).outcomes
<1>1. /\ DOMAIN order \subseteq Nat
      /\ \A i \in DOMAIN order : order[i] \in outcomes
      /\ \A o \in outcomes : \E i \in DOMAIN order : order[i] = o
  BY KindOfPacket
<1>2. s = [i \in DOMAIN order |-> AsOutcome(order[i])]
  BY DEF Written, Sequenced
<1>3. \A i, j \in DOMAIN order : order[i] # order[j] => i # j
  OBVIOUS
<1>4. \A o \in outcomes :
        /\ o \in p.observations /\ o.draft.kind = "OUTCOMES"
        /\ AsOutcome(o).at = o.draft.at /\ AsOutcome(o).supersedes = o.draft.supersedes
        /\ AsOutcome(o).fixture = o.draft.fixture /\ AsOutcome(o).id = o.draft.id
  BY DEF OfKind, AsOutcome
<1>5. \A o \in outcomes : o.draft.at \in Int
  <2>1. \A o \in outcomes : o.draft \in Drafts
    BY <1>4 DEF PacketInv
  <2> QED BY <2>1, ProviderAssumption DEF Drafts, Bodies, Answers
<1> HIDE DEF order, s
<1>6. DOMAIN s = DOMAIN order /\ \A i \in DOMAIN order : s[i] = AsOutcome(order[i])
  BY <1>2
<1>7. /\ \A i, j \in DOMAIN s :
           Contract!Before(s, i, j) /\ s[i].fixture = s[j].fixture => s[j].supersedes # Absent
      /\ \A j \in DOMAIN s : s[j].supersedes # Absent =>
           \E i \in DOMAIN s :
             s[i].id = s[j].supersedes /\ s[i].fixture = s[j].fixture /\ s[i].at < s[j].at
      /\ \A i, j \in DOMAIN s :
           s[i].supersedes # Absent /\ s[i].supersedes = s[j].supersedes => i = j
  BY DEF Contract!VersionsFollow, s
<1>8. BadCorrections(outcomes) = {}
  <2> SUFFICES ASSUME NEW o \in outcomes, o.draft.supersedes # Absent
               PROVE  \E q \in outcomes :
                        /\ q.draft.kind = "OUTCOMES"
                        /\ q.draft.id = o.draft.supersedes
                        /\ q.draft.fixture = o.draft.fixture
                        /\ q.draft.at < o.draft.at
    BY DEF BadCorrections, OfKind
  <2>1. PICK j \in DOMAIN order : order[j] = o
    BY <1>1
  <2>2. PICK i \in DOMAIN order :
          s[i].id = s[j].supersedes /\ s[i].fixture = s[j].fixture /\ s[i].at < s[j].at
    BY <1>4, <1>6, <1>7, <2>1
  <2> QED BY <1>1, <1>4, <1>6, <2>1, <2>2
<1>9. ASSUME NEW o \in outcomes, NEW q \in outcomes, o # q,
             o.draft.fixture = q.draft.fixture, o.draft.supersedes = q.draft.supersedes
      PROVE  FALSE
  <2>1. PICK i \in DOMAIN order : order[i] = o
    BY <1>1
  <2>2. PICK j \in DOMAIN order : order[j] = q
    BY <1>1
  <2>3. i # j
    BY <1>9, <2>1, <2>2
  <2>4. /\ s[i].at = o.draft.at /\ s[i].fixture = o.draft.fixture
        /\ s[i].supersedes = o.draft.supersedes
        /\ s[j].at = q.draft.at /\ s[j].fixture = q.draft.fixture
        /\ s[j].supersedes = q.draft.supersedes
    BY <1>4, <1>6, <2>1, <2>2
  <2>5. o.draft.supersedes = Absent
    BY <1>6, <1>7, <1>9, <2>3, <2>4
  <2>6. i \in Nat /\ j \in Nat
    BY <1>1
  <2>7. Contract!Before(s, i, j) \/ Contract!Before(s, j, i)
    BY <1>5, <2>3, <2>4, <2>6 DEF Contract!Before
  <2> QED BY <1>6, <1>7, <1>9, <2>4, <2>5, <2>7
<1> QED BY <1>8, <1>9 DEF Unversioned

(* What the contract asks of the times of a packet, and what it asks of    *)
(* its manifest, are asked of every packet that was written.               *)
WrittenInTime ==
  \A p \in packets :
    LET w == Written(p)
    IN  /\ Contract!ForebetsPrior(w) /\ Contract!QuotesPrior(w)
        /\ Contract!ClosingsTimed(w) /\ Contract!OutcomesLater(w)

ManifestResolves ==
  \A p \in packets : \A o \in p.observations :
    \E r \in store : r.reference = o.reference /\ r.sha = p.manifest[o.reference]

MatchesExactlyUnlessRebound ==
  \A p \in packets : Contract!EvidenceMatches(Written(p)) <=> ~Rebound(p)

AcceptedIsFounded ==
  \A p \in packets :
    Contract!ValidatesWithPython(File(p), File(p)) =>
      /\ OfKind(p.observations, "FIXTURES") # {}
      /\ ~Rebound(p) /\ ~Unversioned(p)

(* No packet is refused for its times: what PacketAssembler.assemble puts  *)
(* together of any runs satisfies validate_packet's tests of forebets,     *)
(* quotes, closings and outcomes against the kickoffs the packet gives.    *)
THEOREM WrittenInTimeHolds == SyntheticSpec => []WrittenInTime
<1>1. PacketInv => WrittenInTime
  BY FoundForebets, FoundQuotes, FoundClosings, FoundOutcomes DEF WrittenInTime
<1> QED BY <1>1, PacketInvHolds, PTL

(* Whatever is published after a packet was written, the hash its manifest *)
(* gives for a reference stays that of an evidence in the store.           *)
THEOREM ManifestResolvesHolds == SyntheticSpec => []ManifestResolves
<1>1. PacketInv => ManifestResolves
  BY DEF PacketInv, ManifestResolves
<1> QED BY <1>1, PacketInvHolds, PTL

(* validate_packet's test of the manifest fails exactly for the packets    *)
(* with a reference that was captured twice with other content, which the  *)
(* assembler writes all the same (findBySourceReference takes the first).  *)
THEOREM MatchesExactlyUnlessReboundHolds == SyntheticSpec => []MatchesExactlyUnlessRebound
<1>1. PacketInv => MatchesExactlyUnlessRebound
  BY MatchesUnlessRebound DEF MatchesExactlyUnlessRebound
<1> QED BY <1>1, PacketInvHolds, PTL

(* Half of PacketIsAccepted: the Python contract lets no written packet    *)
(* through that has no fixture, whose manifest is not that of its records, *)
(* or whose outcomes are not a chain of corrections.                       *)
THEOREM AcceptedIsFoundedHolds == SyntheticSpec => []AcceptedIsFounded
<1>1. PacketInv => AcceptedIsFounded
  <2> SUFFICES ASSUME PacketInv, NEW p \in packets,
                      Contract!ValidatesWithPython(File(p), File(p))
               PROVE  /\ OfKind(p.observations, "FIXTURES") # {}
                      /\ ~Rebound(p) /\ ~Unversioned(p)
    BY DEF AcceptedIsFounded
  <2>1. Contract!Accepted(Written(p))
    BY DEF Contract!ValidatesWithPython, Contract!Validated, File
  <2>2. ~Rebound(p)
    BY <2>1, MatchesUnlessRebound DEF Contract!Accepted
  <2>3. ~Unversioned(p)
    BY <2>1, FollowingIsVersioned DEF Contract!Accepted, Contract!OutcomesVersioned
  <2>4. OfKind(p.observations, "FIXTURES") # {}
    <3>1. Written(p).fixtures # <<>>
      BY <2>1 DEF Contract!Accepted, Contract!RecordsSound
    <3> DEFINE order == SetToSeq(OfKind(p.observations, "FIXTURES"))
    <3>2. Written(p).fixtures = [i \in DOMAIN order |-> AsFixture(order[i])]
      BY DEF Written, Sequenced
    <3>3. \A i \in DOMAIN order : order[i] \in OfKind(p.observations, "FIXTURES")
      BY KindOfPacket
    <3> HIDE DEF order
    <3>4. DOMAIN order # {}
      <4>1. DOMAIN order = {} => Written(p).fixtures = <<>>
        BY <3>2
      <4> QED BY <3>1, <4>1
    <3> QED BY <3>3, <3>4
  <2> QED BY <2>2, <2>3, <2>4
<1> QED BY <1>1, PacketInvHolds, PTL
=============================================================================
