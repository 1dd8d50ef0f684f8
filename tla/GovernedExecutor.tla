--------------------------- MODULE GovernedExecutor ---------------------------
(***************************************************************************)
(* GovernedRequestExecutor.execute() with the RequestBudget and the        *)
(* RunCircuitBreaker its calls share.  A call is one activation of         *)
(* execute().  The event loop runs a call without interruption between its *)
(* awaits, so one action is the code from one await to the next:           *)
(*                                                                         *)
(*   idle      --Enter-->   awaiting   (the transport operation is awaited)*)
(*   awaiting  --Respond--> auditing   (auditRepository.append is awaited) *)
(*   auditing  --Settle-->  sleeping   (the retry delay is awaited), done  *)
(*   sleeping  --Wake-->    awaiting, done                                 *)
(***************************************************************************)
EXTENDS RateLimits, FiniteSets

CONSTANTS
  Calls,              \* activations of execute()
  InvalidCalls,       \* those whose request fails #validLocalInput
  ClockMayFail,       \* whether clock.nowUtc() may return a bad timestamp
  MaxAttempts,        \* RequestBudget(maxAttempts)
  MaxRetries,         \* configuration.maxRetries
  PolicyMaxAttempts,  \* retryPolicy.options.maxAttempts
  MaxConsecutive,     \* RunCircuitBreaker(maxConsecutiveRetryableFailures)
  Exchanges           \* what an operation may come back with, see Exchange

ASSUME ExecutorAssumption ==
  /\ InvalidCalls \subseteq Calls
  /\ ClockMayFail \in BOOLEAN
  /\ MaxAttempts \in Nat \ {0}
  /\ MaxRetries \in Nat
  /\ PolicyMaxAttempts \in Nat \ {0}
  /\ MaxConsecutive \in Nat \ {0}

ClientErrors ==
  {"INVALID_REQUEST", "TIMEOUT", "NETWORK_FAILURE", "REDIRECT_BLOCKED",
   "AUTHENTICATION_REJECTED", "HTTP_PERMANENT_FAILURE", "RATE_LIMITED",
   "HTTP_RETRYABLE_FAILURE", "RESPONSE_TOO_LARGE", "INVALID_JSON",
   "INVALID_ENVELOPE", "API_ERRORS_PRESENT"}

(***************************************************************************)
(* What the awaited operation gives back: a GovernedClientResult (ok, its  *)
(* error, the headers in its metadata, NoHeaders when it has none, whether *)
(* raw bytes came with it to be kept as evidence) and wire, the rate-limit *)
(* headers the provider really sent.  An operation that throws is the      *)
(* NETWORK_FAILURE that #invoke makes of it.                               *)
(***************************************************************************)
Exchange ==
  [ok : BOOLEAN, error : ClientErrors \union {None}, evidence : BOOLEAN,
   metadata : RawHeaders, wire : RawHeaders]

ASSUME ExchangesAssumption ==
  /\ Exchanges \subseteq Exchange
  /\ None \notin Exchanges
  /\ \A e \in Exchanges : e.ok <=> e.error = None

VARIABLES
  budget,    \* RequestBudget: reserved and started attempts
  breaker,   \* RunCircuitBreaker: state, first reason, consecutive failures
  pc,        \* where each call is awaiting
  attempt,   \* operationAttempt of each call
  number,    \* the attemptNumber of the last attempt each call committed
  response,  \* the last exchange of each call
  result,    \* what each call returned
  audits     \* the audit records that auditRepository.append accepted

vars == <<budget, breaker, pc, attempt, number, response, result, audits>>

-----------------------------------------------------------------------------
(* RequestBudget                                                           *)

Remaining(b) == MaxAttempts - b.started - b.reserved
Reserve(b)   == [b EXCEPT !.reserved = @ + 1]
Commit(b)    == [reserved |-> b.reserved - 1, started |-> b.started + 1]

Release(b)   == [b EXCEPT !.reserved = @ - 1]

-----------------------------------------------------------------------------
(* RunCircuitBreaker                                                       *)

IsOpen(b) == b.state = "OPEN"

Opened(b, reason) ==
  IF IsOpen(b) THEN b ELSE [b EXCEPT !.state = "OPEN", !.reason = reason]

WithRetryableFailure(b) ==
  IF IsOpen(b) THEN b
  ELSE LET counted == [b EXCEPT !.failures = @ + 1]
       IN  IF counted.failures >= MaxConsecutive
           THEN Opened(counted, "RETRYABLE_FAILURE_THRESHOLD_REACHED")
           ELSE counted

WithSuccess(b) == IF IsOpen(b) THEN b ELSE [b EXCEPT !.failures = 0]

(* Mutant of BreakerReason: the daily and the minute quota are mixed up.   *)
BreakerReasonSwapped(outcome) ==
  CASE outcome = "BLOCK_DAILY_EXHAUSTED"  -> "MINUTE_LIMIT_EXHAUSTED"
    [] outcome = "BLOCK_MINUTE_EXHAUSTED" -> "QUOTA_EXHAUSTED"
    [] OTHER                              -> "DAILY_SAFETY_THRESHOLD_REACHED"

BreakerReason(outcome) ==
  CASE outcome = "BLOCK_DAILY_EXHAUSTED"  -> "QUOTA_EXHAUSTED"
    [] outcome = "BLOCK_MINUTE_EXHAUSTED" -> "MINUTE_LIMIT_EXHAUSTED"
    [] OTHER                              -> "DAILY_SAFETY_THRESHOLD_REACHED"

-----------------------------------------------------------------------------
(* Classification of what came back                                        *)

HeadersInvalid(e) == Parse(e.metadata).state = "INVALID"

MapClassification(error) ==
  CASE error = "RATE_LIMITED" -> "RATE_LIMITED"
    [] error \in {"TIMEOUT", "NETWORK_FAILURE", "HTTP_RETRYABLE_FAILURE"}
         -> "RETRYABLE_FAILURE"
    [] error \in {"INVALID_JSON", "INVALID_ENVELOPE", "API_ERRORS_PRESENT",
                  "RESPONSE_TOO_LARGE"}
         -> "INVALID_RESPONSE"
    [] OTHER -> "PERMANENT_FAILURE"

(* Mutant of SuccessClassification: rejected headers are on record as a    *)
(* success.                                                                *)
SuccessClassificationLax(outcome) ==
  IF outcome = "BLOCK_DAILY_EXHAUSTED" THEN "QUOTA_EXHAUSTED" ELSE "SUCCESS"

SuccessClassification(outcome) ==
  CASE RejectsResponse(outcome)          -> "INVALID_RESPONSE"
    [] outcome = "BLOCK_DAILY_EXHAUSTED" -> "QUOTA_EXHAUSTED"
    [] OTHER                             -> "SUCCESS"

(* The classification of the audit record of an exchange.                  *)
Classification(e) ==
  IF e.ok THEN SuccessClassification(BlockingOutcome(Parse(e.metadata)))
  ELSE IF HeadersInvalid(e) THEN "INVALID_RESPONSE"
  ELSE MapClassification(e.error)

Retryable(classification) == classification \in {"RETRYABLE_FAILURE", "RATE_LIMITED"}

(* A 429 is retried only when its headers parse and carry Retry-After.     *)
HasValidRetryAfter(e) ==
  Classification(e) = "RATE_LIMITED" =>
    LET p == Parse(e.metadata) IN p.state = "VALID" /\ p.retryAfter # None

RetryAllowed(c) ==
  /\ attempt[c] <= MaxRetries
  /\ attempt[c] < PolicyMaxAttempts
  /\ HasValidRetryAfter(response[c])

-----------------------------------------------------------------------------
Init ==
  /\ budget = [reserved |-> 0, started |-> 0]
  /\ breaker = [state |-> "CLOSED", reason |-> None, failures |-> 0]
  /\ pc = [c \in Calls |-> "idle"]
  /\ attempt = [c \in Calls |-> 0]
  /\ number = [c \in Calls |-> 0]
  /\ response = [c \in Calls |-> None]
  /\ result = [c \in Calls |-> None]
  /\ audits = {}

(* #terminal and #success: the snapshot #state takes as the call returns.  *)
Return(c, status, classification) ==
  /\ pc' = [pc EXCEPT ![c] = "done"]
  /\ result' = [result EXCEPT ![c] =
       [status         |-> status,
        classification |-> classification,
        attemptsUsed   |-> budget'.started,
        remaining      |-> Remaining(budget'),
        circuit        |-> breaker'.state,
        reason         |-> breaker'.reason]]

ReturnWithoutTransport(c, status, classification) ==
  /\ UNCHANGED <<breaker, attempt, number, response, audits>>
  /\ Return(c, status, classification)

(* Mutant of AttemptNumber: attempts are numbered per call.                *)
AttemptNumberOfCall(c) == attempt[c] + 1

(* The number RequestBudget.commit answers with, that of the audit record. *)
AttemptNumber(c) == budget'.started

(***************************************************************************)
(* The top of the loop, up to the await of the operation: reserve, look at *)
(* the breaker again, read the clock, commit.                              *)
(***************************************************************************)
BeginAttempt(c) ==
  \/ /\ Remaining(budget) <= 0
     /\ budget' = budget
     /\ ReturnWithoutTransport(c, "BUDGET_EXHAUSTED", "BUDGET_EXHAUSTED")
  \/ /\ Remaining(budget) > 0
     /\ IsOpen(breaker)
     /\ budget' = Release(Reserve(budget))
     /\ ReturnWithoutTransport(c, "CIRCUIT_OPEN", "CIRCUIT_OPEN")
  \/ /\ Remaining(budget) > 0
     /\ ~IsOpen(breaker)
     /\ ClockMayFail
     /\ budget' = Release(Reserve(budget))
     /\ ReturnWithoutTransport(c, "FAILED", "INVALID_REQUEST")
  \/ /\ Remaining(budget) > 0
     /\ ~IsOpen(breaker)
     /\ budget' = Commit(Reserve(budget))
     /\ number' = [number EXCEPT ![c] = AttemptNumber(c)]
     /\ attempt' = [attempt EXCEPT ![c] = @ + 1]
     /\ pc' = [pc EXCEPT ![c] = "awaiting"]
     /\ UNCHANGED <<breaker, response, result, audits>>

(* execute() is called: the two checks before the loop, then the loop.     *)
Enter(c) ==
  /\ pc[c] = "idle"
  /\ \/ /\ c \in InvalidCalls
        /\ budget' = budget
        /\ ReturnWithoutTransport(c, "FAILED", "INVALID_REQUEST")
     \/ /\ c \notin InvalidCalls
        /\ IsOpen(breaker)
        /\ budget' = budget
        /\ ReturnWithoutTransport(c, "CIRCUIT_OPEN", "CIRCUIT_OPEN")
     \/ /\ c \notin InvalidCalls
        /\ ~IsOpen(breaker)
        /\ BeginAttempt(c)

(* The operation resolves or rejects; its audit record is being appended.  *)
Respond(c, e) ==
  /\ pc[c] = "awaiting"
  /\ response' = [response EXCEPT ![c] = e]
  /\ pc' = [pc EXCEPT ![c] = "auditing"]
  /\ UNCHANGED <<budget, breaker, attempt, number, result, audits>>

AuditRecord(c) ==
  [call |-> c, number |-> number[c], classification |-> Classification(response[c])]

(* Mutant of AuditFails: the call fails and the run goes on.               *)
AuditFailsQuietly(c) ==
  /\ pc[c] = "auditing"
  /\ UNCHANGED <<budget, breaker, attempt, number, response, audits>>
  /\ Return(c, "AUDIT_FAILED", "AUDIT_FAILED")

(* Mutant of AuditFails: a lost record is retried like a lost response.    *)
AuditFailsRetried(c) ==
  /\ pc[c] = "auditing"
  /\ pc' = [pc EXCEPT ![c] = "sleeping"]
  /\ UNCHANGED <<budget, breaker, attempt, number, response, result, audits>>

(* append answers not ok, or throws: the run stops, the record is lost.    *)
AuditFails(c) ==
  /\ pc[c] = "auditing"
  /\ breaker' = Opened(breaker, "AUDIT_PERSISTENCE_FAILURE")
  /\ budget' = budget
  /\ Return(c, "AUDIT_FAILED", "AUDIT_FAILED")
  /\ UNCHANGED <<attempt, number, response, audits>>

Audited(c) ==
  /\ pc[c] = "auditing"
  /\ audits' = audits \union {AuditRecord(c)}
  /\ UNCHANGED <<budget, attempt, number, response>>

(* #handleSuccess after its append.                                        *)
SettleSuccess(c) ==
  LET outcome == BlockingOutcome(Parse(response[c].metadata)) IN
  /\ Audited(c)
  /\ response[c].ok
  /\ \/ /\ RejectsResponse(outcome)
        /\ breaker' = Opened(breaker, "INVALID_RATE_LIMIT_HEADERS")
        /\ Return(c, "FAILED", "INVALID_RESPONSE")
     \/ /\ StopsAfterResponse(outcome)
        /\ breaker' = Opened(WithSuccess(breaker), BreakerReason(outcome))
        /\ Return(c, "SUCCESS_RUN_BLOCKED", SuccessClassification(outcome))
     \/ /\ outcome = "ALLOW"
        /\ breaker' = WithSuccess(breaker)
        /\ Return(c, "SUCCESS", "SUCCESS")

(* A failure that is never retried.                                        *)
SettleFailure(c) ==
  LET e == response[c] IN
  /\ Audited(c)
  /\ ~e.ok
  /\ ~Retryable(Classification(e))
  /\ \/ /\ HeadersInvalid(e)
        /\ breaker' = Opened(breaker, "INVALID_RATE_LIMIT_HEADERS")
        /\ Return(c, "FAILED", "INVALID_RESPONSE")
     \/ /\ ~HeadersInvalid(e)
        /\ e.error = "AUTHENTICATION_REJECTED"
        /\ breaker' = Opened(breaker, "AUTHENTICATION_REJECTED")
        /\ Return(c, "FAILED", "PERMANENT_FAILURE")
     \/ /\ ~HeadersInvalid(e)
        /\ e.error # "AUTHENTICATION_REJECTED"
        /\ breaker' = breaker
        /\ Return(c, "FAILED", Classification(e))

(* A retryable failure: count it, then give up or sleep before a retry.    *)
SettleRetryable(c) ==
  LET e == response[c] IN
  /\ Audited(c)
  /\ ~e.ok
  /\ Retryable(Classification(e))
  /\ breaker' = WithRetryableFailure(breaker)
  /\ \/ /\ IsOpen(breaker') \/ ~RetryAllowed(c)
        /\ Return(c, "FAILED", Classification(e))
     \/ /\ ~IsOpen(breaker') /\ RetryAllowed(c)
        /\ Remaining(budget) <= 0
        /\ Return(c, "BUDGET_EXHAUSTED", "BUDGET_EXHAUSTED")
     \/ /\ ~IsOpen(breaker') /\ RetryAllowed(c)
        /\ Remaining(budget) > 0
        /\ pc' = [pc EXCEPT ![c] = "sleeping"]
        /\ result' = result

Settle(c) == SettleSuccess(c) \/ SettleFailure(c) \/ SettleRetryable(c)

(* Mutant of Wake: an awoken call waits for the breaker to close.          *)
WakePolling(c) ==
  /\ pc[c] = "sleeping"
  /\ \/ IsOpen(breaker) /\ UNCHANGED vars
     \/ ~IsOpen(breaker) /\ BeginAttempt(c)

(* The retry delay elapses and the loop starts over.                       *)
Wake(c) ==
  /\ pc[c] = "sleeping"
  /\ BeginAttempt(c)

CallStep(c) ==
  \/ Enter(c)
  \/ \E e \in Exchanges : Respond(c, e)
  \/ AuditFails(c)
  \/ Settle(c)
  \/ Wake(c)

(* Every call has returned: the run is over.                               *)
Finished ==
  /\ \A c \in Calls : pc[c] = "done"
  /\ UNCHANGED vars

Next == (\E c \in Calls : CallStep(c)) \/ Finished

Spec == Init /\ [][Next]_vars

(***************************************************************************)
(* An awaited operation settles (the client aborts it after its timeout),  *)
(* an append and a sleep resolve, and the event loop runs every callback   *)
(* that is ready: each call keeps taking steps while it can.               *)
(***************************************************************************)
FairSpec == Spec /\ \A c \in Calls : WF_vars(CallStep(c))

-----------------------------------------------------------------------------
(* Properties                                                              *)

Statuses ==
  {"SUCCESS", "SUCCESS_RUN_BLOCKED", "FAILED", "BUDGET_EXHAUSTED",
   "CIRCUIT_OPEN", "AUDIT_FAILED"}

Classifications ==
  {"SUCCESS", "QUOTA_EXHAUSTED", "RATE_LIMITED", "RETRYABLE_FAILURE",
   "PERMANENT_FAILURE", "INVALID_RESPONSE"}

Reasons ==
  {"AUTHENTICATION_REJECTED", "QUOTA_EXHAUSTED", "DAILY_SAFETY_THRESHOLD_REACHED",
   "MINUTE_LIMIT_EXHAUSTED", "RETRYABLE_FAILURE_THRESHOLD_REACHED",
   "INVALID_RATE_LIMIT_HEADERS", "AUDIT_PERSISTENCE_FAILURE"}

ASSUME ReasonsAssumption == None \notin Reasons

Result ==
  [status : Statuses,
   classification : Classifications \union
     {"INVALID_REQUEST", "BUDGET_EXHAUSTED", "CIRCUIT_OPEN", "AUDIT_FAILED"},
   attemptsUsed : 0..MaxAttempts, remaining : 0..MaxAttempts,
   circuit : {"CLOSED", "OPEN"}, reason : Reasons \union {None}]

(* The shape of the state.  The attempts of the run stay within its budget *)
(* and no reservation outlives the turn that made it (request-budget.ts,   *)
(* reserve, commit and release).                                           *)
TypeOK ==
  /\ budget \in [reserved : {0}, started : 0..MaxAttempts]
  /\ breaker \in [state : {"CLOSED", "OPEN"}, reason : Reasons \union {None},
                   failures : 0..MaxConsecutive]
  /\ pc \in [Calls -> {"idle", "awaiting", "auditing", "sleeping", "done"}]
  /\ attempt \in [Calls -> Nat]
  /\ number \in [Calls -> 0..MaxAttempts]
  /\ response \in [Calls -> Exchanges \union {None}]
  /\ result \in [Calls -> Result \union {None}]
  /\ audits \subseteq [call : Calls, number : 1..MaxAttempts,
                       classification : Classifications]

InFlight(c) == pc[c] \in {"awaiting", "auditing"}
AuditLost(c) == pc[c] = "done" /\ result[c].status = "AUDIT_FAILED"

Flying   == {number[c] : c \in {d \in Calls : InFlight(d)}}
Recorded == {a.number : a \in audits}
Lost     == {number[c] : c \in {d \in Calls : AuditLost(d)}}

(* Every attempt the budget counted is in exactly one place: in flight, on *)
(* record, or lost with the run stopped; and no two attempts share a       *)
(* number, so (requestKeyHash, attemptNumber) never collides in a run.     *)
EveryAttemptAccounted ==
  /\ Flying \union Recorded \union Lost = 1..budget.started
  /\ Flying \intersect Recorded = {}
  /\ Flying \intersect Lost = {}
  /\ Recorded \intersect Lost = {}
  /\ \A c, d \in Calls : InFlight(c) /\ InFlight(d) /\ number[c] = number[d] => c = d
  /\ \A a, b \in audits : a.number = b.number => a = b
  /\ Lost # {} => IsOpen(breaker)

(* What a call reports agrees with what is on record for its last attempt. *)
ResultMatchesAudit ==
  \A c \in Calls : pc[c] = "done" =>
    LET r == result[c]
        recordedAs(classes) == \E a \in audits :
          a.call = c /\ a.number = number[c] /\ a.classification \in classes
    IN
    /\ r.status = "SUCCESS" => recordedAs({"SUCCESS"})
    /\ r.status = "SUCCESS_RUN_BLOCKED" =>
         recordedAs({"SUCCESS", "QUOTA_EXHAUSTED"}) /\ r.circuit = "OPEN"
    /\ r.status = "FAILED" /\ r.classification # "INVALID_REQUEST" =>
         recordedAs({r.classification})
    /\ r.status = "AUDIT_FAILED" => r.circuit = "OPEN" /\ ~recordedAs(Classifications)
    /\ r.status \in {"CIRCUIT_OPEN", "BUDGET_EXHAUSTED"} /\ attempt[c] > 0 =>
         recordedAs({"RETRYABLE_FAILURE", "RATE_LIMITED"})
    /\ r.circuit = "OPEN" => breaker.reason = r.reason

(* The reason the breaker keeps is earned: the records and the results     *)
(* show the event it names.                                                *)
ReasonEarned ==
  LET onRecord(class) == \E a \in audits : a.classification = class IN
  /\ IsOpen(breaker) <=> breaker.reason # None
  /\ breaker.reason = "QUOTA_EXHAUSTED" => onRecord("QUOTA_EXHAUSTED")
  /\ breaker.reason \in {"DAILY_SAFETY_THRESHOLD_REACHED", "MINUTE_LIMIT_EXHAUSTED"} =>
       onRecord("SUCCESS")
  /\ breaker.reason = "AUTHENTICATION_REJECTED" => onRecord("PERMANENT_FAILURE")
  /\ breaker.reason = "INVALID_RATE_LIMIT_HEADERS" => onRecord("INVALID_RESPONSE")
  /\ breaker.reason = "AUDIT_PERSISTENCE_FAILURE" => \E c \in Calls : AuditLost(c)
  /\ breaker.failures <= Cardinality({a \in audits : Retryable(a.classification)})
  /\ breaker.reason = "RETRYABLE_FAILURE_THRESHOLD_REACHED" <=>
       breaker.failures >= MaxConsecutive

(* Once open, the breaker never changes again and no call, awake or just   *)
(* entering, starts another attempt.                                       *)
OpenIsForever ==
  [][IsOpen(breaker) => breaker' = breaker /\ budget'.started = budget.started]_vars

(* A response that was accepted, and so processed and persisted, is never  *)
(* asked for again, not even when its audit record is lost                 *)
(* (api-football-r0-operations.md:47).                                     *)
Accepted(c) == response[c] # None /\ response[c].ok

AcceptedNeverRetried ==
  [][\A c \in Calls : Accepted(c) => attempt'[c] = attempt[c]]_vars

(* After a response that was accepted with little quota left has been      *)
(* settled, no attempt of any call starts (api-football-r0-operations.md,  *)
(* lines 42 and 43).                                                       *)
Settled(c) == pc[c] \in {"sleeping", "done"} /\ response[c] # None

AcceptedQuotaStopsRun ==
  [][budget'.started # budget.started =>
       \A c \in Calls : Settled(c) /\ Accepted(c) => ~QuotaLow(response[c].wire)]_vars

(* The same for every response, accepted or failed, as the operations      *)
(* guide states it.                                                        *)
QuotaStopsRun ==
  [][budget'.started # budget.started =>
       \A c \in Calls : Settled(c) => ~QuotaLow(response[c].wire)]_vars

(* Every call that was made returns.                                       *)
EveryCallReturns == \A c \in Calls : <>(pc[c] = "done")

(* The executor implements the governance promise: its attempts are the    *)
(* promised attempts, its audits their records, its breaker the stop.      *)
Governance == INSTANCE RequestGovernance WITH
  begun    <- budget.started,
  recorded <- Recorded,
  lost     <- Lost,
  stopped  <- IsOpen(breaker)

GovernanceKept == Governance!Spec
=============================================================================
