------------------------- MODULE GovernedRun_proofs -------------------------
(***************************************************************************)
(* What holds of both commands, for any targets, responses and failures:   *)
(* one call at a time is under way (Typed), what the memory and the        *)
(* database are (Memory), what a response was published as (Handled), what *)
(* the request in progress has done (Progress), and how far the walk has   *)
(* got (Paced).  One lemma for each kind of step keeps Governed, which is  *)
(* all of it, and says what else the step does.                            *)
(***************************************************************************)
EXTENDS GovernedRun, TLAPS

-----------------------------------------------------------------------------
(* The executor, of which one call at a time is under way.                 *)

(* Its variables are what they should be, as far as this is needed.        *)
Typed ==
  /\ budget.reserved = 0 /\ budget.started \in 0 .. MaxAttempts
  /\ DOMAIN budget = {"reserved", "started"}
  /\ breaker.state \in {"CLOSED", "OPEN"}
  /\ DOMAIN breaker = {"state", "reason", "failures"}
  /\ DOMAIN pc = Calls /\ DOMAIN number = Calls
  /\ DOMAIN response = Calls /\ DOMAIN result = Calls

(* A step of one call.                                                     *)
OnlyCall(c) ==
  \A d \in Calls : d # c =>
    pc'[d] = pc[d] /\ number'[d] = number[d] /\ response'[d] = response[d]
                   /\ result'[d] = result[d]

(* The call has returned without asking again: the budget is spent.        *)
SpentAt(c) ==
  /\ pc'[c] = "done"
  /\ result'[c].status = "BUDGET_EXHAUSTED"
  /\ result'[c].circuit = breaker'.state
  /\ Remaining' = 0

LEMMA BeginFacts ==
  ASSUME Typed, NEW c \in Calls, ~IsOpen, Executor!BeginAttempt(c)
  PROVE  /\ Typed' /\ OnlyCall(c) /\ breaker' = breaker /\ response' = response
         /\ Remaining = 0 => Remaining' = 0
         /\ pc'[c] = "awaiting" \/ SpentAt(c)
<1> USE GovernedRunAssumption
    DEF Typed, OnlyCall, SpentAt, IsOpen, Remaining, Executor!IsOpen, Executor!Remaining
<1>1. CASE Executor!Remaining(budget) <= 0
  <2>1. budget' = budget /\ UNCHANGED <<breaker, attempt, number, response, audits>>
        /\ pc' = [pc EXCEPT ![c] = "done"]
        /\ Executor!Return(c, "BUDGET_EXHAUSTED", "BUDGET_EXHAUSTED")
    BY <1>1 DEF Executor!BeginAttempt, Executor!ReturnWithoutTransport, Executor!Return
  <2>2. DOMAIN result' = Calls /\ \A d \in Calls : d # c => result'[d] = result[d]
    BY <2>1 DEF Executor!Return
  <2>3. result'[c].status = "BUDGET_EXHAUSTED" /\ result'[c].circuit = breaker'.state
    BY <2>1 DEF Executor!Return
  <2>4. QED
    BY <1>1, <2>1, <2>2, <2>3
<1>2. CASE Executor!Remaining(budget) > 0
  <2>1. /\ budget' = Executor!Commit(Executor!Reserve(budget))
        /\ number' = [number EXCEPT ![c] = Executor!AttemptNumber(c)]
        /\ pc' = [pc EXCEPT ![c] = "awaiting"]
        /\ UNCHANGED <<breaker, response, result, audits>>
    BY <1>2 DEF Executor!BeginAttempt
  <2>2. budget' = [reserved |-> budget.reserved, started |-> budget.started + 1]
    BY <2>1 DEF Executor!Commit, Executor!Reserve
  <2>3. QED
    BY <1>2, <2>1, <2>2
<1>3. QED
  BY <1>1, <1>2

LEMMA EnterFacts ==
  ASSUME Typed, NEW c \in Calls, ~IsOpen, Executor!Enter(c)
  PROVE  /\ Typed' /\ OnlyCall(c) /\ breaker' = breaker /\ response' = response
         /\ Remaining = 0 => Remaining' = 0
         /\ pc'[c] = "awaiting" \/ SpentAt(c)
<1>1. Executor!BeginAttempt(c)
  BY DEF Executor!Enter, IsOpen
<1>2. QED
  BY <1>1, BeginFacts

LEMMA WakeFacts ==
  ASSUME Typed, NEW c \in Calls, ~IsOpen, Executor!Wake(c)
  PROVE  /\ pc[c] = "sleeping"
         /\ Typed' /\ OnlyCall(c) /\ breaker' = breaker /\ response' = response
         /\ Remaining = 0 => Remaining' = 0
         /\ pc'[c] = "awaiting" \/ SpentAt(c)
<1>1. Executor!BeginAttempt(c) /\ pc[c] = "sleeping"
  BY DEF Executor!Wake
<1>2. QED
  BY <1>1, BeginFacts

LEMMA RespondFacts ==
  ASSUME Typed, NEW c \in Calls, NEW e, Executor!Respond(c, e)
  PROVE  /\ pc[c] = "awaiting" /\ pc'[c] = "auditing" /\ response'[c] = e
         /\ Typed' /\ OnlyCall(c)
         /\ UNCHANGED <<budget, breaker, number, result>>
  BY DEF Typed, OnlyCall, Executor!Respond

(* A settled call has returned, or waits before it asks again.             *)
SettledAt(c) ==
  \/ /\ pc'[c] = "sleeping" /\ ~IsOpen' /\ ~response[c].ok
  \/ /\ pc'[c] = "done"
     /\ result'[c].circuit = breaker'.state
     /\ result'[c].status = "SUCCESS" => ~IsOpen'
     /\ result'[c].status = "SUCCESS_RUN_BLOCKED" => IsOpen'
     /\ result'[c].status = "BUDGET_EXHAUSTED" => Remaining' = 0
     /\ response[c].ok /\ ~Succeeded(result'[c]) =>
          result'[c].status \in {"AUDIT_FAILED", "FAILED"} /\ IsOpen'

LEMMA BreakerFacts ==
  ASSUME Typed, NEW reason
  PROVE  /\ Executor!Opened(breaker, reason).state = "OPEN"
         /\ DOMAIN Executor!Opened(breaker, reason) = DOMAIN breaker
         /\ Executor!WithSuccess(breaker).state = breaker.state
         /\ DOMAIN Executor!WithSuccess(breaker) = DOMAIN breaker
         /\ Executor!Opened(Executor!WithSuccess(breaker), reason).state = "OPEN"
         /\ DOMAIN Executor!Opened(Executor!WithSuccess(breaker), reason) = DOMAIN breaker
         /\ Executor!WithRetryableFailure(breaker).state \in {"CLOSED", "OPEN"}
         /\ DOMAIN Executor!WithRetryableFailure(breaker) = DOMAIN breaker
  BY DEF Typed, Executor!Opened, Executor!WithSuccess, Executor!WithRetryableFailure,
         Executor!IsOpen

LEMMA AuditFailsFacts ==
  ASSUME Typed, NEW c \in Calls, Executor!AuditFails(c)
  PROVE  /\ pc[c] = "auditing" /\ Typed' /\ OnlyCall(c) /\ SettledAt(c) /\ IsOpen'
         /\ result'[c].status = "AUDIT_FAILED"
         /\ UNCHANGED <<budget, number, response>>
<1>1. /\ breaker' = Executor!Opened(breaker, "AUDIT_PERSISTENCE_FAILURE")
      /\ pc[c] = "auditing"
      /\ UNCHANGED <<budget, number, response>>
  BY DEF Executor!AuditFails
<1>2. breaker'.state = "OPEN" /\ DOMAIN breaker' = DOMAIN breaker
  BY <1>1, BreakerFacts
<1>3. /\ pc' = [pc EXCEPT ![c] = "done"]
      /\ result'[c].status = "AUDIT_FAILED" /\ result'[c].circuit = breaker'.state
      /\ DOMAIN result' = Calls /\ \A d \in Calls : d # c => result'[d] = result[d]
  BY DEF Executor!AuditFails, Executor!Return, Typed
<1>4. QED
  BY <1>1, <1>2, <1>3 DEF Typed, OnlyCall, SettledAt, IsOpen, Executor!IsOpen, Succeeded

(* What a settled call returns with.                                       *)
LEMMA ReturnFacts ==
  ASSUME Typed, NEW c \in Calls, NEW status, NEW class, Executor!Return(c, status, class)
  PROVE  /\ pc' = [pc EXCEPT ![c] = "done"]
         /\ DOMAIN pc' = Calls /\ pc'[c] = "done"
         /\ DOMAIN result' = Calls
         /\ \A d \in Calls : d # c => result'[d] = result[d] /\ pc'[d] = pc[d]
         /\ result'[c].status = status /\ result'[c].circuit = breaker'.state
  BY DEF Executor!Return, Typed

LEMMA SettleFacts ==
  ASSUME Typed, NEW c \in Calls, ~IsOpen, Executor!Settle(c)
  PROVE  /\ pc[c] = "auditing" /\ Typed' /\ OnlyCall(c) /\ SettledAt(c)
         /\ UNCHANGED <<budget, number, response>>
<1> USE DEF Executor!Audited
<1>1. CASE Executor!SettleSuccess(c)
  <2> DEFINE outcome == Executor!BlockingOutcome(Executor!Parse(response[c].metadata))
  <2>1. /\ pc[c] = "auditing" /\ response[c].ok
        /\ UNCHANGED <<budget, number, response>>
    BY <1>1 DEF Executor!SettleSuccess
  <2>2. CASE /\ breaker' = Executor!Opened(breaker, "INVALID_RATE_LIMIT_HEADERS")
             /\ Executor!Return(c, "FAILED", "INVALID_RESPONSE")
    <3>1. breaker'.state = "OPEN" /\ DOMAIN breaker' = DOMAIN breaker
      BY <2>2, BreakerFacts
    <3>2. QED
      BY <2>1, <2>2, <3>1, ReturnFacts
      DEF Typed, OnlyCall, SettledAt, IsOpen, Executor!IsOpen, Succeeded
  <2>3. CASE /\ breaker' = Executor!Opened(Executor!WithSuccess(breaker),
                                           Executor!BreakerReason(outcome))
             /\ Executor!Return(c, "SUCCESS_RUN_BLOCKED",
                                Executor!SuccessClassification(outcome))
    <3>1. breaker'.state = "OPEN" /\ DOMAIN breaker' = DOMAIN breaker
      BY <2>3, BreakerFacts
    <3>2. QED
      BY <2>1, <2>3, <3>1, ReturnFacts
      DEF Typed, OnlyCall, SettledAt, IsOpen, Executor!IsOpen, Succeeded
  <2>4. CASE /\ breaker' = Executor!WithSuccess(breaker)
             /\ Executor!Return(c, "SUCCESS", "SUCCESS")
    <3>1. breaker'.state = breaker.state /\ DOMAIN breaker' = DOMAIN breaker
      BY <2>4, BreakerFacts
    <3>2. QED
      BY <2>1, <2>4, <3>1, ReturnFacts
      DEF Typed, OnlyCall, SettledAt, IsOpen, Executor!IsOpen, Succeeded
  <2>5. QED
    BY <1>1, <2>2, <2>3, <2>4 DEF Executor!SettleSuccess
<1>2. CASE Executor!SettleFailure(c)
  <2>1. /\ pc[c] = "auditing" /\ ~response[c].ok
        /\ UNCHANGED <<budget, number, response>>
    BY <1>2 DEF Executor!SettleFailure
  <2>2. ASSUME NEW class, Executor!Return(c, "FAILED", class),
               \/ breaker' = breaker
               \/ \E reason : breaker' = Executor!Opened(breaker, reason)
        PROVE  Typed' /\ OnlyCall(c) /\ SettledAt(c)
    <3>1. breaker'.state \in {"CLOSED", "OPEN"} /\ DOMAIN breaker' = DOMAIN breaker
      BY <2>2, BreakerFacts DEF Typed
    <3>2. QED
      BY <2>1, <2>2, <3>1, ReturnFacts
      DEF Typed, OnlyCall, SettledAt, IsOpen, Executor!IsOpen, Succeeded
  <2>3. QED
    BY <1>2, <2>1, <2>2 DEF Executor!SettleFailure
<1>3. CASE Executor!SettleRetryable(c)
  <2>1. /\ pc[c] = "auditing" /\ ~response[c].ok
        /\ breaker' = Executor!WithRetryableFailure(breaker)
        /\ UNCHANGED <<budget, number, response>>
    BY <1>3 DEF Executor!SettleRetryable
  <2>2. breaker'.state \in {"CLOSED", "OPEN"} /\ DOMAIN breaker' = DOMAIN breaker
    BY <2>1, BreakerFacts
  <2>3. CASE \E class : Executor!Return(c, "FAILED", class)
    BY <2>1, <2>2, <2>3, ReturnFacts
    DEF Typed, OnlyCall, SettledAt, IsOpen, Executor!IsOpen, Succeeded
  <2>4. CASE /\ Executor!Remaining(budget) <= 0
             /\ Executor!Return(c, "BUDGET_EXHAUSTED", "BUDGET_EXHAUSTED")
    <3>1. Remaining' = 0
      BY <2>1, <2>4, GovernedRunAssumption DEF Typed, Remaining, Executor!Remaining
    <3>2. QED
      BY <2>1, <2>2, <2>4, <3>1, ReturnFacts
      DEF Typed, OnlyCall, SettledAt, IsOpen, Executor!IsOpen, Succeeded
  <2>5. CASE ~Executor!IsOpen(breaker') /\ pc' = [pc EXCEPT ![c] = "sleeping"]
             /\ result' = result
    BY <2>1, <2>2, <2>5 DEF Typed, OnlyCall, SettledAt, IsOpen, Executor!IsOpen
  <2>6. QED
    BY <1>3, <2>3, <2>4, <2>5 DEF Executor!SettleRetryable
<1>4. QED
  BY <1>1, <1>2, <1>3 DEF Executor!Settle

-----------------------------------------------------------------------------
(* The memory of the command and the database.                             *)

WalkFields      == {"phase", "position", "blocked", "exit", "began"}
OperationFields == {"stage", "exchange", "payload", "at", "downstream", "started"}
DatabaseFields  == {"artifacts", "bindings", "predictions", "outcomes", "audits"}

Memory ==
  /\ DOMAIN walk = WalkFields /\ DOMAIN operation = OperationFields
  /\ DOMAIN db = DatabaseFields /\ DOMAIN db.bindings = Targets
  /\ DOMAIN report = Targets
  /\ walk.phase \in Requests \union {"off", "target", "ended"}
  /\ walk.blocked \in BOOLEAN
  /\ walk.phase \notin {"off", "ended"} => walk.position \in Nat \ {0}
  /\ walk.phase = "target" => operation.stage = "none" /\ operation.downstream = None
  /\ Requesting => walk.position \in 1 .. Len(Order)
  /\ now \in Nat /\ walk.began \in Nat /\ walk.began <= now
  /\ Requesting => operation.started \in walk.began .. now
  /\ operation.stage \in {"fetched", "published", "processed"} =>
       Requesting /\ operation.at \in walk.began .. now

(* What is processed was published, and what is stored too.                *)
Handled ==
  /\ operation.stage = "fetched" /\ operation.exchange.ok =>
       operation.payload \in Payloads[walk.phase]
  /\ operation.stage = "published" =>
       /\ Content \in evidence /\ operation.payload \in Payloads[walk.phase]
       /\ operation.exchange.ok
  /\ db.artifacts \subseteq evidence

(* A request that has returned.                                            *)
Returned(r) ==
  /\ r.circuit = breaker.state
  /\ Succeeded(r) => OnRecord(Active)
  /\ r.status = "SUCCESS" => ~IsOpen
  /\ r.status = "SUCCESS_RUN_BLOCKED" => IsOpen
  /\ r.status = "BUDGET_EXHAUSTED" => Remaining = 0
  /\ Stored /\ ~Succeeded(r) => r.status \in {"AUDIT_FAILED", "FAILED"} /\ IsOpen

(* The request in progress: as long as it has not returned the breaker is  *)
(* closed, and what it stored came with a response that is not retried.    *)
Progress ==
  Requesting =>
    /\ pc[Active] \in {"awaiting", "auditing", "sleeping", "done"}
    /\ pc[Active] # "done" => ~IsOpen
    /\ pc[Active] = "done" => Returned(result[Active])
    /\ pc[Active] = "awaiting" /\ Stored =>
         operation.stage = "processed" /\ operation.exchange.ok
    /\ pc[Active] = "auditing" /\ Stored => response[Active].ok
    /\ pc[Active] = "sleeping" => ~Stored
    /\ pc[Active] # "awaiting" => operation.stage = "none"

(* Only the targets before the position have a status, and what blocked    *)
(* the run still does.                                                     *)
Paced ==
  /\ walk.phase # "off" =>
       \A i \in 1 .. Len(Order) : report[Order[i]] # None => i < walk.position
  /\ walk.blocked => IsOpen \/ Remaining = 0
  /\ walk.phase # "ended" => walk.exit = None

Governed == Typed /\ Memory /\ Handled /\ Progress /\ Paced

LEMMA Words ==
  /\ None \notin {"CREATED", "REPLAYED", "AUDIT_FAILED", "REQUEST_FAILED"}
  /\ None \notin {"COMPLETE", "BLOCKED"}
  /\ "off" \notin Requests /\ "target" \notin Requests /\ "ended" \notin Requests
  BY GovernedRunAssumption

LEMMA PositionFacts ==
  /\ Len(Order) \in Nat
  /\ \A i \in 1 .. Len(Order) : Order[i] \in Targets
  /\ \A i, j \in 1 .. Len(Order) : Order[i] = Order[j] => i = j
  BY GovernedRunAssumption DEF Targets

(* The executor's variables when nothing is asked of it.                   *)
LEMMA ExecutorKept ==
  ASSUME Typed, UNCHANGED executorVars
  PROVE  /\ Typed' /\ UNCHANGED <<budget, breaker, pc, number, response, result>>
         /\ IsOpen' <=> IsOpen
         /\ Remaining' = Remaining
<1>1. UNCHANGED <<budget, breaker, pc, number, response, result>>
  BY DEF executorVars
<1>2. QED
  BY <1>1 DEF Typed, IsOpen, Executor!IsOpen, Remaining, Executor!Remaining

(* What a call has on record stays there as long as it asks nothing more.  *)
LEMMA RecordKept ==
  ASSUME NEW c, db.audits \subseteq db'.audits, number'[c] = number[c],
         walk'.began = walk.began, OnRecord(c)
  PROVE  OnRecord(c)'
  BY DEF OnRecord

-----------------------------------------------------------------------------
(* The walk.                                                               *)

(* The target of the position has no status.                               *)
LEMMA AtTarget ==
  ASSUME Governed, walk.phase \notin {"off", "ended"}, walk.position \in 1 .. Len(Order)
  PROVE  Target \in Targets /\ report[Target] = None
  BY PositionFacts DEF Governed, Paced, Target

(* What is known of the request in progress.                               *)
LEMMA RequestIs ==
  ASSUME Governed, Requesting
  PROVE  /\ walk.phase \in Requests /\ walk.phase \notin {"off", "target", "ended"}
         /\ walk.position \in 1 .. Len(Order)
         /\ Target \in Targets /\ Active \in Calls
         /\ report[Target] = None
         /\ now \in Nat /\ walk.began \in Nat /\ walk.began <= now
         /\ operation.started \in walk.began .. now
         /\ DOMAIN operation = OperationFields
<1>1. /\ walk.phase \in Requests /\ walk.position \in 1 .. Len(Order)
      /\ walk.phase \notin {"off", "target", "ended"}
  BY Words DEF Requesting, Memory, Governed
<1>2. Target \in Targets /\ report[Target] = None
  BY <1>1, AtTarget
<1>3. Active \in Calls
  BY <1>1, <1>2 DEF Active, Calls
<1>4. QED
  BY <1>1, <1>2, <1>3 DEF Memory, Governed

(* What is concluded of a target.                                          *)
ConcludedAs(status, blocks) ==
  /\ walk'.phase = "target" /\ walk'.position = walk.position + 1
  /\ walk'.blocked = (walk.blocked \/ blocks)
  /\ walk'.began = walk.began
  /\ operation'.downstream = None
  /\ report'[Target] = status
  /\ \A t \in Targets : t # Target => report'[t] = report[t]
  /\ UNCHANGED <<number, evidence, db, now>>
  /\ IsOpen' <=> IsOpen
  /\ Remaining' = Remaining

LEMMA ConcludeGoverned ==
  ASSUME Governed, walk.phase \notin {"off", "ended"}, walk.position \in 1 .. Len(Order),
         NEW status, NEW blocks \in BOOLEAN, Conclude(status, blocks),
         UNCHANGED executorVars, UNCHANGED <<durable, now>>,
         blocks => IsOpen \/ Remaining = 0
  PROVE  Governed' /\ ConcludedAs(status, blocks)
<1>1. /\ DOMAIN walk' = WalkFields /\ walk'.phase = "target"
      /\ walk'.position = walk.position + 1
      /\ walk'.blocked = (walk.blocked \/ blocks)
      /\ walk'.exit = walk.exit /\ walk'.began = walk.began
      /\ operation' = NoOperation
      /\ DOMAIN report' = Targets
      /\ Target \in Targets => report'[Target] = status
      /\ \A t \in Targets : t # Target => report'[t] = report[t]
  BY DEF Governed, Memory, WalkFields, Conclude
<1>2. Target \in Targets
  BY AtTarget
<1>3. UNCHANGED <<evidence, db, now>>
  BY DEF durable
<1>4. /\ Typed' /\ UNCHANGED <<budget, breaker, pc, number, response, result>>
      /\ IsOpen' <=> IsOpen
      /\ Remaining' = Remaining
  BY ExecutorKept DEF Governed
<1>5. /\ DOMAIN operation' = OperationFields
      /\ operation'.stage = "none" /\ operation'.downstream = None
  BY <1>1 DEF NoOperation, OperationFields
<1>6. walk'.blocked \in BOOLEAN
  BY <1>1 DEF Governed, Memory
<1>7. Memory'
  BY <1>1, <1>3, <1>5, <1>6, Words, PositionFacts DEF Governed, Memory, Requesting
<1>8. Handled' /\ Progress'
  BY <1>1, <1>3, <1>5, Words DEF Governed, Handled, Progress, Requesting
<1>9. \A i \in 1 .. Len(Order) : report'[Order[i]] # None => i < walk'.position
  <2> SUFFICES ASSUME NEW i \in 1 .. Len(Order), report'[Order[i]] # None
               PROVE  i < walk'.position
    OBVIOUS
  <2>1. CASE i = walk.position
    BY <1>1, <2>1, PositionFacts
  <2>2. CASE i # walk.position
    <3>1. Order[i] \in Targets /\ Order[i] # Target
      BY <2>2, PositionFacts DEF Target
    <3>2. i < walk.position
      BY <1>1, <3>1 DEF Governed, Paced
    <3>3. QED
      BY <1>1, <3>2, PositionFacts
  <2>3. QED
    BY <2>1, <2>2
<1>10. Paced'
  <2>1. walk'.exit = None
    BY <1>1 DEF Governed, Paced
  <2>2. walk'.blocked => IsOpen' \/ Remaining' = 0
    BY <1>1, <1>4 DEF Governed, Memory, Paced
  <2>3. QED
    BY <1>9, <2>1, <2>2 DEF Paced
<1>11. QED
  BY <1>1, <1>2, <1>3, <1>4, <1>5, <1>7, <1>8, <1>10 DEF Governed, ConcludedAs

(* What is asked for a target.                                             *)
RequestedAs(name) ==
  /\ walk'.phase = name /\ walk'.position = walk.position
  /\ walk'.blocked = walk.blocked /\ walk'.began = walk.began
  /\ operation'.downstream = None
  /\ Target \in Targets /\ Target' = Target /\ <<Target, name>> \in Calls
  /\ \A c \in Calls : c # <<Target, name>> => number'[c] = number[c]
  /\ UNCHANGED <<report, evidence, db, now>>
  /\ ~IsOpen'

LEMMA RequestGoverned ==
  ASSUME Governed, walk.phase \notin {"off", "ended"}, walk.position \in 1 .. Len(Order),
         ~IsOpen, NEW name \in Requests, Request(name), UNCHANGED <<durable, now>>
  PROVE  Governed' /\ RequestedAs(name)
<1> DEFINE c == <<Target, name>>
<1>1. /\ DOMAIN walk' = WalkFields /\ walk'.phase = name
      /\ walk'.position = walk.position /\ walk'.blocked = walk.blocked
      /\ walk'.exit = walk.exit /\ walk'.began = walk.began
      /\ DOMAIN operation' = OperationFields
      /\ operation'.stage = "none" /\ operation'.downstream = None
      /\ operation'.started = now
      /\ report' = report
      /\ Executor!Enter(c)
  BY DEF Governed, Memory, WalkFields, OperationFields, Request, NoOperation
<1>2. UNCHANGED <<evidence, db, now>>
  BY DEF durable
<1>3. Target \in Targets /\ Target' = Target /\ c \in Calls /\ Active' = c
  BY <1>1, AtTarget DEF Calls, Active, Target
<1>4. /\ Typed' /\ OnlyCall(c) /\ breaker' = breaker
      /\ Remaining = 0 => Remaining' = 0
      /\ pc'[c] = "awaiting" \/ SpentAt(c)
  BY <1>1, <1>3, EnterFacts DEF Governed
<1>5. ~IsOpen' /\ ~Stored'
  BY <1>1, <1>4, Words DEF IsOpen, Executor!IsOpen, Stored
<1>6. Memory'
  BY <1>1, <1>2, Words, PositionFacts DEF Governed, Memory, Requesting
<1>7. Handled'
  BY <1>1, <1>2 DEF Governed, Handled
<1>8. Progress'
  <2>1. pc'[c] = "done" => Returned(result[Active])'
    BY <1>3, <1>4, <1>5 DEF SpentAt, Returned, Succeeded
  <2>2. pc'[c] \in {"awaiting", "done"}
    BY <1>4 DEF SpentAt
  <2>3. QED
    BY <1>1, <1>3, <1>5, <2>1, <2>2 DEF Progress
<1>9. Paced'
  BY <1>1, <1>4, <1>5, Words DEF Governed, Paced, IsOpen
<1>10. \A d \in Calls : d # c => number'[d] = number[d]
  BY <1>4 DEF OnlyCall
<1>11. QED
  BY <1>1, <1>2, <1>3, <1>4, <1>5, <1>6, <1>7, <1>8, <1>9, <1>10 DEF Governed, RequestedAs

(* The request in progress has returned.                                   *)
LEMMA ReturnIs ==
  ASSUME Governed, NEW name \in Requests, walk.phase = name, pc[<<Target, name>>] = "done"
  PROVE  /\ Requesting /\ Active = <<Target, name>>
         /\ walk.position \in 1 .. Len(Order) /\ Target \in Targets
         /\ walk.phase \notin {"off", "target", "ended"}
         /\ Returned(result[<<Target, name>>])
         /\ report[Target] = None
<1>1. Requesting /\ Active = <<Target, name>>
  BY DEF Requesting, Active
<1>2. QED
  BY <1>1, RequestIs DEF Governed, Progress

(* A request that failed, and whether it stops the run.                    *)
LEMMA FailedGoverned ==
  ASSUME Governed, NEW name \in Requests, walk.phase = name, pc[<<Target, name>>] = "done",
         UNCHANGED <<durable, now>>, NEW status,
         Failed(result[<<Target, name>>], status)
  PROVE  /\ Governed'
         /\ Stored => /\ result[<<Target, name>>].status \in {"AUDIT_FAILED", "FAILED"}
                      /\ IsOpen
         /\ \E blocks \in BOOLEAN :
              ConcludedAs(status, blocks) /\ (IsOpen => blocks)
<1> DEFINE r      == result[<<Target, name>>]
           blocks == r.circuit = "OPEN" \/ r.status = "BUDGET_EXHAUSTED"
<1>1. ~(Succeeded(r) /\ Stored) /\ Conclude(status, blocks) /\ UNCHANGED executorVars
  BY DEF Failed
<1>2. /\ walk.position \in 1 .. Len(Order)
      /\ walk.phase \notin {"off", "ended"}
      /\ Returned(r)
  BY ReturnIs
<1>3. /\ blocks \in BOOLEAN
      /\ blocks => IsOpen \/ Remaining = 0
      /\ IsOpen => blocks
  BY <1>2 DEF Returned, IsOpen, Executor!IsOpen
<1>4. Stored => r.status \in {"AUDIT_FAILED", "FAILED"} /\ IsOpen
  BY <1>1, <1>2 DEF Returned
<1> HIDE DEF blocks, r
<1>5. Governed' /\ ConcludedAs(status, blocks)
  BY <1>1, <1>2, <1>3, ConcludeGoverned
<1>6. QED
  BY <1>3, <1>4, <1>5 DEF r

(* The top of the loop.                                                    *)
LEMMA NextTargetGoverned ==
  ASSUME Governed, NEW first \in Requests, NextTarget(first)
  PROVE  /\ Governed'
         /\ walk.phase = "target" /\ walk.position \in 1 .. Len(Order)
         /\ Target \in Targets /\ report[Target] = None
         /\ \/ RequestedAs(first) /\ ~IsOpen
            \/ \E status \in {"CIRCUIT_OPEN", "BUDGET_EXHAUSTED"} : ConcludedAs(status, TRUE)
<1>1. walk.phase = "target" /\ UNCHANGED <<durable, now>>
  BY DEF NextTarget
<1>2. walk.position \in 1 .. Len(Order)
  BY PositionFacts DEF NextTarget, Governed, Memory
<1>3. Target \in Targets /\ report[Target] = None
  BY <1>1, <1>2, AtTarget
<1>4. CASE \E status \in {"CIRCUIT_OPEN", "BUDGET_EXHAUSTED"} :
             /\ Conclude(status, TRUE) /\ UNCHANGED executorVars
             /\ IsOpen \/ Remaining = 0
  BY <1>1, <1>2, <1>3, <1>4, ConcludeGoverned
<1>5. CASE ~IsOpen /\ Request(first)
  BY <1>1, <1>2, <1>3, <1>5, RequestGoverned
<1>6. QED
  BY <1>4, <1>5 DEF NextTarget

LEMMA EndGoverned ==
  ASSUME Governed, NEW exit, End(exit)
  PROVE  /\ Governed'
         /\ walk.phase = "target" /\ walk.position > Len(Order)
         /\ walk'.phase = "ended" /\ walk'.exit = exit /\ walk'.position = walk.position
         /\ walk'.blocked = walk.blocked /\ walk'.began = walk.began
         /\ UNCHANGED <<report, operation, number, evidence, db, now>>
         /\ IsOpen' <=> IsOpen
         /\ Remaining' = Remaining
         /\ walk.blocked => IsOpen \/ Remaining = 0
<1>1. /\ walk.phase = "target" /\ walk.position > Len(Order)
      /\ walk' = [walk EXCEPT !.phase = "ended", !.exit = exit]
      /\ UNCHANGED <<report, operation, evidence, db, now>> /\ UNCHANGED executorVars
  BY DEF End, durable
<1>2. /\ DOMAIN walk' = WalkFields /\ walk'.phase = "ended" /\ walk'.exit = exit
      /\ walk'.position = walk.position
      /\ walk'.blocked = walk.blocked /\ walk'.began = walk.began
  BY <1>1 DEF Governed, Memory, WalkFields
<1>3. /\ Typed' /\ UNCHANGED <<budget, breaker, pc, number, response, result>>
      /\ IsOpen' <=> IsOpen
      /\ Remaining' = Remaining
  BY <1>1, ExecutorKept DEF Governed
<1>4. Memory'
  BY <1>1, <1>2, Words DEF Governed, Memory, Requesting
<1>5. Handled' /\ Progress'
  BY <1>1, <1>2, Words DEF Governed, Memory, Handled, Progress, Requesting
<1>6. Paced' /\ (walk.blocked => IsOpen \/ Remaining = 0)
  BY <1>1, <1>2, <1>3 DEF Governed, Paced
<1>7. QED
  BY <1>1, <1>2, <1>3, <1>4, <1>5, <1>6 DEF Governed

-----------------------------------------------------------------------------
(* The process.                                                            *)

(* A new process remembers nothing.                                        *)
LEMMA FreshGoverned ==
  ASSUME Memory, Handled, UNCHANGED durable, NEW progress, FreshMemory(progress),
         now' \in Nat,
         DOMAIN progress = WalkFields, progress.phase \in {"off", "target"},
         progress.blocked \in BOOLEAN, ~progress.blocked, progress.exit = None,
         progress.began \in Nat, progress.began <= now',
         progress.phase = "target" => progress.position = 1
  PROVE  /\ Governed' /\ walk' = progress /\ operation'.downstream = None
         /\ UNCHANGED <<evidence, db>> /\ ~IsOpen'
         /\ \A t \in Targets : report'[t] = None
<1>1. UNCHANGED <<evidence, db>>
  BY DEF durable
<1>2. /\ walk' = progress /\ operation' = NoOperation
      /\ report' = [t \in Targets |-> None]
      /\ budget' = [reserved |-> 0, started |-> 0]
      /\ breaker' = [state |-> "CLOSED", reason |-> None, failures |-> 0]
      /\ DOMAIN pc' = Calls /\ DOMAIN number' = Calls
      /\ DOMAIN response' = Calls /\ DOMAIN result' = Calls
  BY DEF FreshMemory
<1>3. /\ DOMAIN operation' = OperationFields
      /\ operation'.stage = "none" /\ operation'.downstream = None
  BY <1>2 DEF NoOperation, OperationFields
<1>4. Typed' /\ ~IsOpen'
  BY <1>2, GovernedRunAssumption DEF Typed, IsOpen, Executor!IsOpen
<1>5. Memory'
  BY <1>1, <1>2, <1>3, Words DEF Memory, Requesting
<1>6. Handled' /\ Progress'
  BY <1>1, <1>2, <1>3, Words DEF Handled, Progress, Requesting
<1>7. (\A t \in Targets : report'[t] = None) /\ Paced'
  BY <1>2, PositionFacts DEF Paced
<1>8. QED
  BY <1>1, <1>2, <1>3, <1>4, <1>5, <1>6, <1>7 DEF Governed

LEMMA InvokeGoverned ==
  ASSUME Governed, Invoke
  PROVE  /\ Governed' /\ walk'.phase = "target" /\ walk'.position = 1
         /\ walk'.exit = None /\ walk'.began = now + 1 /\ now' = now + 1 /\ now \in Nat
         /\ operation'.downstream = None
         /\ UNCHANGED <<evidence, db>> /\ ~IsOpen'
         /\ \A t \in Targets : report'[t] = None
<1> DEFINE progress == [Idle EXCEPT !.phase = "target", !.position = 1, !.began = now + 1]
<1>1. FreshMemory(progress) /\ now' = now + 1 /\ now \in Nat /\ UNCHANGED durable
  BY DEF Invoke, Governed, Memory
<1>2. /\ DOMAIN progress = WalkFields /\ progress.phase = "target" /\ progress.exit = None
      /\ progress.blocked \in BOOLEAN /\ ~progress.blocked
      /\ progress.began = now + 1 /\ progress.position = 1
  BY DEF Idle, WalkFields
<1> HIDE DEF progress
<1>3. QED
  BY <1>1, <1>2, FreshGoverned DEF Governed

LEMMA CrashGoverned ==
  ASSUME Governed, Crash
  PROVE  /\ Governed' /\ walk'.phase = "off" /\ walk'.exit = None /\ walk'.began = 0
         /\ operation'.downstream = None
         /\ UNCHANGED <<evidence, db, now>>
<1>1. FreshMemory(Idle) /\ now' = now /\ now \in Nat /\ UNCHANGED durable
  BY DEF Crash, Governed, Memory
<1>2. /\ DOMAIN Idle = WalkFields /\ Idle.phase = "off" /\ Idle.exit = None
      /\ Idle.blocked \in BOOLEAN /\ ~Idle.blocked /\ Idle.began = 0
  BY DEF Idle, WalkFields
<1>3. QED
  BY <1>1, <1>2, FreshGoverned DEF Governed

LEMMA InitGoverned ==
  ASSUME Init
  PROVE  /\ Governed /\ walk.phase = "off" /\ walk.exit = None
         /\ operation.downstream = None /\ db = EmptyDatabase(Targets) /\ now = 0
<1>1. /\ walk = Idle /\ report = [t \in Targets |-> None]
      /\ operation = NoOperation /\ evidence = {}
      /\ db = EmptyDatabase(Targets) /\ now = 0
      /\ budget = [reserved |-> 0, started |-> 0]
      /\ breaker = [state |-> "CLOSED", reason |-> None, failures |-> 0]
      /\ DOMAIN pc = Calls /\ DOMAIN number = Calls
      /\ DOMAIN response = Calls /\ DOMAIN result = Calls
  BY DEF Init, Executor!Init
<1>2. /\ DOMAIN walk = WalkFields /\ walk.phase = "off" /\ walk.began = 0
      /\ walk.blocked \in BOOLEAN /\ ~walk.blocked /\ walk.exit = None
  BY <1>1 DEF Idle, WalkFields
<1>3. /\ DOMAIN operation = OperationFields
      /\ operation.stage = "none" /\ operation.downstream = None
  BY <1>1 DEF NoOperation, OperationFields
<1>4. /\ DOMAIN db = DatabaseFields /\ DOMAIN db.bindings = Targets /\ db.artifacts = {}
  BY <1>1 DEF EmptyDatabase, DatabaseFields
<1>5. Typed
  BY <1>1, GovernedRunAssumption DEF Typed
<1>6. Memory
  BY <1>1, <1>2, <1>3, <1>4, Words DEF Memory, Requesting
<1>7. Handled /\ Progress /\ Paced
  BY <1>1, <1>2, <1>3, <1>4, Words DEF Handled, Progress, Paced, Requesting
<1>8. QED
  BY <1>1, <1>2, <1>3, <1>5, <1>6, <1>7 DEF Governed

LEMMA StutterGoverned ==
  ASSUME Governed, UNCHANGED vars
  PROVE  /\ Governed' /\ UNCHANGED <<walk, report, operation, number, evidence, db, now>>
         /\ Target' = Target
         /\ IsOpen' <=> IsOpen
         /\ Remaining' = Remaining
<1>1. UNCHANGED <<walk, report, operation, evidence, db, now>> /\ UNCHANGED executorVars
  BY DEF vars, durable
<1>2. /\ Typed' /\ UNCHANGED <<budget, breaker, pc, number, response, result>>
      /\ IsOpen' <=> IsOpen
      /\ Remaining' = Remaining
  BY <1>1, ExecutorKept DEF Governed
<1>3. Target' = Target /\ Active' = Active /\ (Stored' <=> Stored)
  BY <1>1 DEF Active, Target, Stored
<1>4. Memory'
  BY <1>1 DEF Governed, Memory, Requesting
<1>5. Handled'
  BY <1>1, <1>3 DEF Governed, Handled, Content
<1>6. \A c : OnRecord(c)' <=> OnRecord(c)
  BY <1>1, <1>2 DEF OnRecord
<1>7. Progress'
  BY <1>1, <1>2, <1>3, <1>6 DEF Governed, Progress, Returned, Succeeded, Requesting
<1>8. Paced'
  BY <1>1, <1>2 DEF Governed, Paced
<1>9. QED
  BY <1>1, <1>2, <1>3, <1>4, <1>5, <1>7, <1>8 DEF Governed

-----------------------------------------------------------------------------
(* The request in progress.                                                *)

(* What a step of it may change: its own memory, evidence and records that *)
(* are added, the clock, and the executor as far as this call goes.        *)
RequestGoesOn ==
  /\ Requesting
  /\ UNCHANGED <<walk, report>> /\ Target' = Target /\ Active' = Active
  /\ db'.predictions = db.predictions /\ db'.outcomes = db.outcomes
  /\ db'.bindings = db.bindings /\ db'.artifacts = db.artifacts
  /\ db.audits \subseteq db'.audits
  /\ evidence \subseteq evidence'
  /\ now \in Nat /\ now' \in Nat /\ now <= now'
  /\ Stored' <=> Stored
  /\ operation'.downstream \in {operation.downstream, "EVIDENCE_FAILED"}
  /\ IsOpen => IsOpen'
  /\ Remaining = 0 => Remaining' = 0
  /\ \A c \in Calls : c # Active => number'[c] = number[c]

(* What a step of the request in progress leaves of the memory, of what is *)
(* published, and of the walk.                                             *)
LEMMA DuringRequest ==
  ASSUME Governed, Requesting, UNCHANGED <<walk, report>>,
         now' \in Nat, now <= now',
         DOMAIN db' = DatabaseFields, DOMAIN db'.bindings = Targets,
         db'.artifacts \subseteq evidence',
         DOMAIN operation' = OperationFields,
         operation'.started \in walk.began .. now',
         operation'.stage \in {"fetched", "published", "processed"} =>
           operation'.at \in walk.began .. now',
         operation'.stage = "fetched" /\ operation'.exchange.ok =>
           operation'.payload \in Payloads[walk.phase],
         operation'.stage = "published" =>
           /\ <<Active, operation'.exchange.error, operation'.payload>> \in evidence'
           /\ operation'.payload \in Payloads[walk.phase]
           /\ operation'.exchange.ok,
         IsOpen => IsOpen', Remaining = 0 => Remaining' = 0
  PROVE  Memory' /\ Handled' /\ Paced' /\ Target' = Target /\ Active' = Active
<1>1. walk' = walk /\ report' = report /\ Target' = Target /\ Active' = Active
  BY DEF Active, Target
<1>2. walk.phase # "target"
  BY RequestIs
<1>3. Memory'
  BY <1>1, <1>2 DEF Governed, Memory, Requesting
<1>4. Content' = <<Active, operation'.exchange.error, operation'.payload>>
  BY <1>1 DEF Content
<1>5. Handled'
  BY <1>1, <1>4 DEF Handled
<1>6. Paced'
  BY <1>1 DEF Governed, Paced
<1>7. QED
  BY <1>1, <1>3, <1>5, <1>6

(* What is known of a request that awaits its response.                    *)
LEMMA AwaitingIs ==
  ASSUME Governed, Requesting, pc[Active] = "awaiting"
  PROVE  /\ ~IsOpen
         /\ Stored => operation.stage = "processed" /\ operation.exchange.ok
  BY DEF Governed, Progress

LEMMA FetchGoverned ==
  ASSUME Governed, NEW e, NEW payload, NEW instant \in now .. MaxInstant,
         Fetch(e, payload, instant)
  PROVE  Governed' /\ RequestGoesOn
<1>1. /\ Requesting /\ pc[Active] = "awaiting" /\ operation.stage = "none"
      /\ UNCHANGED <<walk, report, evidence, db>> /\ UNCHANGED executorVars
      /\ now' = instant /\ instant \in {now, now + 1}
      /\ operation' = [operation EXCEPT !.stage = IF e.evidence THEN "fetched" ELSE "processed",
                         !.exchange = e, !.payload = payload, !.at = instant]
      /\ e.ok => payload \in Payloads[walk.phase]
  BY DEF Fetch, Operate, durable
<1>2. now \in Nat /\ now' \in Nat /\ now <= now'
  BY <1>1 DEF Governed, Memory
<1>3. /\ DOMAIN operation' = OperationFields
      /\ operation'.stage \in {"fetched", "processed"}
      /\ operation'.exchange = e /\ operation'.payload = payload /\ operation'.at = now'
      /\ operation'.started = operation.started
      /\ operation'.downstream = operation.downstream
  BY <1>1 DEF Governed, Memory, OperationFields
<1>4. /\ Typed' /\ UNCHANGED <<budget, breaker, pc, number, response, result>>
      /\ IsOpen' <=> IsOpen
      /\ Remaining' = Remaining
  BY <1>1, ExecutorKept DEF Governed
<1>5. /\ operation'.started \in walk.began .. now'
      /\ operation'.at \in walk.began .. now'
  BY <1>1, <1>2, <1>3, RequestIs
<1>6. DOMAIN db' = DatabaseFields /\ DOMAIN db'.bindings = Targets
      /\ db'.artifacts \subseteq evidence'
  BY <1>1 DEF Governed, Memory, Handled
<1>7. Memory' /\ Handled' /\ Paced' /\ Target' = Target /\ Active' = Active
  BY <1>1, <1>2, <1>3, <1>4, <1>5, <1>6, DuringRequest
<1>8. ~Stored /\ ~Stored' /\ ~IsOpen
  BY <1>1, <1>3, AwaitingIs DEF Stored
<1>9. Progress'
  BY <1>1, <1>4, <1>7, <1>8 DEF Progress
<1>10. QED
  BY <1>1, <1>2, <1>3, <1>4, <1>7, <1>8, <1>9 DEF Governed, RequestGoesOn

LEMMA PublishGoverned ==
  ASSUME Governed, Publish
  PROVE  Governed' /\ RequestGoesOn
<1>1. /\ Requesting /\ pc[Active] = "awaiting" /\ operation.stage = "fetched"
      /\ UNCHANGED <<walk, report, db, now>> /\ UNCHANGED executorVars
      /\ DOMAIN operation = OperationFields
  BY DEF Publish, Operate, Governed, Memory
<1>2. /\ evidence \subseteq evidence'
      /\ DOMAIN operation' = OperationFields
      /\ operation'.exchange = operation.exchange /\ operation'.payload = operation.payload
      /\ operation'.at = operation.at /\ operation'.started = operation.started
      /\ operation'.downstream \in {operation.downstream, "EVIDENCE_FAILED"}
      /\ operation'.stage \in {"published", "processed"}
      /\ operation'.stage = "published" => operation.exchange.ok /\ Content \in evidence'
  BY <1>1 DEF Publish, OperationFields
<1>3. now' \in Nat /\ now' = now
  BY <1>1 DEF Governed, Memory
<1>4. /\ Typed' /\ UNCHANGED <<budget, breaker, pc, number, response, result>>
      /\ IsOpen' <=> IsOpen
      /\ Remaining' = Remaining
  BY <1>1, ExecutorKept DEF Governed
<1>5. /\ DOMAIN db' = DatabaseFields /\ DOMAIN db'.bindings = Targets
      /\ db'.artifacts \subseteq evidence'
  BY <1>1, <1>2 DEF Governed, Memory, Handled
<1>6. operation.exchange.ok => operation.payload \in Payloads[walk.phase]
  BY <1>1 DEF Governed, Handled
<1>7. operation'.started \in walk.began .. now' /\ operation'.at \in walk.began .. now'
  BY <1>1, <1>2, <1>3 DEF Governed, Memory
<1>8. Memory' /\ Handled' /\ Paced' /\ Target' = Target /\ Active' = Active
  BY <1>1, <1>2, <1>3, <1>4, <1>5, <1>6, <1>7, DuringRequest DEF Content
<1>9. ~Stored /\ ~Stored' /\ ~IsOpen
  BY <1>1, <1>2, AwaitingIs DEF Stored
<1>10. Progress'
  BY <1>1, <1>4, <1>8, <1>9 DEF Progress
<1>11. QED
  BY <1>1, <1>2, <1>3, <1>4, <1>8, <1>9, <1>10 DEF Governed, RequestGoesOn

LEMMA RespondGoverned ==
  ASSUME Governed, Respond
  PROVE  Governed' /\ RequestGoesOn
<1>1. /\ Requesting /\ pc[Active] = "awaiting" /\ Active \in Calls
      /\ UNCHANGED <<walk, report, evidence, db, now>>
      /\ operation' = [operation EXCEPT !.stage = "none"]
      /\ Executor!Respond(Active, operation.exchange)
  BY RequestIs DEF Respond, Operate, durable
<1>2. /\ pc'[Active] = "auditing" /\ response'[Active] = operation.exchange
      /\ Typed' /\ OnlyCall(Active)
      /\ UNCHANGED <<budget, breaker, number, result>>
  BY <1>1, RespondFacts DEF Governed
<1>3. /\ DOMAIN operation' = OperationFields /\ operation'.stage = "none"
      /\ operation'.started = operation.started
      /\ operation'.downstream = operation.downstream
  BY <1>1, RequestIs DEF OperationFields
<1>4. now' \in Nat /\ now' = now
  BY <1>1 DEF Governed, Memory
<1>5. /\ ~IsOpen /\ ~IsOpen' /\ Remaining' = Remaining /\ (Stored' <=> Stored)
      /\ Stored => operation.exchange.ok
  BY <1>1, <1>2, <1>3, AwaitingIs
  DEF IsOpen, Executor!IsOpen, Remaining, Executor!Remaining, Stored
<1>6. operation'.started \in walk.began .. now'
  BY <1>1, <1>3, <1>4, RequestIs
<1>7. /\ DOMAIN db' = DatabaseFields /\ DOMAIN db'.bindings = Targets
      /\ db'.artifacts \subseteq evidence'
  BY <1>1 DEF Governed, Memory, Handled
<1>8. Memory' /\ Handled' /\ Paced' /\ Target' = Target /\ Active' = Active
  BY <1>1, <1>3, <1>4, <1>5, <1>6, <1>7, DuringRequest
<1>9. Progress'
  BY <1>1, <1>2, <1>3, <1>5, <1>8 DEF Progress
<1>10. QED
  BY <1>1, <1>2, <1>3, <1>4, <1>5, <1>8, <1>9 DEF Governed, RequestGoesOn

LEMMA RetryGoverned ==
  ASSUME Governed, Retry
  PROVE  Governed' /\ RequestGoesOn
<1>1. /\ Requesting /\ Active \in Calls /\ UNCHANGED <<walk, report, evidence, db, now>>
      /\ operation' = [operation EXCEPT !.started = now]
      /\ Executor!Wake(Active)
  BY RequestIs DEF Retry, durable
<1>2. pc[Active] = "sleeping"
  BY <1>1 DEF Executor!Wake
<1>3. ~IsOpen /\ ~Stored /\ operation.stage = "none"
  BY <1>1, <1>2 DEF Governed, Progress
<1>4. /\ Typed' /\ OnlyCall(Active) /\ breaker' = breaker
      /\ Remaining = 0 => Remaining' = 0
      /\ pc'[Active] = "awaiting" \/ SpentAt(Active)
  BY <1>1, <1>3, WakeFacts DEF Governed
<1>5. /\ DOMAIN operation' = OperationFields /\ operation'.stage = "none"
      /\ operation'.started = now /\ operation'.downstream = operation.downstream
  BY <1>1, <1>3, RequestIs DEF OperationFields
<1>6. now' \in Nat /\ now' = now /\ operation'.started \in walk.began .. now'
  BY <1>1, <1>5, RequestIs
<1>7. ~IsOpen' /\ ~Stored'
  BY <1>3, <1>4, <1>5 DEF IsOpen, Executor!IsOpen, Stored
<1>8. /\ DOMAIN db' = DatabaseFields /\ DOMAIN db'.bindings = Targets
      /\ db'.artifacts \subseteq evidence'
  BY <1>1 DEF Governed, Memory, Handled
<1>9. Memory' /\ Handled' /\ Paced' /\ Target' = Target /\ Active' = Active
  BY <1>1, <1>3, <1>4, <1>5, <1>6, <1>8, DuringRequest
<1>10. pc'[Active] = "done" => Returned(result[Active])'
  BY <1>4, <1>7, <1>9 DEF SpentAt, Returned, Succeeded
<1>11. pc'[Active] \in {"awaiting", "done"}
  BY <1>4 DEF SpentAt
<1>12. Progress'
  BY <1>5, <1>7, <1>9, <1>10, <1>11 DEF Progress
<1>13. \A c \in Calls : c # Active => number'[c] = number[c]
  BY <1>4 DEF OnlyCall
<1>14. QED
  BY <1>1, <1>3, <1>4, <1>5, <1>6, <1>7, <1>9, <1>12, <1>13 DEF Governed, RequestGoesOn

(* A record that is accepted is there, beside all that were.               *)
LEMMA AuditRows ==
  ASSUME Memory, NEW row, Accepts(AppendAudit(db, row))
  PROVE  LET kept == AppendAudit(db, row).db IN
         /\ DOMAIN kept = DatabaseFields
         /\ kept.predictions = db.predictions /\ kept.outcomes = db.outcomes
         /\ kept.bindings = db.bindings /\ kept.artifacts = db.artifacts
         /\ db.audits \subseteq kept.audits /\ row \in kept.audits
<1>1. DOMAIN db = DatabaseFields
  BY DEF Memory
<1>2. \/ AppendAudit(db, row).db = [db EXCEPT !.audits = @ \union {row}]
      \/ AppendAudit(db, row).db = db /\ row \in db.audits
  BY DEF AppendAudit, Answer, Accepts
<1> DEFINE kept == AppendAudit(db, row).db
<1> HIDE DEF kept
<1>3. QED
  BY <1>1, <1>2 DEF kept, DatabaseFields

LEMMA AppendGoverned ==
  ASSUME Governed, AppendRecord
  PROVE  Governed' /\ RequestGoesOn
<1>1. /\ Requesting /\ pc[Active] = "auditing" /\ Active \in Calls
      /\ UNCHANGED <<walk, report, operation, evidence, now>>
  BY RequestIs DEF AppendRecord
<1>2. /\ DOMAIN db' = DatabaseFields
      /\ db'.predictions = db.predictions /\ db'.outcomes = db.outcomes
      /\ db'.bindings = db.bindings /\ db'.artifacts = db.artifacts
      /\ db.audits \subseteq db'.audits
      /\ \/ Executor!Settle(Active) /\ AuditRow \in db'.audits
         \/ Executor!AuditFails(Active)
  <2>1. CASE /\ Accepts(AppendAudit(db, AuditRow)) /\ db' = AppendAudit(db, AuditRow).db
             /\ Executor!Settle(Active)
    BY <2>1, AuditRows DEF Governed
  <2>2. CASE db' = db /\ Executor!AuditFails(Active)
    BY <2>2 DEF Governed, Memory
  <2>3. QED
    BY <2>1, <2>2 DEF AppendRecord
<1>3. /\ ~IsOpen /\ operation.stage = "none"
      /\ Stored => response[Active].ok
  BY <1>1 DEF Governed, Progress
<1>4. /\ Typed' /\ OnlyCall(Active) /\ SettledAt(Active)
      /\ UNCHANGED <<budget, number, response>>
      /\ Succeeded(result'[Active]) /\ pc'[Active] = "done" => AuditRow \in db'.audits
  BY <1>1, <1>2, <1>3, SettleFacts, AuditFailsFacts DEF Governed, Succeeded
<1>5. (Stored' <=> Stored) /\ Remaining' = Remaining
  BY <1>1, <1>4 DEF Stored, Remaining, Executor!Remaining
<1>6. now \in Nat /\ now' = now /\ operation'.started \in walk.began .. now'
      /\ DOMAIN operation' = OperationFields
  BY <1>1, RequestIs
<1>7. /\ DOMAIN db'.bindings = Targets
      /\ db'.artifacts \subseteq evidence'
  BY <1>1, <1>2 DEF Governed, Memory, Handled
<1>8. Memory' /\ Handled' /\ Paced' /\ Target' = Target /\ Active' = Active
  BY <1>1, <1>2, <1>3, <1>5, <1>6, <1>7, DuringRequest
<1>9. AuditRow \in db'.audits => OnRecord(Active)'
  <2>1. /\ AuditRow.request = Active /\ AuditRow.number = number[Active]
        /\ AuditRow.started >= walk.began
    BY <1>1, RequestIs DEF AuditRow
  <2>2. QED
    BY <1>1, <1>4, <1>8, <2>1 DEF OnRecord
<1>10. pc'[Active] = "done" => Returned(result[Active])'
  BY <1>3, <1>4, <1>5, <1>8, <1>9 DEF SettledAt, Returned
<1>11. /\ pc'[Active] \in {"sleeping", "done"}
       /\ pc'[Active] = "sleeping" => ~IsOpen' /\ ~Stored'
  BY <1>3, <1>4, <1>5 DEF SettledAt
<1>12. Progress'
  BY <1>1, <1>3, <1>8, <1>10, <1>11 DEF Progress
<1>13. QED
  BY <1>1, <1>2, <1>3, <1>4, <1>5, <1>6, <1>8, <1>12 DEF Governed, RequestGoesOn

LEMMA RequestStepGoverned ==
  ASSUME Governed, RequestStep
  PROVE  Governed' /\ RequestGoesOn
  BY FetchGoverned, PublishGoverned, RespondGoverned, AppendGoverned, RetryGoverned
  DEF RequestStep

(* What the process callback may do: it reads what is published, adds rows *)
(* and says how it went.                                                   *)
LEMMA ProcessGoverned ==
  ASSUME Governed, Operate("published"), NEW downstream, Processed(downstream),
         UNCHANGED executorVars, UNCHANGED <<walk, report, evidence, now>>,
         DOMAIN db' = DatabaseFields, DOMAIN db'.bindings = Targets,
         db'.artifacts \subseteq evidence
  PROVE  /\ Governed' /\ Requesting /\ ~Stored
         /\ operation'.downstream = downstream
         /\ Target' = Target /\ UNCHANGED number
         /\ IsOpen' <=> IsOpen
<1>1. Requesting /\ pc[Active] = "awaiting" /\ operation.stage = "published"
  BY DEF Operate
<1>2. operation.exchange.ok /\ operation.at \in walk.began .. now
  BY <1>1 DEF Governed, Handled, Memory
<1>3. /\ DOMAIN operation' = OperationFields
      /\ operation'.stage = "processed" /\ operation'.downstream = downstream
      /\ operation'.exchange = operation.exchange
      /\ operation'.at = operation.at /\ operation'.started = operation.started
  BY DEF Governed, Memory, OperationFields, Processed
<1>4. /\ Typed' /\ UNCHANGED <<budget, breaker, pc, number, response, result>>
      /\ IsOpen' <=> IsOpen
      /\ Remaining' = Remaining
  BY ExecutorKept DEF Governed
<1>5. now' \in Nat /\ now' = now /\ operation'.started \in walk.began .. now'
  BY <1>1, <1>3, RequestIs
<1>6. Memory' /\ Handled' /\ Paced' /\ Target' = Target /\ Active' = Active
  BY <1>1, <1>2, <1>3, <1>4, <1>5, DuringRequest
<1>7. ~Stored /\ ~IsOpen
  BY <1>1, AwaitingIs
<1>8. Progress'
  BY <1>1, <1>2, <1>3, <1>4, <1>6, <1>7 DEF Progress
<1>9. QED
  BY <1>1, <1>3, <1>4, <1>6, <1>7, <1>8 DEF Governed

(* What a transaction answers is what is said of it.                       *)
LEMMA PersistFacts ==
  ASSUME NEW answer, Persist(answer)
  PROVE  \/ db' = answer.db /\ Accepts(answer) /\ Processed(answer.disposition)
         \/ /\ db' = db \/ (db' = answer.db /\ ~Accepts(answer))
            /\ \E downstream \in {"PERSISTENCE_CONFLICT", "REQUEST_FAILED"} : Processed(downstream)
  BY DEF Persist, Accepts

=============================================================================
