----------------------------- MODULE GovernedRun -----------------------------
(***************************************************************************)
(* What the two commands of runApiFootball share: one budget, one breaker  *)
(* and one executor, a walk along the targets, and the requests of         *)
(* ApiFootballProvider.#executeGoverned under the executor: fetch, publish *)
(* the evidence, process, then audit.  Everything in memory is gone when   *)
(* the process ends or crashes; the evidence and the database stay for the *)
(* next invocation of the command.                                         *)
(***************************************************************************)
EXTENDS RateLimits, CaptureStore, Sequences, FiniteSets

CONSTANTS
  Order,               \* the targets, in the order of the command line
  Requests,            \* the requests the command may make for a target
  MaxAttempts,         \* --max-attempts
  Exchanges,           \* what the methods of the client answer
  Payloads,            \* what a good response to each request may hold
  StorageMayFail,      \* whether a write of evidence or of SQLite may fail
  MayCrash,            \* whether the process may die at any await
  MaxRuns,             \* bound: invocations of the command
  MaxInstant           \* bound: instants of the clock

Targets == {Order[i] : i \in 1..Len(Order)}
Calls   == Targets \X Requests

(* The targets of a command line are distinct, and null is no status.  The *)
(* walk is at a request or at none.                                        *)
ASSUME GovernedRunAssumption ==
  /\ Order \in Seq(Targets)
  /\ Requests \intersect {"off", "target", "ended"} = {}
  /\ None \notin {"CREATED", "REPLAYED", "AUDIT_FAILED", "REQUEST_FAILED", "COMPLETE", "BLOCKED"}
  /\ \A i, j \in 1..Len(Order) : Order[i] = Order[j] => i = j
  /\ MaxAttempts \in Nat \ {0}
  /\ DOMAIN Payloads = Requests
  /\ StorageMayFail \in BOOLEAN
  /\ MayCrash \in BOOLEAN
  /\ MaxRuns \in Nat
  /\ MaxInstant \in Nat

VARIABLES
  budget, breaker, pc, attempt, number, response, result, audits,  \* the executor
  walk,       \* the loop of the command: phase, position, blocked, exit and when it began
  report,     \* the status of each target, None before it has one
  operation,  \* #executeGoverned: its request in progress
  evidence,   \* contents in the evidence store
  db,         \* the SQLite database, see CaptureStore
  now,        \* the clock
  runs        \* invocations so far

executorVars == <<budget, breaker, pc, attempt, number, response, result, audits>>
durable == <<evidence, db>>
vars == <<executorVars, walk, report, operation, durable, now, runs>>

(* runApiFootball's wiring of the executor.                                *)
Executor == INSTANCE GovernedExecutor WITH
  InvalidCalls      <- {},
  ClockMayFail      <- FALSE,
  MaxRetries        <- MaxAttempts - 1,
  PolicyMaxAttempts <- MaxAttempts,
  MaxConsecutive    <- IF MaxAttempts > 2 THEN MaxAttempts ELSE 2

-----------------------------------------------------------------------------
Idle == [phase |-> "off", position |-> 0, blocked |-> FALSE, exit |-> None, began |-> 0]

(* downstream outlives the attempts of a request: the closure is made once *)
(* for all of them.                                                        *)
NoOperation ==
  [stage |-> "none", exchange |-> None, payload |-> None, at |-> 0,
   downstream |-> None, started |-> 0]

Target == Order[walk.position]

Init ==
  /\ Executor!Init
  /\ walk = Idle
  /\ report = [t \in Targets |-> None]
  /\ operation = NoOperation
  /\ evidence = {}
  /\ db = EmptyDatabase(Targets)
  /\ now = 0
  /\ runs = 0

Running == walk.phase \notin {"off", "ended"}

(* A new process has nothing in memory but what it is about to do.         *)
FreshMemory(progress) ==
  /\ walk' = progress
  /\ report' = [t \in Targets |-> None]
  /\ operation' = NoOperation
  /\ budget' = [reserved |-> 0, started |-> 0]
  /\ breaker' = [state |-> "CLOSED", reason |-> None, failures |-> 0]
  /\ pc' = [c \in Calls |-> "idle"]
  /\ attempt' = [c \in Calls |-> 0]
  /\ number' = [c \in Calls |-> 0]
  /\ response' = [c \in Calls |-> None]
  /\ result' = [c \in Calls |-> None]
  /\ audits' = {}

(* The command is invoked, later than anything that was done before.       *)
Invoke ==
  /\ ~Running
  /\ runs < MaxRuns
  /\ now < MaxInstant
  /\ now' = now + 1
  /\ runs' = runs + 1
  /\ FreshMemory([Idle EXCEPT !.phase = "target", !.position = 1, !.began = now'])
  /\ UNCHANGED durable

(* The process dies, and its memory with it.                               *)
Crash ==
  /\ MayCrash /\ Running
  /\ FreshMemory(Idle)
  /\ UNCHANGED <<durable, now, runs>>

-----------------------------------------------------------------------------
(* The loops of collectPrematch and resolveOutcomes.                       *)

Remaining == Executor!Remaining(budget)
IsOpen    == Executor!IsOpen(breaker)

(* Mutant of Conclude: a target that blocks the run is looked at again.    *)
ConcludeStuck(status, blocks) ==
  /\ report' = [report EXCEPT ![Target] = status]
  /\ walk' = [walk EXCEPT !.phase = "target", !.blocked = @ \/ blocks,
                          !.position = IF blocks THEN @ ELSE @ + 1]
  /\ operation' = NoOperation

(* Push a status for the target and go on to the next one.                 *)
Conclude(status, blocks) ==
  /\ report' = [report EXCEPT ![Target] = status]
  /\ walk' = [walk EXCEPT !.phase = "target", !.position = @ + 1,
                          !.blocked = @ \/ blocks]
  /\ operation' = NoOperation

(* The provider hands the request to the executor.                         *)
Request(name) ==
  /\ Executor!Enter(<<Target, name>>)
  /\ walk' = [walk EXCEPT !.phase = name]
  /\ operation' = [NoOperation EXCEPT !.started = now]
  /\ report' = report

(* The top of the loop: the next target, whose first request is made.      *)
NextTarget(first) ==
  /\ walk.phase = "target" /\ walk.position <= Len(Order)
  /\ \/ IsOpen /\ Conclude("CIRCUIT_OPEN", TRUE) /\ UNCHANGED executorVars
     \/ ~IsOpen /\ Remaining = 0 /\ Conclude("BUDGET_EXHAUSTED", TRUE) /\ UNCHANGED executorVars
     \/ ~IsOpen /\ Remaining # 0 /\ Request(first)
  /\ UNCHANGED <<durable, now, runs>>

Succeeded(r) == r.status \in {"SUCCESS", "SUCCESS_RUN_BLOCKED"}
Stored       == operation.downstream \in {"CREATED", "REPLAYED"}

(* A request that did not give what was asked for.                         *)
Failed(r, status) ==
  /\ ~(Succeeded(r) /\ Stored)
  /\ Conclude(status, r.circuit = "OPEN" \/ r.status = "BUDGET_EXHAUSTED")
  /\ UNCHANGED executorVars

(* After the last target.                                                  *)
End(exit) ==
  /\ walk.phase = "target" /\ walk.position > Len(Order)
  /\ walk' = [walk EXCEPT !.phase = "ended", !.exit = exit]
  /\ UNCHANGED <<executorVars, report, operation, durable, now, runs>>

-----------------------------------------------------------------------------
(* #executeGoverned, under the executor                                    *)

Requesting == walk.phase \in Requests
Active     == <<Target, walk.phase>>

(* The bytes of the response in progress.                                  *)
Content == <<Active, operation.exchange.error, operation.payload>>

Operate(stage) ==
  /\ Requesting
  /\ pc[Active] = "awaiting" /\ operation.stage = stage

(* The client's answer.  Time may pass while the transport is awaited.     *)
Fetch(e, payload, instant) ==
  /\ Operate("none")
  /\ instant \in {now, now + 1} /\ instant <= MaxInstant
  /\ payload \in IF e.ok THEN Payloads[walk.phase] ELSE {None}
  /\ now' = instant
  /\ operation' = [operation EXCEPT !.stage = IF e.evidence THEN "fetched" ELSE "processed",
                                    !.exchange = e, !.payload = payload, !.at = instant]
  /\ UNCHANGED <<executorVars, walk, report, durable, runs>>

(* Mutant of Publish: what cannot be kept is processed all the same.       *)
PublishOrGoOn ==
  /\ Operate("fetched")
  /\ \/ evidence' = evidence \union {Content}
     \/ StorageMayFail /\ evidence' = evidence
  /\ operation' = [operation EXCEPT
       !.stage = IF operation.exchange.ok THEN "published" ELSE "processed"]
  /\ UNCHANGED <<executorVars, walk, report, db, now, runs>>

(* #publishEvidence, of good and of failed responses.                      *)
Publish ==
  /\ Operate("fetched")
  /\ \/ /\ evidence' = evidence \union {Content}
        /\ operation' = [operation EXCEPT
             !.stage = IF operation.exchange.ok THEN "published" ELSE "processed"]
     \/ /\ StorageMayFail
        /\ evidence' = evidence
        /\ operation' = [operation EXCEPT !.stage = "processed", !.downstream = "EVIDENCE_FAILED"]
  /\ UNCHANGED <<executorVars, walk, report, db, now, runs>>

Processed(downstream) ==
  operation' = [operation EXCEPT !.stage = "processed", !.downstream = downstream]

Persist(answer) ==
  \/ /\ db' = answer.db
     /\ Processed(CASE Accepts(answer)                    -> answer.disposition
                    [] answer.disposition = "CONFLICT"    -> "PERSISTENCE_CONFLICT"
                    [] OTHER                              -> "REQUEST_FAILED")
  \/ /\ StorageMayFail
     /\ db' = db
     /\ Processed("REQUEST_FAILED")

Respond ==
  /\ Operate("processed")
  /\ Executor!Respond(Active, operation.exchange)
  /\ operation' = [operation EXCEPT !.stage = "none"]
  /\ UNCHANGED <<walk, report, durable, now, runs>>

(* runId, and with it requestKeyHash, depends on the command and the       *)
(* targets only: the request is the same in every invocation.              *)
AuditRow ==
  [request |-> Active, number |-> number[Active], started |-> operation.started,
   finished |-> operation.at, classification |-> Executor!AuditRecord(Active).classification]

(* append, and what the executor does with its answer.                     *)
AppendRecord ==
  LET answer == AppendAudit(db, AuditRow) IN
  /\ Requesting /\ pc[Active] = "auditing"
  /\ \/ Accepts(answer) /\ db' = answer.db /\ Executor!Settle(Active)
     \/ ~Accepts(answer) /\ db' = db /\ Executor!AuditFails(Active)
     \/ StorageMayFail /\ db' = db /\ Executor!AuditFails(Active)
  /\ UNCHANGED <<walk, report, operation, evidence, now, runs>>

Retry ==
  /\ Requesting
  /\ Executor!Wake(Active)
  /\ operation' = [operation EXCEPT !.started = now]
  /\ UNCHANGED <<walk, report, durable, now, runs>>

(* The steps of a request but for what is made of its response.            *)
RequestStep ==
  \/ \E e \in Exchanges, instant \in now..MaxInstant :
       \E payload \in {None} \union UNION {Payloads[name] : name \in Requests} :
         Fetch(e, payload, instant)
  \/ Publish \/ Respond \/ AppendRecord \/ Retry

(* The last invocation has ended: nothing else is done.                    *)
Over ==
  /\ ~Running
  /\ runs = MaxRuns \/ now = MaxInstant
  /\ UNCHANGED vars

-----------------------------------------------------------------------------
(* What was done since this invocation began.                              *)
Since(rows) == {row \in rows : row.at >= walk.began}
OnRecord(c) == \E a \in db.audits :
                 a.request = c /\ a.number = number[c] /\ a.started >= walk.began
=============================================================================
