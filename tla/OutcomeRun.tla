----------------------------- MODULE OutcomeRun -----------------------------
(***************************************************************************)
(* The resolve command: resolveOutcomes asks for the result of each target *)
(* once, and what mapApiFootballResult accepts becomes a row of outcome.   *)
(* Everything else is the governed run's.  The bindings of the targets are *)
(* in the database already: the command refuses to start without them.     *)
(***************************************************************************)
EXTENDS GovernedRun

(* What a response holds: how many rows, whether the row is the fixture    *)
(* asked for (identity, kickoff and time zone), its status and its scores, *)
(* and a version that stands for everything else in its bytes.             *)
Scores   == Nat \union {None}
Pair     == [home : Scores, away : Scores]
Statuses == {"NS", "FT", "AET", "PEN"}
Response ==
  [rows : Nat, identified : BOOLEAN, status : Statuses, fulltime : Pair,
   extratime : Pair, penalty : Pair, goals : BOOLEAN, version : Nat]

(* null is neither a status of the command nor a side.                     *)
ASSUME OutcomeAssumption ==
  /\ Requests = {"OUTCOME"}
  /\ None \notin {"RESOLVED_CREATED", "RESOLVED_REPLAYED", "HOME", "AWAY"}
  /\ Payloads["OUTCOME"] \subseteq Response

-----------------------------------------------------------------------------
(* mapApiFootballResult                                                    *)

CompletePair(p)   == p.home # None /\ p.away # None
ConsistentPair(p) == (p.home = None) <=> (p.away = None)

Ahead(p) == IF p.home > p.away THEN "HOME" ELSE "AWAY"

Result1X2(p) == IF p.home = p.away THEN "DRAW" ELSE Ahead(p)

Resolution(p) ==
  [status |-> p.status, result1X2 |-> Result1X2(p.fulltime), regulation |-> p.fulltime,
   extra |-> p.extratime, penalty |-> p.penalty,
   shootoutWinner |-> IF p.status = "PEN" THEN Ahead(p.penalty) ELSE None,
   goals |-> p.goals]

(* Mutant of Verdict: any score the provider gives is a result.            *)
VerdictEarly(p) ==
  IF ~p.identified THEN "MAPPING_FAILED"
  ELSE IF ~CompletePair(p.fulltime) THEN "RESULT_SCORE_INCOMPLETE"
  ELSE "RESOLVED"

(* Whether there is a resolution, or why not: the first reason counts.     *)
Verdict(p) ==
  LET needed == {p.fulltime} \union (IF p.status = "AET" THEN {p.extratime} ELSE {})
                             \union (IF p.status = "PEN" THEN {p.penalty} ELSE {})
  IN
  IF ~p.identified THEN "MAPPING_FAILED"
  ELSE IF p.status = "NS" THEN "PENDING_NOT_TERMINAL"
  ELSE IF \E pair \in needed : ~CompletePair(pair) THEN "RESULT_SCORE_INCOMPLETE"
  ELSE IF \/ p.status = "PEN" /\ p.penalty.home = p.penalty.away
          \/ ~ConsistentPair(p.extratime) \/ ~ConsistentPair(p.penalty)
       THEN "INVALID_SCORE_SEMANTICS"
  ELSE "RESOLVED"

(* The process callback: one row, mapped, and stored.                      *)
Process ==
  LET p == operation.payload IN
  /\ Operate("published")
  /\ \/ p.rows # 1 /\ Processed("REQUEST_FAILED") /\ db' = db
     \/ p.rows = 1 /\ Verdict(p) # "RESOLVED" /\ Processed(Verdict(p)) /\ db' = db
     \/ /\ p.rows = 1 /\ Verdict(p) = "RESOLVED"
        /\ Persist(PersistOutcome(db, Target, Content, operation.at, Resolution(p)))
  /\ UNCHANGED <<executorVars, walk, report, evidence, now, runs>>

-----------------------------------------------------------------------------
(* resolveOutcomes                                                         *)

(* Mutant of FailureStatus: what was stored is reported as resolved.       *)
FailureStatusOptimistic(r) ==
  IF Stored THEN "RESOLVED_CREATED"
  ELSE IF r.status \in {"BUDGET_EXHAUSTED", "CIRCUIT_OPEN", "AUDIT_FAILED"} THEN r.status
  ELSE IF operation.downstream # None THEN operation.downstream
  ELSE "REQUEST_FAILED"

(* What the mapper says of a result comes before the state of the run, but *)
(* a lost audit record hides it.                                           *)
FailureStatus(r) ==
  LET said == {"PENDING_NOT_TERMINAL", "RESULT_SCORE_INCOMPLETE", "INVALID_SCORE_SEMANTICS"}
  IN
  IF r.status = "AUDIT_FAILED" THEN "AUDIT_FAILED"
  ELSE IF operation.downstream \in said THEN operation.downstream
  ELSE IF r.status \in {"BUDGET_EXHAUSTED", "CIRCUIT_OPEN"} THEN r.status
  ELSE IF operation.downstream # None /\ ~Stored THEN operation.downstream
  ELSE "REQUEST_FAILED"

OutcomeReturned ==
  LET r == result[<<Target, "OUTCOME">>] IN
  /\ walk.phase = "OUTCOME" /\ pc[<<Target, "OUTCOME">>] = "done"
  /\ \/ Failed(r, FailureStatus(r))
     \/ /\ Succeeded(r) /\ Stored
        /\ Conclude(IF operation.downstream = "CREATED" THEN "RESOLVED_CREATED"
                                                         ELSE "RESOLVED_REPLAYED",
                    r.status = "SUCCESS_RUN_BLOCKED")
        /\ UNCHANGED executorVars
  /\ UNCHANGED <<durable, now, runs>>

Resolved(t) == report[t] \in {"RESOLVED_CREATED", "RESOLVED_REPLAYED"}

Exit ==
  IF walk.blocked THEN "BLOCKED"
  ELSE IF \A t \in Targets : Resolved(t) THEN "COMPLETE"
  ELSE IF \E t \in Targets : Resolved(t) \/ report[t] = "PENDING_NOT_TERMINAL" THEN "PARTIAL"
  ELSE "FAILED"

RunStep ==
  NextTarget("OUTCOME") \/ OutcomeReturned \/ End(Exit) \/ RequestStep \/ Process

Next == Invoke \/ Crash \/ RunStep \/ Over

Spec == Init /\ [][Next]_vars

-----------------------------------------------------------------------------
(* Properties                                                              *)

(* A stored outcome can be shown and is final: its bytes are in the        *)
(* evidence store and registered, are those of one row identified as its   *)
(* target's, with a terminal status and the complete scores that status    *)
(* has; the 1X2 is that of regulation time, and there is the winner of a   *)
(* shootout when there was one; whichever attempt or invocation stored it  *)
(* (api-football-r0-operations.md:55).                                     *)
OutcomesAreEvidenced ==
  \A o \in db.outcomes :
    LET p == o.content[3] IN
    /\ o.content \in evidence \intersect db.artifacts
    /\ o.content[1][1] = o.target
    /\ p.rows = 1 /\ p.identified /\ p.status \in {"FT", "AET", "PEN"}
    /\ CompletePair(p.fulltime) /\ o.resolution.result1X2 = Result1X2(p.fulltime)
    /\ p.status = "AET" => CompletePair(p.extratime)
    /\ IF p.status = "PEN"
       THEN /\ CompletePair(p.penalty) /\ p.penalty.home # p.penalty.away
            /\ o.resolution.shootoutWinner = Ahead(p.penalty)
       ELSE o.resolution.shootoutWinner = None

(* What the run says is what it left: resolved means stored and audited in *)
(* this run, created means stored in this run; an outcome stored in this   *)
(* run is hidden only by a lost audit record or by rejected quota headers; *)
(* and COMPLETE means that all are resolved and the run could go on,       *)
(* BLOCKED that it could not.                                              *)
ReportIsTrue ==
  /\ Running \/ walk.phase = "ended" => \A t \in Targets :
       LET outcomes == {o \in db.outcomes : o.target = t}
           fresh    == Since(outcomes)
       IN
       /\ Resolved(t) => outcomes # {} /\ OnRecord(<<t, "OUTCOME">>)
       /\ report[t] = "RESOLVED_CREATED" => fresh # {}
       /\ fresh # {} /\ report[t] # None =>
            \/ Resolved(t)
            \/ report[t] \in {"AUDIT_FAILED", "REQUEST_FAILED"} /\ IsOpen
  /\ walk.exit = "COMPLETE" => ~IsOpen /\ \A t \in Targets : Resolved(t)
  /\ walk.exit = "BLOCKED" => IsOpen \/ Remaining = 0
=============================================================================
