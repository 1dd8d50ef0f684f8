----------------------------- MODULE PrematchRun -----------------------------
(***************************************************************************)
(* The prematch command: collectPrematch walks the targets and asks for    *)
(* the fixture of each, then for its prediction if the fixture is still to *)
(* be played.  Everything else is the governed run's.                      *)
(***************************************************************************)
EXTENDS GovernedRun

CONSTANT Kickoff     \* the instant each target kicks off

(* What a payload holds for its target: how the selection and the mapper   *)
(* take it, whether the fixture is still to be played (status NS), and a   *)
(* version that stands for everything else.                                *)
FixtureKinds    == {"FOUND", "FIXTURE_NOT_FOUND", "FIXTURE_AMBIGUOUS", "MAPPING_FAILED",
                    "IDENTITY_MISMATCH"}
PredictionKinds == {"FOUND", "REQUEST_FAILED", "MAPPING_FAILED"}
PayloadsOf(kinds) == [kind : kinds, scheduled : BOOLEAN, version : Nat]

ASSUME PrematchAssumption ==
  /\ Requests = {"FIXTURE", "PREDICTION"}
  /\ NoRow \notin Nat /\ None # "PREMATCH_CAPTURED"
  /\ Kickoff \in [Targets -> Nat]
  /\ Payloads["FIXTURE"] \subseteq PayloadsOf(FixtureKinds)
  /\ Payloads["PREDICTION"] \subseteq PayloadsOf(PredictionKinds)

-----------------------------------------------------------------------------
(* collectPrematch                                                         *)

(* Mutant of FailureStatus: what was stored is reported as captured.       *)
FailureStatusOptimistic(r) ==
  IF Stored THEN "PREMATCH_CAPTURED"
  ELSE IF r.status \in {"BUDGET_EXHAUSTED", "CIRCUIT_OPEN", "AUDIT_FAILED"} THEN r.status
  ELSE IF operation.downstream # None THEN operation.downstream
  ELSE "REQUEST_FAILED"

(* #executeGoverned's classification of a request that failed, and the     *)
(* status failureStatus makes of it.                                       *)
FailureStatus(r) ==
  IF r.status \in {"BUDGET_EXHAUSTED", "CIRCUIT_OPEN", "AUDIT_FAILED"} THEN r.status
  ELSE IF operation.downstream # None /\ ~Stored THEN operation.downstream
  ELSE "REQUEST_FAILED"

(* The fixture request is back: is there a prediction to ask for?          *)
FixtureReturned ==
  LET r == result[<<Target, "FIXTURE">>]
      fixture == operation.payload
      stop(status, blocks) == Conclude(status, blocks) /\ UNCHANGED executorVars
  IN
  /\ walk.phase = "FIXTURE" /\ pc[<<Target, "FIXTURE">>] = "done"
  /\ \/ Failed(r, FailureStatus(r))
     \/ /\ Succeeded(r) /\ Stored
        /\ \/ ~fixture.scheduled /\ stop("STATUS_BLOCKED", FALSE)
           \/ /\ fixture.scheduled
              /\ operation.at >= Kickoff[Target]
              /\ stop("KICKOFF_NOT_FUTURE", FALSE)
           \/ /\ fixture.scheduled
              /\ operation.at < Kickoff[Target]
              /\ \/ /\ r.status = "SUCCESS_RUN_BLOCKED" \/ IsOpen
                    /\ stop("FIXTURE_CAPTURED_PREDICTION_NOT_REQUESTED", TRUE)
                 \/ /\ r.status = "SUCCESS" /\ ~IsOpen
                    /\ Remaining = 0
                    /\ stop("BUDGET_EXHAUSTED", TRUE)
                 \/ /\ r.status = "SUCCESS" /\ ~IsOpen
                    /\ Remaining # 0
                    /\ Request("PREDICTION")
  /\ UNCHANGED <<durable, now, runs>>

(* Mutant of PredictionReturned: a capture never blocks the run.           *)
PredictionReturnedUnblocked ==
  LET r == result[<<Target, "PREDICTION">>] IN
  /\ walk.phase = "PREDICTION" /\ pc[<<Target, "PREDICTION">>] = "done"
  /\ \/ Failed(r, FailureStatus(r))
     \/ /\ Succeeded(r) /\ Stored
        /\ Conclude("PREMATCH_CAPTURED", FALSE)
        /\ UNCHANGED executorVars
  /\ UNCHANGED <<durable, now, runs>>

(* The prediction request is back.                                         *)
PredictionReturned ==
  LET r == result[<<Target, "PREDICTION">>] IN
  /\ walk.phase = "PREDICTION" /\ pc[<<Target, "PREDICTION">>] = "done"
  /\ \/ Failed(r, FailureStatus(r))
     \/ /\ Succeeded(r) /\ Stored
        /\ Conclude(IF operation.downstream = "REPLAYED" THEN "REPLAYED" ELSE "PREMATCH_CAPTURED",
                    r.status = "SUCCESS_RUN_BLOCKED")
        /\ UNCHANGED executorVars
  /\ UNCHANGED <<durable, now, runs>>

Captured(t) == report[t] \in {"PREMATCH_CAPTURED", "REPLAYED"}

Exit ==
  IF walk.blocked THEN "BLOCKED"
  ELSE IF \A t \in Targets : Captured(t) THEN "COMPLETE"
  ELSE IF /\ \A t \in Targets : ~Captured(t)
          /\ \E t \in Targets : report[t] \in {"REQUEST_FAILED", "AUDIT_FAILED"}
       THEN "FAILED"
  ELSE "PARTIAL"

-----------------------------------------------------------------------------
(* Mutant of BeforeKickoff: it is enough to have asked before kickoff.     *)
AskedBeforeKickoff(at) == operation.started < Kickoff[Target]

(* Whether a prediction captured at an instant is one of before kickoff.   *)
BeforeKickoff(at) == at < Kickoff[Target]

(* The process callback: select or count the rows, map, check, persist.    *)
Process ==
  /\ Operate("published")
  /\ \/ operation.payload.kind # "FOUND" /\ Processed(operation.payload.kind) /\ db' = db
     \/ /\ operation.payload.kind = "FOUND"
        /\ walk.phase = "FIXTURE"
        /\ Persist(PersistFixture(db, Target, Content, operation.payload.version))
     \/ /\ operation.payload.kind = "FOUND"
        /\ walk.phase = "PREDICTION"
        /\ \/ /\ ~BeforeKickoff(operation.at)
              /\ Processed("POST_KICKOFF_PREDICTION_BLOCKED")
              /\ db' = db
           \/ /\ BeforeKickoff(operation.at)
              /\ Persist(PersistPrediction(db, Target, Content, operation.at))
  /\ UNCHANGED <<executorVars, walk, report, evidence, now, runs>>

RunStep ==
  \/ NextTarget("FIXTURE") \/ FixtureReturned \/ PredictionReturned \/ End(Exit)
  \/ RequestStep \/ Process

Next == Invoke \/ Crash \/ RunStep \/ Over

Spec == Init /\ [][Next]_vars

(* The process keeps running: every await of the command settles.          *)
FairSpec == Spec /\ WF_vars(RunStep)

-----------------------------------------------------------------------------
(* Properties                                                              *)

(* A stored prediction was captured before its kickoff, for a target whose *)
(* binding is stored, however long the awaits and the retries took         *)
(* (api-football-r0-operations.md:54).                                     *)
SnapshotsArePrematch ==
  \A p \in db.predictions : p.at < Kickoff[p.target] /\ db.bindings[p.target] # NoRow

(* SQLite never refers to evidence that is not in the store, wherever the  *)
(* process died (api-football-r0-operations.md:55 and 70).                 *)
ArtifactsHaveEvidence == db.artifacts \subseteq evidence

(* What the run says of a target is what it left in the database: captured *)
(* means stored and audited in this run; and when a prediction of this run *)
(* is stored, the run says so, unless it stopped because the record of the *)
(* request was lost or its quota headers were rejected, so that no failure *)
(* but these two hides a stored prediction (provider.ts:583).              *)
ReportIsTrue ==
  Running \/ walk.phase = "ended" => \A t \in Targets :
    LET stored == \E p \in Since(db.predictions) : p.target = t IN
    /\ Captured(t) =>
         stored /\ OnRecord(<<t, "FIXTURE">>) /\ OnRecord(<<t, "PREDICTION">>)
    /\ stored /\ report[t] # None =>
         \/ Captured(t)
         \/ report[t] \in {"AUDIT_FAILED", "REQUEST_FAILED"} /\ IsOpen

(* COMPLETE means that every target was captured and the run could have    *)
(* gone on; BLOCKED that the breaker is open or the budget is spent.       *)
ExitIsTrue ==
  /\ walk.exit = "COMPLETE" => ~IsOpen /\ \A t \in Targets : Captured(t)
  /\ walk.exit = "BLOCKED" => IsOpen \/ Remaining = 0

(* Every attempt of the run that got its response is on record with its    *)
(* own start, even when it failed (api-football-r0-operations.md:46).      *)
Concluded(c) == pc[c] \in {"sleeping", "done"} /\ number[c] > 0

EveryAttemptOnRecord ==
  Running \/ walk.phase = "ended" => \A c \in Calls : Concluded(c) => OnRecord(c)

(* Every invocation comes to its end.                                      *)
EveryRunEnds == [](Running => <>~Running)
=============================================================================
