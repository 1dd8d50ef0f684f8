------------------------- MODULE PrematchRun_proofs -------------------------
(***************************************************************************)
(* Proofs about PrematchRun, for any targets, kickoffs, responses and      *)
(* failures.  To what holds of both commands (Governed) the invariant adds *)
(* what the rows of predictions are (Evidenced), what the prediction       *)
(* request rests on (Asked), what the report says of the targets           *)
(* (Reported) and how the run ends (Ended).                                *)
(***************************************************************************)
EXTENDS PrematchRun, GovernedRun_proofs

-----------------------------------------------------------------------------
(* The invariant.                                                          *)

(* What is stored was captured before its kickoff.                         *)
Evidenced ==
  /\ operation.downstream # "PREMATCH_CAPTURED"
  /\ \A p \in db.predictions :
       /\ p.at \in Nat /\ p.at <= now /\ p.at < Kickoff[p.target]
       /\ p.target \in Targets /\ db.bindings[p.target] # NoRow

StoredNow(t) == \E p \in Since(db.predictions) : p.target = t

(* A prediction is asked for after its fixture, and what is said to be     *)
(* stored is.                                                              *)
Asked ==
  walk.phase = "PREDICTION" =>
    /\ OnRecord(<<Target, "FIXTURE">>)
    /\ Stored => StoredNow(Target)

Told(t) ==
  /\ Captured(t) => /\ StoredNow(t)
                    /\ OnRecord(<<t, "FIXTURE">>) /\ OnRecord(<<t, "PREDICTION">>)
  /\ StoredNow(t) /\ report[t] # None =>
       \/ Captured(t)
       \/ report[t] \in {"AUDIT_FAILED", "REQUEST_FAILED"} /\ IsOpen

Reported ==
  walk.phase # "off" => \A t \in Targets :
    /\ Told(t)
    /\ StoredNow(t) => \/ report[t] # None
                       \/ walk.phase = "PREDICTION" /\ t = Target /\ Stored

(* What ends the run, and what is said of it.                              *)
Ended ==
  /\ walk.phase = "target" /\ IsOpen =>
       \/ walk.blocked
       \/ \E i \in 1 .. Len(Order) : i < walk.position /\ ~Captured(Order[i])
  /\ ExitIsTrue

(* All that holds of the run.                                              *)
RunInv == Governed /\ Evidenced /\ Asked /\ Reported /\ Ended

LEMMA PrematchWords ==
  /\ None \notin {"PREMATCH_CAPTURED", "REPLAYED"}
  /\ Requests = {"FIXTURE", "PREDICTION"}
  BY GovernedRunAssumption, PrematchAssumption

(* Without a new row the rows are what they were.                          *)
LEMMA EvidencedKept ==
  ASSUME Evidenced, db'.predictions = db.predictions, db'.bindings = db.bindings,
         now \in Nat, now' \in Nat, now <= now',
         operation'.downstream \in {None, operation.downstream, "EVIDENCE_FAILED"}
  PROVE  Evidenced'
<1>1. \A p \in db.predictions : p.at \in Nat /\ p.at <= now /\ p.at <= now'
  BY DEF Evidenced
<1>2. QED
  BY <1>1, PrematchWords DEF Evidenced

LEMMA StoredKept ==
  ASSUME db'.predictions = db.predictions, walk'.began = walk.began, NEW t
  PROVE  StoredNow(t)' <=> StoredNow(t)
  BY DEF StoredNow, Since

LEMMA ToldKept ==
  ASSUME NEW t, Told(t), report'[t] = report[t], StoredNow(t)' <=> StoredNow(t),
         OnRecord(<<t, "FIXTURE">>) => OnRecord(<<t, "FIXTURE">>)',
         OnRecord(<<t, "PREDICTION">>) => OnRecord(<<t, "PREDICTION">>)',
         IsOpen => IsOpen'
  PROVE  Told(t)'
  BY DEF Told, Captured

-----------------------------------------------------------------------------
(* The walk.                                                               *)

(* A conclusion that tells the truth about its target.                     *)
LEMMA ConcludedHolds ==
  ASSUME RunInv, walk.phase \notin {"off", "ended"}, walk.position \in 1 .. Len(Order),
         NEW status, NEW blocks \in BOOLEAN, Governed', ConcludedAs(status, blocks),
         status \in {"PREMATCH_CAPTURED", "REPLAYED"} =>
           /\ StoredNow(Target)
           /\ OnRecord(<<Target, "FIXTURE">>) /\ OnRecord(<<Target, "PREDICTION">>),
         StoredNow(Target) =>
           \/ status \in {"PREMATCH_CAPTURED", "REPLAYED"}
           \/ status \in {"AUDIT_FAILED", "REQUEST_FAILED"} /\ IsOpen,
         IsOpen => blocks \/ status \notin {"PREMATCH_CAPTURED", "REPLAYED"}
  PROVE  RunInv'
<1>1. /\ walk'.phase = "target" /\ walk'.position = walk.position + 1
      /\ walk'.blocked = (walk.blocked \/ blocks)
      /\ walk'.began = walk.began
      /\ operation'.downstream = None
      /\ report'[Target] = status
      /\ \A t \in Targets : t # Target => report'[t] = report[t]
      /\ UNCHANGED <<number, db, now>>
      /\ IsOpen' <=> IsOpen
  BY DEF ConcludedAs
<1>2. Target \in Targets
  BY AtTarget DEF RunInv
<1>3. /\ \A t : StoredNow(t)' <=> StoredNow(t)
      /\ \A c : OnRecord(c)' <=> OnRecord(c)
  BY <1>1 DEF StoredNow, Since, OnRecord
<1>4. now \in Nat
  BY DEF RunInv, Governed, Memory
<1>5. Evidenced'
  BY <1>1, <1>4, EvidencedKept DEF RunInv
<1>6. Asked'
  BY <1>1 DEF Asked
<1>7. Reported'
  <2> SUFFICES ASSUME NEW t \in Targets
               PROVE  Told(t)' /\ (StoredNow(t)' => report'[t] # None)
    BY DEF Reported
  <2>1. CASE t = Target
    BY <1>1, <1>3, <2>1, Words, PrematchWords DEF Told, Captured
  <2>2. CASE t # Target
    <3>1. Told(t) /\ (StoredNow(t) => report[t] # None)
      BY <2>2 DEF RunInv, Reported
    <3>2. QED
      BY <1>1, <1>3, <2>2, <3>1, ToldKept
  <2>3. QED
    BY <2>1, <2>2
<1>8. IsOpen' => \/ walk'.blocked
                 \/ \E i \in 1 .. Len(Order) : i < walk'.position /\ ~Captured(Order[i])'
  <2>1. CASE blocks
    BY <1>1, <2>1 DEF RunInv, Governed, Memory
  <2>2. CASE IsOpen /\ status \notin {"PREMATCH_CAPTURED", "REPLAYED"}
    <3>1. PICK i \in 1 .. Len(Order) : i = walk.position
      OBVIOUS
    <3>2. Order[i] = Target /\ i < walk'.position
      BY <1>1, <3>1, PositionFacts DEF Target
    <3>3. ~Captured(Order[i])'
      BY <1>1, <2>2, <3>2 DEF Captured
    <3>4. QED
      BY <3>2, <3>3
  <2>3. QED
    BY <1>1, <2>1, <2>2
<1>9. Ended'
  <2>1. walk'.exit = None
    BY <1>1 DEF Governed, Paced
  <2>2. ExitIsTrue'
    BY <2>1, Words DEF ExitIsTrue
  <2>3. QED
    BY <1>8, <2>2 DEF Ended
<1>10. QED
  BY <1>5, <1>6, <1>7, <1>9 DEF RunInv

(* A request that is made for a target of which nothing is stored yet.     *)
LEMMA RequestedHolds ==
  ASSUME RunInv, walk.phase \in {"target", "FIXTURE"}, report[Target] = None,
         NEW name \in Requests, Governed', RequestedAs(name), ~IsOpen,
         name = "PREDICTION" => OnRecord(<<Target, "FIXTURE">>)
  PROVE  RunInv'
<1> DEFINE c == <<Target, name>>
<1>1. /\ walk'.phase = name /\ walk'.began = walk.began
      /\ operation'.downstream = None
      /\ Target \in Targets /\ Target' = Target /\ c \in Calls
      /\ \A d \in Calls : d # c => number'[d] = number[d]
      /\ UNCHANGED <<report, db, now>>
  BY DEF RequestedAs
<1>2. ~Stored' /\ now \in Nat /\ walk'.exit = None
  BY <1>1, Words DEF Stored, RunInv, Governed, Memory, Paced
<1>3. \A t : StoredNow(t)' <=> StoredNow(t)
  BY <1>1 DEF StoredNow, Since
<1>4. \A d \in Calls : d # c /\ OnRecord(d) => OnRecord(d)'
  BY <1>1, RecordKept
<1>5. \A t \in Targets : <<t, "FIXTURE">> \in Calls /\ <<t, "PREDICTION">> \in Calls
  BY PrematchWords DEF Calls
<1>6. Evidenced'
  BY <1>1, <1>2, EvidencedKept DEF RunInv
<1>7. Asked'
  <2>1. name = "PREDICTION" => <<Target, "FIXTURE">> # c
    OBVIOUS
  <2>2. name = "PREDICTION" => OnRecord(<<Target, "FIXTURE">>)'
    BY <1>1, <1>4, <1>5, <2>1
  <2>3. QED
    BY <1>1, <1>2, <2>2 DEF Asked
<1>8. Reported'
  <2> SUFFICES ASSUME NEW t \in Targets
               PROVE  Told(t)' /\ (StoredNow(t)' => report'[t] # None)
    BY DEF Reported
  <2>1. Told(t) /\ (StoredNow(t) => report[t] # None)
    BY DEF RunInv, Reported
  <2>2. CASE t = Target
    BY <1>1, <1>3, <2>1, <2>2, PrematchWords DEF Told, Captured
  <2>3. CASE t # Target
    <3>1. <<t, "FIXTURE">> # c /\ <<t, "PREDICTION">> # c
      BY <2>3
    <3>2. QED
      BY <1>1, <1>3, <1>4, <1>5, <2>1, <3>1, ToldKept
  <2>4. QED
    BY <2>2, <2>3
<1>9. Ended'
  BY <1>1, <1>2, Words DEF Ended, ExitIsTrue
<1>10. QED
  BY <1>6, <1>7, <1>8, <1>9 DEF RunInv

LEMMA InvokeHolds ==
  ASSUME RunInv, Invoke
  PROVE  RunInv'
<1>1. /\ Governed' /\ walk'.phase = "target" /\ walk'.exit = None
      /\ walk'.began = now + 1 /\ now' = now + 1 /\ now \in Nat
      /\ operation'.downstream = None
      /\ db' = db /\ ~IsOpen'
      /\ \A t \in Targets : report'[t] = None
  BY InvokeGoverned DEF RunInv
<1>2. \A t : ~StoredNow(t)'
  <2>1. \A p \in db'.predictions : p.at \in Nat /\ p.at <= now
    BY <1>1 DEF RunInv, Evidenced
  <2>2. QED
    BY <1>1, <2>1 DEF StoredNow, Since
<1>3. Evidenced'
  BY <1>1, EvidencedKept DEF RunInv
<1>4. Asked' /\ Reported'
  BY <1>1, <1>2, PrematchWords DEF Asked, Reported, Told, Captured
<1>5. Ended'
  BY <1>1, Words DEF Ended, ExitIsTrue
<1>6. QED
  BY <1>1, <1>3, <1>4, <1>5 DEF RunInv

LEMMA CrashHolds ==
  ASSUME RunInv, Crash
  PROVE  RunInv'
<1>1. /\ Governed' /\ walk'.phase = "off" /\ walk'.exit = None
      /\ operation'.downstream = None /\ UNCHANGED <<db, now>> /\ now \in Nat
  BY CrashGoverned DEF RunInv, Governed, Memory
<1>2. Evidenced'
  BY <1>1, EvidencedKept DEF RunInv
<1>3. QED
  BY <1>1, <1>2, Words DEF RunInv, Asked, Reported, Ended, ExitIsTrue

LEMMA NextTargetHolds ==
  ASSUME RunInv, NextTarget("FIXTURE")
  PROVE  RunInv'
<1>1. /\ Governed'
      /\ walk.phase = "target" /\ walk.position \in 1 .. Len(Order)
      /\ Target \in Targets /\ report[Target] = None
      /\ \/ RequestedAs("FIXTURE") /\ ~IsOpen
         \/ \E status \in {"CIRCUIT_OPEN", "BUDGET_EXHAUSTED"} : ConcludedAs(status, TRUE)
  BY PrematchWords, NextTargetGoverned DEF RunInv
<1>2. ~StoredNow(Target)
  BY <1>1 DEF RunInv, Reported
<1>3. CASE \E status \in {"CIRCUIT_OPEN", "BUDGET_EXHAUSTED"} : ConcludedAs(status, TRUE)
  BY <1>1, <1>2, <1>3, ConcludedHolds
<1>4. CASE RequestedAs("FIXTURE") /\ ~IsOpen
  BY <1>1, <1>4, RequestedHolds, PrematchWords
<1>5. QED
  BY <1>1, <1>3, <1>4

(* A request that failed is not reported as captured.                      *)
LEMMA FailedHolds ==
  ASSUME RunInv, NEW name \in Requests, walk.phase = name, pc[<<Target, name>>] = "done",
         UNCHANGED <<durable, now>>,
         Failed(result[<<Target, name>>], FailureStatus(result[<<Target, name>>]))
  PROVE  RunInv'
<1> DEFINE r == result[<<Target, name>>]
           status == FailureStatus(r)
<1>1. /\ Governed'
      /\ Stored => r.status \in {"AUDIT_FAILED", "FAILED"} /\ IsOpen
      /\ \E blocks \in BOOLEAN : ConcludedAs(status, blocks) /\ (IsOpen => blocks)
  BY FailedGoverned DEF RunInv
<1>2. /\ walk.position \in 1 .. Len(Order) /\ Target \in Targets
      /\ walk.phase \notin {"off", "target", "ended"}
      /\ report[Target] = None
  BY ReturnIs DEF RunInv
<1>3. status \notin {"PREMATCH_CAPTURED", "REPLAYED"}
  BY DEF FailureStatus, Stored, RunInv, Evidenced
<1>4. StoredNow(Target) => status \in {"AUDIT_FAILED", "REQUEST_FAILED"} /\ IsOpen
  BY <1>1, <1>2 DEF FailureStatus, RunInv, Reported
<1> HIDE DEF status
<1>5. QED
  BY <1>1, <1>2, <1>3, <1>4, ConcludedHolds

LEMMA FixtureReturnedHolds ==
  ASSUME RunInv, FixtureReturned
  PROVE  RunInv'
<1> DEFINE r == result[<<Target, "FIXTURE">>]
<1>1. /\ walk.phase = "FIXTURE" /\ pc[<<Target, "FIXTURE">>] = "done"
      /\ UNCHANGED <<durable, now>> /\ "FIXTURE" \in Requests
  BY PrematchWords DEF FixtureReturned
<1>2. /\ walk.position \in 1 .. Len(Order) /\ Target \in Targets
      /\ walk.phase \notin {"off", "ended"}
      /\ Returned(r) /\ report[Target] = None
      /\ Active = <<Target, "FIXTURE">>
  BY <1>1, ReturnIs DEF RunInv
<1>3. ~StoredNow(Target)
  BY <1>1, <1>2 DEF RunInv, Reported
<1>4. CASE Failed(r, FailureStatus(r))
  BY <1>1, <1>4, FailedHolds
<1>5. CASE \E status \in {"STATUS_BLOCKED", "KICKOFF_NOT_FUTURE",
                          "FIXTURE_CAPTURED_PREDICTION_NOT_REQUESTED", "BUDGET_EXHAUSTED"} :
             \E blocks \in BOOLEAN :
               /\ Conclude(status, blocks) /\ UNCHANGED executorVars
               /\ blocks => IsOpen \/ Remaining = 0
  <2>1. PICK status \in {"STATUS_BLOCKED", "KICKOFF_NOT_FUTURE",
                         "FIXTURE_CAPTURED_PREDICTION_NOT_REQUESTED", "BUDGET_EXHAUSTED"},
             blocks \in BOOLEAN : Governed' /\ ConcludedAs(status, blocks)
    BY <1>1, <1>2, <1>5, ConcludeGoverned DEF RunInv
  <2>2. QED
    BY <1>2, <1>3, <2>1, ConcludedHolds
<1>6. CASE Succeeded(r) /\ ~IsOpen /\ Request("PREDICTION")
  <2>1. OnRecord(<<Target, "FIXTURE">>)
    BY <1>2, <1>6 DEF Returned
  <2>2. Governed' /\ RequestedAs("PREDICTION")
    BY <1>1, <1>2, <1>6, RequestGoverned, PrematchWords DEF RunInv
  <2>3. QED
    BY <1>1, <1>2, <1>6, <2>1, <2>2, RequestedHolds, PrematchWords
<1>7. r.status = "SUCCESS_RUN_BLOCKED" => IsOpen
  BY <1>2 DEF Returned
<1>8. QED
  BY <1>4, <1>5, <1>6, <1>7 DEF FixtureReturned

LEMMA PredictionReturnedHolds ==
  ASSUME RunInv, PredictionReturned
  PROVE  RunInv'
<1> DEFINE r == result[<<Target, "PREDICTION">>]
           blocks == r.status = "SUCCESS_RUN_BLOCKED"
<1>1. /\ walk.phase = "PREDICTION" /\ pc[<<Target, "PREDICTION">>] = "done"
      /\ UNCHANGED <<durable, now>> /\ "PREDICTION" \in Requests
  BY PrematchWords DEF PredictionReturned
<1>2. /\ walk.position \in 1 .. Len(Order)
      /\ walk.phase \notin {"off", "ended"}
      /\ Returned(r) /\ Active = <<Target, "PREDICTION">>
      /\ OnRecord(<<Target, "FIXTURE">>) /\ (Stored => StoredNow(Target))
  BY <1>1, ReturnIs DEF RunInv, Asked
<1>3. CASE Failed(r, FailureStatus(r))
  BY <1>1, <1>3, FailedHolds
<1>4. CASE /\ Succeeded(r) /\ Stored /\ UNCHANGED executorVars
           /\ \E status \in {"PREMATCH_CAPTURED", "REPLAYED"} : Conclude(status, blocks)
  <2>1. OnRecord(<<Target, "PREDICTION">>) /\ StoredNow(Target)
    BY <1>2, <1>4 DEF Returned
  <2>2. blocks \in BOOLEAN /\ (blocks => IsOpen) /\ (IsOpen => blocks)
    BY <1>2, <1>4 DEF Returned, Succeeded
  <2> HIDE DEF blocks
  <2>3. PICK status \in {"PREMATCH_CAPTURED", "REPLAYED"} :
          Governed' /\ ConcludedAs(status, blocks)
    BY <1>1, <1>2, <1>4, <2>2, ConcludeGoverned DEF RunInv
  <2>4. QED
    BY <1>2, <2>1, <2>2, <2>3, ConcludedHolds
<1>5. QED
  BY <1>3, <1>4 DEF PredictionReturned

LEMMA EndHolds ==
  ASSUME RunInv, End(Exit)
  PROVE  RunInv'
<1>1. /\ Governed'
      /\ walk.phase = "target" /\ walk.position > Len(Order)
      /\ walk'.phase = "ended" /\ walk'.exit = Exit /\ walk'.began = walk.began
      /\ UNCHANGED <<report, operation, number, db, now>>
      /\ IsOpen' <=> IsOpen
      /\ Remaining' = Remaining
      /\ walk.blocked => IsOpen \/ Remaining = 0
  BY EndGoverned DEF RunInv
<1>2. Evidenced'
  BY <1>1, EvidencedKept DEF RunInv, Governed, Memory
<1>3. Asked'
  BY <1>1 DEF Asked
<1>4. Reported'
  BY <1>1 DEF RunInv, Reported, Told, StoredNow, Since, OnRecord, Captured
<1>5. Exit = "BLOCKED" => walk.blocked
  BY DEF Exit
<1>6. Exit = "COMPLETE" => ~walk.blocked /\ \A t \in Targets : Captured(t)
  BY DEF Exit
<1>7. Exit = "COMPLETE" => ~IsOpen
  <2>1. IsOpen => walk.blocked \/ \E i \in 1 .. Len(Order) : ~Captured(Order[i])
    BY <1>1 DEF RunInv, Ended
  <2>2. QED
    BY <1>6, <2>1, PositionFacts
<1>8. \A t : Captured(t)' <=> Captured(t)
  BY <1>1 DEF Captured
<1>9. Ended'
  BY <1>1, <1>5, <1>6, <1>7, <1>8 DEF Ended, ExitIsTrue
<1>10. QED
  BY <1>1, <1>2, <1>3, <1>4, <1>9 DEF RunInv

-----------------------------------------------------------------------------
(* The request in progress.                                                *)

(* What it does not change of the report and of what ends the run.         *)
LEMMA ReportKept ==
  ASSUME RunInv, Requesting, UNCHANGED <<walk, report>>, Target' = Target,
         \A t : StoredNow(t) => StoredNow(t)',
         \A t : StoredNow(t)' =>
           StoredNow(t) \/ (t = Target /\ walk.phase = "PREDICTION" /\ Stored'),
         Stored => Stored', IsOpen => IsOpen',
         \A t \in Targets : t # Target =>
           /\ OnRecord(<<t, "FIXTURE">>) => OnRecord(<<t, "FIXTURE">>)'
           /\ OnRecord(<<t, "PREDICTION">>) => OnRecord(<<t, "PREDICTION">>)'
  PROVE  Reported' /\ Ended'
<1>1. walk.phase \notin {"off", "target", "ended"} /\ report[Target] = None
  BY RequestIs DEF RunInv
<1>2. Reported'
  <2> SUFFICES ASSUME NEW t \in Targets
               PROVE  /\ Told(t)'
                      /\ StoredNow(t)' =>
                           \/ report'[t] # None
                           \/ walk'.phase = "PREDICTION" /\ t = Target /\ Stored'
    BY DEF Reported
  <2>1. /\ Told(t)
        /\ StoredNow(t) => \/ report[t] # None
                           \/ walk.phase = "PREDICTION" /\ t = Target /\ Stored
    BY <1>1 DEF RunInv, Reported
  <2>2. CASE t = Target
    BY <1>1, <2>1, <2>2, PrematchWords DEF Told, Captured
  <2>3. CASE t # Target
    <3>1. StoredNow(t)' <=> StoredNow(t)
      BY <2>3
    <3>2. QED
      BY <2>1, <2>3, <3>1, ToldKept
  <2>4. QED
    BY <2>2, <2>3
<1>3. Ended'
  BY <1>1, Words DEF RunInv, Governed, Paced, Ended, ExitIsTrue
<1>4. QED
  BY <1>2, <1>3

LEMMA RequestStepHolds ==
  ASSUME RunInv, RequestStep
  PROVE  RunInv'
<1>1. Governed' /\ RequestGoesOn
  BY RequestStepGoverned DEF RunInv
<1>2. \A t : StoredNow(t)' <=> StoredNow(t)
  BY <1>1, StoredKept DEF RequestGoesOn
<1>3. \A c \in Calls : c # Active /\ OnRecord(c) => OnRecord(c)'
  BY <1>1, RecordKept DEF RequestGoesOn
<1>4. Evidenced'
  BY <1>1, EvidencedKept DEF RunInv, RequestGoesOn
<1>5. \A t \in Targets : <<t, "FIXTURE">> \in Calls /\ <<t, "PREDICTION">> \in Calls
  BY PrematchWords DEF Calls
<1>6. Asked'
  <2>1. walk.phase = "PREDICTION" => OnRecord(<<Target, "FIXTURE">>)'
    <3>1. walk.phase = "PREDICTION" => <<Target, "FIXTURE">> # Active
      BY DEF Active
    <3>2. Target \in Targets
      BY <1>1, RequestIs DEF RequestGoesOn, RunInv
    <3>3. PICK c \in Calls : c = <<Target, "FIXTURE">>
      BY <1>5, <3>2
    <3>4. walk.phase = "PREDICTION" => OnRecord(c)'
      BY <1>3, <3>1, <3>3 DEF RunInv, Asked
    <3>5. QED
      BY <1>1, <3>3, <3>4 DEF RequestGoesOn, OnRecord
  <2>2. QED
    BY <1>1, <1>2, <2>1 DEF RequestGoesOn, RunInv, Asked
<1>7. \A t \in Targets : t # Target =>
        <<t, "FIXTURE">> # Active /\ <<t, "PREDICTION">> # Active
  BY DEF Active
<1>8. Reported' /\ Ended'
  BY <1>1, <1>2, <1>3, <1>5, <1>7, ReportKept DEF RequestGoesOn
<1>9. QED
  BY <1>1, <1>4, <1>6, <1>8 DEF RunInv

-----------------------------------------------------------------------------
(* The rows.                                                               *)

(* What a transaction of this command commits to the database.             *)
Committed(kept) ==
  /\ DOMAIN kept = DatabaseFields /\ DOMAIN kept.bindings = Targets
  /\ kept.artifacts \subseteq evidence
  /\ kept.audits = db.audits
  /\ db.predictions \subseteq kept.predictions
  /\ \A p \in kept.predictions :
       /\ p.at \in Nat /\ p.at <= now /\ p.at < Kickoff[p.target]
       /\ p.target \in Targets /\ kept.bindings[p.target] # NoRow

LEMMA SameCommitted ==
  ASSUME RunInv
  PROVE  Committed(db)
  BY DEF RunInv, Governed, Memory, Handled, Evidenced, Committed

LEMMA ArtifactKept ==
  ASSUME RunInv, NEW content \in evidence
  PROVE  LET kept == WithArtifact(db, content) IN
         /\ Committed(kept) /\ kept.predictions = db.predictions
         /\ kept.bindings = db.bindings
<1>1. DOMAIN db = DatabaseFields /\ DOMAIN db.bindings = Targets
      /\ db.artifacts \subseteq evidence
  BY DEF RunInv, Governed, Memory, Handled
<1> DEFINE kept == WithArtifact(db, content)
<1>2. /\ DOMAIN kept = DatabaseFields
      /\ kept.artifacts = db.artifacts \union {content}
      /\ kept.bindings = db.bindings /\ kept.predictions = db.predictions
      /\ kept.audits = db.audits
  BY <1>1 DEF WithArtifact, DatabaseFields
<1> HIDE DEF kept
<1>3. Committed(kept)
  BY <1>1, <1>2 DEF Committed, RunInv, Evidenced
<1>4. QED
  BY <1>2, <1>3 DEF kept

LEMMA FixtureRows ==
  ASSUME RunInv, NEW t \in Targets, NEW content \in evidence, NEW version \in Nat
  PROVE  LET kept == PersistFixture(db, t, content, version).db IN
         Committed(kept) /\ kept.predictions = db.predictions
<1> DEFINE kept == PersistFixture(db, t, content, version).db
           with == WithArtifact(db, content)
<1>1. /\ Committed(with) /\ with.predictions = db.predictions
      /\ with.bindings = db.bindings
  BY ArtifactKept
<1>2. \/ kept = with
      \/ kept = [with EXCEPT !.bindings[t] = version]
  BY DEF PersistFixture, Answer
<1> HIDE DEF kept, with
<1>3. CASE kept = [with EXCEPT !.bindings[t] = version]
  <2>1. /\ DOMAIN kept = DatabaseFields
        /\ kept.artifacts = with.artifacts /\ kept.audits = with.audits
        /\ kept.predictions = with.predictions
        /\ kept.bindings = [with.bindings EXCEPT ![t] = version]
    BY <1>1, <1>3 DEF Committed, DatabaseFields
  <2>2. \A u \in Targets : with.bindings[u] # NoRow => kept.bindings[u] # NoRow
    BY <1>1, <2>1, PrematchAssumption DEF Committed
  <2>3. DOMAIN kept.bindings = Targets
    BY <1>1, <2>1 DEF Committed
  <2>4. Committed(kept)
    BY <1>1, <2>1, <2>2, <2>3 DEF Committed
  <2>5. QED
    BY <1>1, <2>1, <2>4 DEF kept
<1>4. QED
  BY <1>1, <1>2, <1>3 DEF kept

LEMMA PredictionRows ==
  ASSUME RunInv, NEW t \in Targets, NEW content \in evidence,
         NEW at \in Nat, at <= now, at < Kickoff[t]
  PROVE  LET answer == PersistPrediction(db, t, content, at)
             kept   == answer.db
         IN
         /\ Committed(kept)
         /\ \A p \in kept.predictions : p \in db.predictions \/ p.target = t
         /\ ~Accepts(answer) => kept.predictions = db.predictions
         /\ Accepts(answer) => \E p \in kept.predictions : p.target = t /\ p.at = at
<1> DEFINE answer   == PersistPrediction(db, t, content, at)
           kept     == answer.db
           with     == WithArtifact(db, content)
           snapshot == [target |-> t, at |-> at, content |-> content]
<1>1. /\ Committed(with) /\ with.predictions = db.predictions
      /\ with.bindings = db.bindings
  BY ArtifactKept
<1>2. \/ ~Accepts(answer) /\ kept = with
      \/ kept = with /\ snapshot \in db.predictions
      \/ /\ Accepts(answer) /\ db.bindings[t] # NoRow
         /\ kept = [with EXCEPT !.predictions = @ \union {snapshot}]
  BY DEF PersistPrediction, Answer, Accepts
<1>3. snapshot.target = t /\ snapshot.at = at
  OBVIOUS
<1> HIDE DEF answer, kept, snapshot, with
<1>4. CASE kept = with /\ (Accepts(answer) => snapshot \in db.predictions)
  <2>1. /\ Committed(kept) /\ kept.predictions = db.predictions
        /\ Accepts(answer) => snapshot \in db.predictions
    BY <1>1, <1>4
  <2>2. QED
    BY <1>3, <2>1 DEF answer, kept
<1>5. CASE /\ Accepts(answer) /\ db.bindings[t] # NoRow
           /\ kept = [with EXCEPT !.predictions = @ \union {snapshot}]
  <2>1. /\ DOMAIN kept = DatabaseFields
        /\ kept.artifacts = with.artifacts /\ kept.audits = with.audits
        /\ kept.bindings = with.bindings
        /\ kept.predictions = db.predictions \union {snapshot}
    BY <1>1, <1>5 DEF Committed, DatabaseFields
  <2>2. Committed(kept)
    BY <1>1, <1>3, <1>5, <2>1 DEF Committed
  <2>3. QED
    BY <1>3, <1>5, <2>1, <2>2 DEF answer, kept
<1>6. QED
  BY <1>2, <1>4, <1>5

(* The callback of a fixture stores no prediction, that of a prediction    *)
(* stores one of before the kickoff.                                       *)
LEMMA ProcessRows ==
  ASSUME RunInv, Process
  PROVE  /\ UNCHANGED executorVars /\ UNCHANGED <<walk, report, evidence, now>>
         /\ Operate("published") /\ Committed(db')
         /\ \A p \in db'.predictions :
              p \in db.predictions \/ (p.target = Target /\ walk.phase = "PREDICTION")
         /\ \E downstream :
              /\ Processed(downstream) /\ downstream # "PREMATCH_CAPTURED"
              /\ downstream \notin {"CREATED", "REPLAYED"} => db'.predictions = db.predictions
              /\ downstream \in {"CREATED", "REPLAYED"} /\ walk.phase = "PREDICTION" =>
                   \E p \in db'.predictions : p.target = Target /\ p.at >= walk.began
<1>1. /\ UNCHANGED executorVars /\ UNCHANGED <<walk, report, evidence, now>>
      /\ Operate("published") /\ Requesting /\ operation.stage = "published"
  BY DEF Process, Operate
<1>2. /\ Target \in Targets /\ Content \in evidence
      /\ operation.payload \in Payloads[walk.phase]
      /\ operation.at \in Nat /\ walk.began <= operation.at /\ operation.at <= now
  BY <1>1, RequestIs DEF RunInv, Governed, Handled, Memory
<1>3. Committed(db)
  BY SameCommitted
<1>4. CASE /\ db' = db
           /\ \E downstream : /\ Processed(downstream)
                              /\ downstream \notin {"CREATED", "REPLAYED", "PREMATCH_CAPTURED"}
  BY <1>1, <1>3, <1>4
<1>5. CASE /\ walk.phase = "FIXTURE"
           /\ Persist(PersistFixture(db, Target, Content, operation.payload.version))
  <2> DEFINE answer == PersistFixture(db, Target, Content, operation.payload.version)
  <2>1. operation.payload.version \in Nat
    BY <1>2, <1>5, PrematchAssumption DEF PayloadsOf
  <2>2. Committed(answer.db) /\ answer.db.predictions = db.predictions
    BY <1>2, <2>1, FixtureRows
  <2>3. answer.disposition \in {"CREATED", "REPLAYED", "CONFLICT"}
    BY DEF PersistFixture, Answer
  <2> HIDE DEF answer
  <2>4. Persist(answer)
    BY <1>5 DEF answer
  <2>5. QED
    BY <1>1, <1>3, <1>5, <2>2, <2>3, <2>4, PersistFacts DEF Accepts
<1>6. CASE /\ walk.phase = "PREDICTION" /\ operation.at < Kickoff[Target]
           /\ Persist(PersistPrediction(db, Target, Content, operation.at))
  <2> DEFINE answer == PersistPrediction(db, Target, Content, operation.at)
  <2>1. /\ Committed(answer.db)
        /\ \A p \in answer.db.predictions : p \in db.predictions \/ p.target = Target
        /\ ~Accepts(answer) => answer.db.predictions = db.predictions
        /\ Accepts(answer) =>
             \E p \in answer.db.predictions : p.target = Target /\ p.at = operation.at
    BY <1>2, <1>6, PredictionRows
  <2> HIDE DEF answer
  <2>2. Persist(answer)
    BY <1>6 DEF answer
  <2>3. CASE db' = answer.db /\ Accepts(answer) /\ Processed(answer.disposition)
    BY <1>1, <1>2, <1>6, <2>1, <2>3 DEF Accepts
  <2>4. CASE /\ db' = db \/ (db' = answer.db /\ ~Accepts(answer))
             /\ \E downstream \in {"PERSISTENCE_CONFLICT", "REQUEST_FAILED"} :
                  Processed(downstream)
    BY <1>1, <1>3, <2>1, <2>4
  <2>5. QED
    BY <2>2, <2>3, <2>4, PersistFacts
<1>7. walk.phase = "FIXTURE" => operation.payload.kind \in FixtureKinds
  BY <1>2, PrematchAssumption DEF PayloadsOf
<1>8. walk.phase = "PREDICTION" => operation.payload.kind \in PredictionKinds
  BY <1>2, PrematchAssumption DEF PayloadsOf
<1>9. walk.phase \in {"FIXTURE", "PREDICTION"}
  BY <1>1, PrematchWords DEF Requesting
<1>10. QED
  BY <1>4, <1>5, <1>6, <1>7, <1>8, <1>9
  DEF Process, BeforeKickoff, FixtureKinds, PredictionKinds

LEMMA ProcessHolds ==
  ASSUME RunInv, Process
  PROVE  RunInv'
<1>1. /\ UNCHANGED executorVars /\ UNCHANGED <<walk, report, evidence, now>>
      /\ Operate("published") /\ Committed(db')
      /\ \A p \in db'.predictions :
           p \in db.predictions \/ (p.target = Target /\ walk.phase = "PREDICTION")
  BY ProcessRows
<1>2. PICK downstream :
        /\ Processed(downstream) /\ downstream # "PREMATCH_CAPTURED"
        /\ downstream \notin {"CREATED", "REPLAYED"} => db'.predictions = db.predictions
        /\ downstream \in {"CREATED", "REPLAYED"} /\ walk.phase = "PREDICTION" =>
             \E p \in db'.predictions : p.target = Target /\ p.at >= walk.began
  BY ProcessRows
<1>3. /\ DOMAIN db' = DatabaseFields /\ DOMAIN db'.bindings = Targets
      /\ db'.artifacts \subseteq evidence
      /\ db'.audits = db.audits /\ db.predictions \subseteq db'.predictions
  BY <1>1 DEF Committed
<1>4. /\ Governed' /\ Requesting /\ ~Stored
      /\ operation'.downstream = downstream
      /\ Target' = Target /\ UNCHANGED number
      /\ IsOpen' <=> IsOpen
  BY <1>1, <1>2, <1>3, ProcessGoverned DEF RunInv
<1>5. Evidenced'
  BY <1>1, <1>2, <1>4 DEF Committed, Evidenced
<1>6. \A c : OnRecord(c)' <=> OnRecord(c)
  BY <1>1, <1>3, <1>4 DEF OnRecord
<1>7. Stored' <=> downstream \in {"CREATED", "REPLAYED"}
  BY <1>4 DEF Stored
<1>8. \A t : StoredNow(t) => StoredNow(t)'
  BY <1>1, <1>3 DEF StoredNow, Since
<1>9. \A t : StoredNow(t)' =>
        StoredNow(t) \/ (t = Target /\ walk.phase = "PREDICTION" /\ Stored')
  BY <1>1, <1>2, <1>7 DEF StoredNow, Since
<1>10. walk.phase = "PREDICTION" /\ Stored' => StoredNow(Target)'
  BY <1>1, <1>2, <1>4, <1>7 DEF StoredNow, Since
<1>11. OnRecord(<<Target, "FIXTURE">>)' <=> OnRecord(<<Target, "FIXTURE">>)
  BY <1>1, <1>3, <1>4 DEF OnRecord
<1>12. Asked'
  BY <1>1, <1>10, <1>11 DEF RunInv, Asked
<1>13. Reported' /\ Ended'
  BY <1>1, <1>4, <1>6, <1>8, <1>9, ReportKept
<1>14. QED
  BY <1>4, <1>5, <1>12, <1>13 DEF RunInv

-----------------------------------------------------------------------------
(* The theorems.                                                           *)

LEMMA InitHolds ==
  ASSUME Init
  PROVE  RunInv
<1>1. /\ Governed /\ walk.phase = "off" /\ walk.exit = None
      /\ operation.downstream = None /\ db = EmptyDatabase(Targets)
  BY InitGoverned
<1>2. db.predictions = {}
  BY <1>1 DEF EmptyDatabase
<1>3. QED
  BY <1>1, <1>2, Words, PrematchWords
  DEF RunInv, Evidenced, Asked, Reported, Ended, ExitIsTrue

LEMMA StutterHolds ==
  ASSUME RunInv, UNCHANGED vars
  PROVE  RunInv'
<1>1. /\ Governed' /\ UNCHANGED <<walk, report, operation, number, evidence, db, now>>
      /\ Target' = Target
      /\ IsOpen' <=> IsOpen
      /\ Remaining' = Remaining
  BY StutterGoverned DEF RunInv
<1>2. \A t : StoredNow(t)' <=> StoredNow(t)
  BY <1>1 DEF StoredNow, Since
<1>3. Stored' <=> Stored
  BY <1>1 DEF Stored
<1>4. Evidenced'
  BY <1>1 DEF RunInv, Evidenced
<1>5. StoredNow(Target)' <=> StoredNow(Target)
  BY <1>1 DEF StoredNow, Since
<1>6. Asked'
  BY <1>1, <1>3, <1>5 DEF RunInv, Asked, OnRecord
<1>7. \A c : OnRecord(c)' <=> OnRecord(c)
  BY <1>1 DEF OnRecord
<1>8. Reported'
  BY <1>1, <1>2, <1>3, <1>7 DEF RunInv, Reported, Told, Captured
<1>9. Ended'
  BY <1>1 DEF RunInv, Ended, ExitIsTrue, Captured
<1>10. QED
  BY <1>1, <1>4, <1>6, <1>8, <1>9 DEF RunInv

(* All that holds of the run holds of it always.                           *)
THEOREM RunIsKept == Spec => []RunInv
<1>1. Init => RunInv
  BY InitHolds
<1>2. RunInv /\ [Next]_vars => RunInv'
  <2> SUFFICES ASSUME RunInv, [Next]_vars
               PROVE  RunInv'
    OBVIOUS
  <2>1. CASE RunStep
    BY <2>1, NextTargetHolds, FixtureReturnedHolds, PredictionReturnedHolds, EndHolds,
       RequestStepHolds, ProcessHolds DEF RunStep
  <2>2. CASE UNCHANGED vars
    BY <2>2, StutterHolds
  <2>3. QED
    BY <2>1, <2>2, InvokeHolds, CrashHolds DEF Next, Over
<1>3. QED
  BY <1>1, <1>2, PTL DEF Spec

(* A stored prediction was captured before its kickoff, for a target whose *)
(* binding is stored: the instant that is compared with the kickoff is the *)
(* one that is stored, and it is taken when the response is there.         *)
THEOREM StoredBeforeKickoff == Spec => []SnapshotsArePrematch
<1>1. RunInv => SnapshotsArePrematch
  BY DEF RunInv, Evidenced, SnapshotsArePrematch
<1>2. QED
  BY <1>1, RunIsKept, PTL

(* What SQLite refers to is in the evidence store, wherever the process    *)
(* died: the evidence is published before the transaction begins.          *)
THEOREM PublishedBeforeStored == Spec => []ArtifactsHaveEvidence
<1>1. RunInv => ArtifactsHaveEvidence
  BY DEF RunInv, Governed, Handled, ArtifactsHaveEvidence
<1>2. QED
  BY <1>1, RunIsKept, PTL

(* What the run says of a target is what it left in the database.          *)
THEOREM TheReportIsTrue == Spec => []ReportIsTrue
<1>1. RunInv => ReportIsTrue
  BY DEF RunInv, Reported, Told, StoredNow, ReportIsTrue, Running
<1>2. QED
  BY <1>1, RunIsKept, PTL

(* The exit tells whether every target was captured, and a run that says   *)
(* that it was blocked has an open breaker or nothing left to spend.       *)
THEOREM TheExitIsTrue == Spec => []ExitIsTrue
<1>1. RunInv => ExitIsTrue
  BY DEF RunInv, Ended
<1>2. QED
  BY <1>1, RunIsKept, PTL
=============================================================================
