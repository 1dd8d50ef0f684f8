------------------------- MODULE OutcomeRun_proofs -------------------------
(***************************************************************************)
(* Proofs about OutcomeRun, for any targets, responses and failures.  To   *)
(* what holds of both commands (Governed) the invariant adds what the rows *)
(* of outcome are (Evidenced), what the request in progress stored         *)
(* (Kept), what the report says of the targets (Reported) and how the run  *)
(* ends (Ended).                                                           *)
(***************************************************************************)
EXTENDS OutcomeRun, GovernedRun_proofs

-----------------------------------------------------------------------------
(* The invariant.                                                          *)

(* A row of outcome: the bytes it comes from and what they resolve to.     *)
Shown(o) ==
  LET p == o.content[3] IN
  /\ o.content[1][1] = o.target
  /\ p.rows = 1 /\ p.identified /\ p.status \in {"FT", "AET", "PEN"}
  /\ CompletePair(p.fulltime) /\ o.resolution.result1X2 = Result1X2(p.fulltime)
  /\ p.status = "AET" => CompletePair(p.extratime)
  /\ IF p.status = "PEN"
     THEN /\ CompletePair(p.penalty) /\ p.penalty.home # p.penalty.away
          /\ o.resolution.shootoutWinner = Ahead(p.penalty)
     ELSE o.resolution.shootoutWinner = None

Evidenced ==
  /\ operation.downstream \notin {"RESOLVED_CREATED", "RESOLVED_REPLAYED"}
  /\ \A o \in db.outcomes :
       /\ o.at \in Nat /\ o.at <= now
       /\ o.content \in db.artifacts
       /\ Shown(o)

StoredEver(t) == \E o \in db.outcomes : o.target = t
StoredNow(t)  == \E o \in Since(db.outcomes) : o.target = t

(* What is said to be stored is, and in this run if it was not before.     *)
Kept ==
  Requesting /\ Stored =>
    /\ StoredEver(Target)
    /\ operation.downstream = "CREATED" => StoredNow(Target)

Told(t) ==
  /\ Resolved(t) => StoredEver(t) /\ OnRecord(<<t, "OUTCOME">>)
  /\ report[t] = "RESOLVED_CREATED" => StoredNow(t)
  /\ StoredNow(t) /\ report[t] # None =>
       \/ Resolved(t)
       \/ report[t] \in {"AUDIT_FAILED", "REQUEST_FAILED"} /\ IsOpen

Reported ==
  walk.phase # "off" => \A t \in Targets :
    /\ Told(t)
    /\ StoredNow(t) => \/ report[t] # None
                       \/ Requesting /\ t = Target /\ Stored

(* What ends the run, and what is said of it.                              *)
Ended ==
  /\ walk.phase = "target" /\ IsOpen =>
       \/ walk.blocked
       \/ \E i \in 1 .. Len(Order) : i < walk.position /\ ~Resolved(Order[i])
  /\ walk.exit = "COMPLETE" => ~IsOpen /\ \A t \in Targets : Resolved(t)
  /\ walk.exit = "BLOCKED" => IsOpen \/ Remaining = 0

(* All that holds of the run.                                              *)
RunInv == Governed /\ Evidenced /\ Kept /\ Reported /\ Ended

LEMMA OutcomeWords ==
  /\ None \notin {"RESOLVED_CREATED", "RESOLVED_REPLAYED", "HOME", "AWAY"}
  /\ Requests = {"OUTCOME"}
  BY OutcomeAssumption

(* Without a new row the rows are what they were.                          *)
LEMMA EvidencedKept ==
  ASSUME Evidenced, db'.outcomes = db.outcomes, db'.artifacts = db.artifacts,
         now \in Nat, now' \in Nat, now <= now',
         operation'.downstream \in {None, operation.downstream, "EVIDENCE_FAILED"}
  PROVE  Evidenced'
<1>1. \A o \in db.outcomes : o.at \in Nat /\ o.at <= now /\ o.at <= now'
  BY DEF Evidenced
<1>2. QED
  BY <1>1, OutcomeWords DEF Evidenced

LEMMA StoredKept ==
  ASSUME db'.outcomes = db.outcomes, walk'.began = walk.began, NEW t
  PROVE  (StoredNow(t)' <=> StoredNow(t)) /\ (StoredEver(t)' <=> StoredEver(t))
  BY DEF StoredNow, StoredEver, Since

LEMMA ToldKept ==
  ASSUME NEW t, Told(t), report'[t] = report[t], StoredNow(t)' <=> StoredNow(t),
         StoredEver(t) => StoredEver(t)',
         OnRecord(<<t, "OUTCOME">>) => OnRecord(<<t, "OUTCOME">>)',
         IsOpen => IsOpen'
  PROVE  Told(t)'
  BY DEF Told, Resolved

-----------------------------------------------------------------------------
(* The walk.                                                               *)

(* A conclusion that tells the truth about its target.                     *)
LEMMA ConcludedHolds ==
  ASSUME RunInv, walk.phase \notin {"off", "ended"}, walk.position \in 1 .. Len(Order),
         NEW status, NEW blocks \in BOOLEAN, Governed', ConcludedAs(status, blocks),
         status \in {"RESOLVED_CREATED", "RESOLVED_REPLAYED"} =>
           StoredEver(Target) /\ OnRecord(<<Target, "OUTCOME">>),
         status = "RESOLVED_CREATED" => StoredNow(Target),
         StoredNow(Target) =>
           \/ status \in {"RESOLVED_CREATED", "RESOLVED_REPLAYED"}
           \/ status \in {"AUDIT_FAILED", "REQUEST_FAILED"} /\ IsOpen,
         IsOpen => blocks \/ status \notin {"RESOLVED_CREATED", "RESOLVED_REPLAYED"}
  PROVE  RunInv'
<1>1. /\ walk'.phase = "target" /\ walk'.position = walk.position + 1
      /\ walk'.blocked = (walk.blocked \/ blocks)
      /\ walk'.began = walk.began
      /\ operation'.downstream = None
      /\ report'[Target] = status
      /\ \A t \in Targets : t # Target => report'[t] = report[t]
      /\ UNCHANGED <<number, db, now>>
      /\ IsOpen' <=> IsOpen
  BY DEF ConcludedAs
<1>2. Target \in Targets /\ now \in Nat /\ walk'.exit = None
  BY <1>1, AtTarget DEF RunInv, Governed, Memory, Paced
<1>3. /\ \A t : StoredNow(t)' <=> StoredNow(t)
      /\ \A t : StoredEver(t)' <=> StoredEver(t)
      /\ \A c : OnRecord(c)' <=> OnRecord(c)
  BY <1>1 DEF StoredNow, StoredEver, Since, OnRecord
<1>4. Evidenced'
  BY <1>1, <1>2, EvidencedKept DEF RunInv
<1>5. Kept'
  BY <1>1, Words DEF Kept, Requesting
<1>6. Reported'
  <2> SUFFICES ASSUME NEW t \in Targets
               PROVE  Told(t)' /\ (StoredNow(t)' => report'[t] # None)
    BY DEF Reported
  <2>1. CASE t = Target
    BY <1>1, <1>3, <2>1, Words, OutcomeWords DEF Told, Resolved
  <2>2. CASE t # Target
    <3>1. Told(t) /\ (StoredNow(t) => report[t] # None)
      BY <2>2 DEF RunInv, Reported
    <3>2. QED
      BY <1>1, <1>3, <2>2, <3>1, ToldKept
  <2>3. QED
    BY <2>1, <2>2
<1>7. IsOpen' => \/ walk'.blocked
                 \/ \E i \in 1 .. Len(Order) : i < walk'.position /\ ~Resolved(Order[i])'
  <2>1. CASE blocks
    BY <1>1, <2>1 DEF RunInv, Governed, Memory
  <2>2. CASE IsOpen /\ status \notin {"RESOLVED_CREATED", "RESOLVED_REPLAYED"}
    <3>1. PICK i \in 1 .. Len(Order) : i = walk.position
      OBVIOUS
    <3>2. Order[i] = Target /\ i < walk'.position
      BY <1>1, <3>1, PositionFacts DEF Target
    <3>3. ~Resolved(Order[i])'
      BY <1>1, <2>2, <3>2 DEF Resolved
    <3>4. QED
      BY <3>2, <3>3
  <2>3. QED
    BY <1>1, <2>1, <2>2
<1>8. Ended'
  BY <1>2, <1>7, Words DEF Ended
<1>9. QED
  BY <1>4, <1>5, <1>6, <1>8 DEF RunInv

(* The request of a target of which nothing is stored yet in this run.     *)
LEMMA RequestedHolds ==
  ASSUME RunInv, walk.phase = "target", report[Target] = None,
         Governed', RequestedAs("OUTCOME"), ~IsOpen
  PROVE  RunInv'
<1> DEFINE c == <<Target, "OUTCOME">>
<1>1. /\ walk'.phase = "OUTCOME" /\ walk'.began = walk.began
      /\ operation'.downstream = None
      /\ Target \in Targets /\ Target' = Target /\ c \in Calls
      /\ \A d \in Calls : d # c => number'[d] = number[d]
      /\ UNCHANGED <<report, db, now>>
  BY DEF RequestedAs
<1>2. ~Stored' /\ now \in Nat /\ walk'.exit = None
  BY <1>1, Words DEF Stored, RunInv, Governed, Memory, Paced
<1>3. walk.phase \notin Requests
  BY Words
<1>4. /\ \A t : StoredNow(t)' <=> StoredNow(t)
      /\ \A t : StoredEver(t)' <=> StoredEver(t)
  BY <1>1 DEF StoredNow, StoredEver, Since
<1>5. \A d \in Calls : d # c /\ OnRecord(d) => OnRecord(d)'
  BY <1>1, RecordKept
<1>6. \A t \in Targets : <<t, "OUTCOME">> \in Calls
  BY OutcomeWords DEF Calls
<1>7. Evidenced' /\ Kept'
  BY <1>1, <1>2, EvidencedKept DEF RunInv, Kept
<1>8. Reported'
  <2> SUFFICES ASSUME NEW t \in Targets
               PROVE  Told(t)' /\ (StoredNow(t)' => report'[t] # None)
    BY DEF Reported
  <2>1. Told(t) /\ (StoredNow(t) => report[t] # None)
    BY <1>3 DEF RunInv, Reported, Requesting
  <2>2. CASE t = Target
    BY <1>1, <1>4, <2>1, <2>2, OutcomeWords DEF Told, Resolved
  <2>3. CASE t # Target
    <3>1. <<t, "OUTCOME">> # c
      BY <2>3
    <3>2. QED
      BY <1>1, <1>4, <1>5, <1>6, <2>1, <3>1, ToldKept
  <2>4. QED
    BY <2>2, <2>3
<1>9. Ended'
  BY <1>1, <1>2, Words DEF Ended
<1>10. QED
  BY <1>7, <1>8, <1>9 DEF RunInv

LEMMA InvokeHolds ==
  ASSUME RunInv, Invoke
  PROVE  RunInv'
<1>1. /\ Governed' /\ walk'.phase = "target" /\ walk'.exit = None
      /\ walk'.began = now + 1 /\ now' = now + 1 /\ now \in Nat
      /\ operation'.downstream = None
      /\ db' = db /\ ~IsOpen'
      /\ \A t \in Targets : report'[t] = None
  BY InvokeGoverned DEF RunInv
<1>2. \A t : ~StoredNow(t)'
  <2>1. \A o \in db'.outcomes : o.at \in Nat /\ o.at <= now
    BY <1>1 DEF RunInv, Evidenced
  <2>2. QED
    BY <1>1, <2>1 DEF StoredNow, Since
<1>3. Evidenced'
  BY <1>1, EvidencedKept DEF RunInv
<1>4. Kept' /\ Reported'
  BY <1>1, <1>2, Words, OutcomeWords DEF Kept, Requesting, Reported, Told, Resolved
<1>5. Ended'
  BY <1>1, Words DEF Ended
<1>6. QED
  BY <1>1, <1>3, <1>4, <1>5 DEF RunInv

LEMMA CrashHolds ==
  ASSUME RunInv, Crash
  PROVE  RunInv'
<1>1. /\ Governed' /\ walk'.phase = "off" /\ walk'.exit = None
      /\ operation'.downstream = None /\ UNCHANGED <<db, now>> /\ now \in Nat
  BY CrashGoverned DEF RunInv, Governed, Memory
<1>2. Evidenced'
  BY <1>1, EvidencedKept DEF RunInv
<1>3. QED
  BY <1>1, <1>2, Words DEF RunInv, Kept, Requesting, Reported, Ended

LEMMA NextTargetHolds ==
  ASSUME RunInv, NextTarget("OUTCOME")
  PROVE  RunInv'
<1>1. /\ Governed'
      /\ walk.phase = "target" /\ walk.position \in 1 .. Len(Order)
      /\ Target \in Targets /\ report[Target] = None
      /\ \/ RequestedAs("OUTCOME") /\ ~IsOpen
         \/ \E status \in {"CIRCUIT_OPEN", "BUDGET_EXHAUSTED"} : ConcludedAs(status, TRUE)
  BY OutcomeWords, NextTargetGoverned DEF RunInv
<1>2. ~StoredNow(Target)
  BY <1>1, Words DEF RunInv, Reported, Requesting
<1>3. CASE \E status \in {"CIRCUIT_OPEN", "BUDGET_EXHAUSTED"} : ConcludedAs(status, TRUE)
  BY <1>1, <1>2, <1>3, ConcludedHolds
<1>4. CASE RequestedAs("OUTCOME") /\ ~IsOpen
  BY <1>1, <1>4, RequestedHolds
<1>5. QED
  BY <1>1, <1>3, <1>4

LEMMA OutcomeReturnedHolds ==
  ASSUME RunInv, OutcomeReturned
  PROVE  RunInv'
<1> DEFINE r      == result[<<Target, "OUTCOME">>]
           blocks == r.status = "SUCCESS_RUN_BLOCKED"
           status == FailureStatus(r)
<1>1. /\ walk.phase = "OUTCOME" /\ pc[<<Target, "OUTCOME">>] = "done"
      /\ UNCHANGED <<durable, now>> /\ "OUTCOME" \in Requests
  BY OutcomeWords DEF OutcomeReturned
<1>2. /\ walk.position \in 1 .. Len(Order) /\ Target \in Targets
      /\ walk.phase \notin {"off", "target", "ended"} /\ Requesting
      /\ Returned(r) /\ Active = <<Target, "OUTCOME">>
      /\ report[Target] = None
      /\ Stored => /\ StoredEver(Target)
                   /\ operation.downstream = "CREATED" => StoredNow(Target)
      /\ StoredNow(Target) => Stored
  BY <1>1, ReturnIs DEF RunInv, Kept, Reported
<1>3. CASE Failed(r, status)
  <2>1. /\ Governed'
        /\ Stored => r.status \in {"AUDIT_FAILED", "FAILED"} /\ IsOpen
        /\ \E stops \in BOOLEAN : ConcludedAs(status, stops) /\ (IsOpen => stops)
    BY <1>1, <1>3, FailedGoverned DEF RunInv
  <2>2. status \notin {"RESOLVED_CREATED", "RESOLVED_REPLAYED"}
    BY DEF FailureStatus, Stored, RunInv, Evidenced
  <2>3. StoredNow(Target) => status \in {"AUDIT_FAILED", "REQUEST_FAILED"} /\ IsOpen
    BY <1>2, <2>1 DEF FailureStatus, Stored
  <2> HIDE DEF status
  <2>4. QED
    BY <1>2, <2>1, <2>2, <2>3, ConcludedHolds
<1>4. CASE /\ Succeeded(r) /\ Stored /\ UNCHANGED executorVars
           /\ \E said \in {"RESOLVED_CREATED", "RESOLVED_REPLAYED"} :
                /\ said = "RESOLVED_CREATED" => operation.downstream = "CREATED"
                /\ Conclude(said, blocks)
  <2>1. OnRecord(<<Target, "OUTCOME">>)
    BY <1>2, <1>4 DEF Returned
  <2>2. blocks \in BOOLEAN /\ (blocks => IsOpen) /\ (IsOpen => blocks)
    BY <1>2, <1>4 DEF Returned, Succeeded
  <2> HIDE DEF blocks
  <2>3. PICK said \in {"RESOLVED_CREATED", "RESOLVED_REPLAYED"} :
          /\ said = "RESOLVED_CREATED" => operation.downstream = "CREATED"
          /\ Governed' /\ ConcludedAs(said, blocks)
    BY <1>1, <1>2, <1>4, <2>2, ConcludeGoverned DEF RunInv
  <2>4. QED
    BY <1>2, <1>4, <2>1, <2>2, <2>3, ConcludedHolds
<1>5. QED
  BY <1>3, <1>4 DEF OutcomeReturned

LEMMA EndHolds ==
  ASSUME RunInv, End(Exit)
  PROVE  RunInv'
<1>1. /\ Governed'
      /\ walk.phase = "target" /\ walk.position > Len(Order)
      /\ walk'.phase = "ended" /\ walk'.exit = Exit /\ walk'.began = walk.began
      /\ UNCHANGED <<report, operation, number, db, now>>
      /\ IsOpen' <=> IsOpen
      /\ Remaining' = Remaining
      /\ walk.blocked => IsOpen \/ Remaining = 0
  BY EndGoverned DEF RunInv
<1>2. Evidenced'
  BY <1>1, EvidencedKept DEF RunInv, Governed, Memory
<1>3. Kept'
  BY <1>1, Words DEF Kept, Requesting
<1>4. \A t \in Targets : Told(t) /\ (StoredNow(t) => report[t] # None)
  BY <1>1, Words DEF RunInv, Reported, Requesting
<1>5. Reported'
  <2>1. /\ \A t : StoredNow(t)' <=> StoredNow(t)
        /\ \A t : StoredEver(t)' <=> StoredEver(t)
        /\ \A c : OnRecord(c)' <=> OnRecord(c)
    BY <1>1 DEF StoredNow, StoredEver, Since, OnRecord
  <2>2. \A t \in Targets : Told(t)'
    BY <1>1, <1>4, <2>1, ToldKept
  <2>3. QED
    BY <1>1, <1>4, <2>1, <2>2 DEF Reported
<1>6. Exit = "BLOCKED" => walk.blocked
  BY DEF Exit
<1>7. Exit = "COMPLETE" => ~walk.blocked /\ \A t \in Targets : Resolved(t)
  BY DEF Exit
<1>8. Exit = "COMPLETE" => ~IsOpen
  <2>1. IsOpen => walk.blocked \/ \E i \in 1 .. Len(Order) : ~Resolved(Order[i])
    BY <1>1 DEF RunInv, Ended
  <2>2. QED
    BY <1>7, <2>1, PositionFacts
<1>9. \A t : Resolved(t)' <=> Resolved(t)
  BY <1>1 DEF Resolved
<1>10. Ended'
  BY <1>1, <1>6, <1>7, <1>8, <1>9 DEF Ended
<1>11. QED
  BY <1>1, <1>2, <1>3, <1>5, <1>10 DEF RunInv

-----------------------------------------------------------------------------
(* The request in progress.                                                *)

(* What it does not change of the report and of what ends the run.         *)
LEMMA ReportKept ==
  ASSUME RunInv, Requesting, UNCHANGED <<walk, report>>, Target' = Target,
         \A t : StoredNow(t) => StoredNow(t)',
         \A t : StoredEver(t) => StoredEver(t)',
         \A t : StoredNow(t)' => StoredNow(t) \/ (t = Target /\ Stored'),
         Stored => Stored', IsOpen => IsOpen',
         \A t \in Targets : t # Target /\ OnRecord(<<t, "OUTCOME">>) =>
                              OnRecord(<<t, "OUTCOME">>)'
  PROVE  Reported' /\ Ended'
<1>1. walk.phase \notin {"off", "target", "ended"} /\ report[Target] = None /\ Requesting'
  BY RequestIs DEF RunInv, Requesting
<1>2. Reported'
  <2> SUFFICES ASSUME NEW t \in Targets
               PROVE  /\ Told(t)'
                      /\ StoredNow(t)' =>
                           \/ report'[t] # None
                           \/ Requesting' /\ t = Target /\ Stored'
    BY DEF Reported
  <2>1. /\ Told(t)
        /\ StoredNow(t) => \/ report[t] # None
                           \/ Requesting /\ t = Target /\ Stored
    BY <1>1 DEF RunInv, Reported
  <2>2. CASE t = Target
    BY <1>1, <2>1, <2>2, OutcomeWords DEF Told, Resolved
  <2>3. CASE t # Target
    <3>1. StoredNow(t)' <=> StoredNow(t)
      BY <2>3
    <3>2. QED
      BY <2>1, <2>3, <3>1, ToldKept
  <2>4. QED
    BY <2>2, <2>3
<1>3. Ended'
  BY <1>1, Words DEF RunInv, Governed, Paced, Ended
<1>4. QED
  BY <1>2, <1>3

LEMMA RequestStepHolds ==
  ASSUME RunInv, RequestStep
  PROVE  RunInv'
<1>1. Governed' /\ RequestGoesOn
  BY RequestStepGoverned DEF RunInv
<1>2. \A t : (StoredNow(t)' <=> StoredNow(t)) /\ (StoredEver(t)' <=> StoredEver(t))
  BY <1>1, StoredKept DEF RequestGoesOn
<1>3. \A c \in Calls : c # Active /\ OnRecord(c) => OnRecord(c)'
  BY <1>1, RecordKept DEF RequestGoesOn
<1>4. Evidenced'
  BY <1>1, EvidencedKept DEF RunInv, RequestGoesOn
<1>5. Kept'
  <2>1. Stored' => operation'.downstream = operation.downstream
    BY <1>1 DEF RequestGoesOn, Stored
  <2>2. /\ StoredNow(Target)' <=> StoredNow(Target)
        /\ StoredEver(Target)' <=> StoredEver(Target)
    BY <1>1 DEF RequestGoesOn, StoredNow, StoredEver, Since
  <2>3. QED
    BY <1>1, <2>1, <2>2 DEF RequestGoesOn, RunInv, Kept
<1>6. \A t \in Targets : <<t, "OUTCOME">> \in Calls
  BY OutcomeWords DEF Calls
<1>7. \A t \in Targets : t # Target => <<t, "OUTCOME">> # Active
  BY DEF Active
<1>8. Reported' /\ Ended'
  BY <1>1, <1>2, <1>3, <1>6, <1>7, ReportKept DEF RequestGoesOn
<1>9. QED
  BY <1>1, <1>4, <1>5, <1>8 DEF RunInv

-----------------------------------------------------------------------------
(* The rows.                                                               *)

(* What a transaction of this command commits to the database.             *)
Committed(kept) ==
  /\ DOMAIN kept = DatabaseFields /\ DOMAIN kept.bindings = Targets
  /\ kept.artifacts \subseteq evidence
  /\ kept.audits = db.audits
  /\ db.outcomes \subseteq kept.outcomes
  /\ \A o \in kept.outcomes :
       /\ o.at \in Nat /\ o.at <= now
       /\ o.content \in kept.artifacts
       /\ Shown(o)

LEMMA SameCommitted ==
  ASSUME RunInv
  PROVE  Committed(db)
  BY DEF RunInv, Governed, Memory, Handled, Evidenced, Committed

(* What the mapper resolves is a row of the target's with every score its  *)
(* status has: the result of regulation time, and the winner of the        *)
(* shootout if there was one.                                              *)
LEMMA ResolutionIs ==
  ASSUME NEW p \in Response, Verdict(p) = "RESOLVED"
  PROVE  /\ p.identified /\ p.status \in {"FT", "AET", "PEN"}
         /\ CompletePair(p.fulltime)
         /\ p.status = "AET" => CompletePair(p.extratime)
         /\ p.status = "PEN" => CompletePair(p.penalty) /\ p.penalty.home # p.penalty.away
         /\ Resolution(p).result1X2 = Result1X2(p.fulltime)
         /\ Resolution(p).shootoutWinner = IF p.status = "PEN" THEN Ahead(p.penalty) ELSE None
<1> DEFINE needed == {p.fulltime} \union (IF p.status = "AET" THEN {p.extratime} ELSE {})
                                 \union (IF p.status = "PEN" THEN {p.penalty} ELSE {})
<1>1. p.status \in Statuses
  BY DEF Response
<1>2. /\ p.identified /\ p.status # "NS"
      /\ \A pair \in needed : CompletePair(pair)
      /\ ~(p.status = "PEN" /\ p.penalty.home = p.penalty.away)
  BY DEF Verdict
<1>3. QED
  BY <1>1, <1>2 DEF Statuses, Resolution

LEMMA OutcomeRows ==
  ASSUME RunInv, NEW t, NEW content \in evidence, content[1][1] = t,
         NEW at \in Nat, at <= now,
         content[3] \in Response, content[3].rows = 1, Verdict(content[3]) = "RESOLVED"
  PROVE  LET answer == PersistOutcome(db, t, content, at, Resolution(content[3]))
             kept   == answer.db
         IN
         /\ Committed(kept)
         /\ \A o \in kept.outcomes : o \in db.outcomes \/ o.target = t
         /\ ~Accepts(answer) => kept.outcomes = db.outcomes
         /\ Accepts(answer) => \E o \in kept.outcomes : o.target = t
         /\ answer.disposition = "CREATED" =>
              \E o \in kept.outcomes : o.target = t /\ o.at = at
         /\ answer.disposition \in {"CREATED", "REPLAYED", "CONFLICT", "FAILED"}
<1> DEFINE answer  == PersistOutcome(db, t, content, at, Resolution(content[3]))
           kept    == answer.db
           with    == WithArtifact(db, content)
           outcome == [target |-> t, content |-> content, at |-> at,
                       resolution |-> Resolution(content[3]), supersedes |-> NoRow]
<1>1. DOMAIN db = DatabaseFields /\ DOMAIN db.bindings = Targets
      /\ db.artifacts \subseteq evidence
  BY DEF RunInv, Governed, Memory, Handled
<1>2. /\ DOMAIN with = DatabaseFields
      /\ with.artifacts = db.artifacts \union {content}
      /\ with.bindings = db.bindings /\ with.outcomes = db.outcomes
      /\ with.audits = db.audits
  BY <1>1 DEF WithArtifact, DatabaseFields
<1>3. \/ kept = db /\ answer.disposition = "FAILED"
      \/ kept = with /\ answer.disposition = "CONFLICT"
      \/ /\ kept = with /\ answer.disposition = "REPLAYED"
         /\ \E o \in db.outcomes : o.target = t
      \/ /\ answer.disposition = "CREATED"
         /\ kept = [with EXCEPT !.outcomes = @ \union {outcome}]
  BY DEF PersistOutcome, Answer
<1>4. outcome.target = t /\ outcome.at = at /\ outcome.content = content /\ Shown(outcome)
  BY ResolutionIs DEF Shown
<1>5. Committed(with)
  BY <1>1, <1>2 DEF Committed, RunInv, Evidenced
<1> HIDE DEF answer, kept, with, outcome
<1>6. CASE kept = db /\ answer.disposition = "FAILED"
  BY <1>6, SameCommitted DEF Accepts, answer, kept
<1>7. CASE kept = with /\ answer.disposition = "CONFLICT"
  <2>1. Committed(kept) /\ kept.outcomes = db.outcomes /\ ~Accepts(answer)
    BY <1>2, <1>5, <1>7 DEF Accepts
  <2>2. QED
    BY <1>7, <2>1 DEF answer, kept
<1>8. CASE /\ kept = with /\ answer.disposition = "REPLAYED"
           /\ \E o \in db.outcomes : o.target = t
  <2>1. Committed(kept) /\ kept.outcomes = db.outcomes /\ Accepts(answer)
    BY <1>2, <1>5, <1>8 DEF Accepts
  <2>2. QED
    BY <1>8, <2>1 DEF answer, kept
<1>9. CASE /\ answer.disposition = "CREATED"
           /\ kept = [with EXCEPT !.outcomes = @ \union {outcome}]
  <2>1. /\ DOMAIN kept = DatabaseFields
        /\ kept.artifacts = with.artifacts /\ kept.audits = with.audits
        /\ kept.bindings = with.bindings
        /\ kept.outcomes = db.outcomes \union {outcome}
    BY <1>2, <1>9 DEF DatabaseFields
  <2>2. Committed(kept) /\ Accepts(answer)
    BY <1>2, <1>4, <1>5, <1>9, <2>1 DEF Committed, Accepts
  <2>3. QED
    BY <1>4, <1>9, <2>1, <2>2 DEF answer, kept
<1>10. QED
  BY <1>3, <1>6, <1>7, <1>8, <1>9

(* The callback stores what it found of its target.                        *)
LEMMA ProcessRows ==
  ASSUME RunInv, Process
  PROVE  /\ UNCHANGED executorVars /\ UNCHANGED <<walk, report, evidence, now>>
         /\ Operate("published") /\ Committed(db')
         /\ \A o \in db'.outcomes : o \in db.outcomes \/ o.target = Target
         /\ \E downstream :
              /\ Processed(downstream)
              /\ downstream \notin {"RESOLVED_CREATED", "RESOLVED_REPLAYED"}
              /\ downstream \notin {"CREATED", "REPLAYED"} => db'.outcomes = db.outcomes
              /\ downstream \in {"CREATED", "REPLAYED"} =>
                   \E o \in db'.outcomes : o.target = Target
              /\ downstream = "CREATED" =>
                   \E o \in db'.outcomes : o.target = Target /\ o.at >= walk.began
<1> DEFINE p == operation.payload
<1>1. /\ UNCHANGED executorVars /\ UNCHANGED <<walk, report, evidence, now>>
      /\ Operate("published") /\ Requesting /\ operation.stage = "published"
  BY DEF Process, Operate
<1>2. walk.phase = "OUTCOME"
  BY <1>1, OutcomeWords DEF Requesting
<1>3. /\ Target \in Targets /\ Content \in evidence
      /\ p \in Response
      /\ operation.at \in Nat /\ walk.began <= operation.at /\ operation.at <= now
  BY <1>1, <1>2, RequestIs, OutcomeAssumption DEF RunInv, Governed, Handled, Memory
<1>4. Content[1][1] = Target /\ Content[3] = p
  BY DEF Content, Active
<1>5. Committed(db)
  BY SameCommitted
<1>6. CASE /\ db' = db
           /\ \E downstream :
                /\ Processed(downstream)
                /\ downstream \notin {"CREATED", "REPLAYED", "RESOLVED_CREATED",
                                      "RESOLVED_REPLAYED"}
  BY <1>1, <1>5, <1>6
<1>7. CASE /\ p.rows = 1 /\ Verdict(p) = "RESOLVED"
           /\ Persist(PersistOutcome(db, Target, Content, operation.at, Resolution(p)))
  <2> DEFINE answer == PersistOutcome(db, Target, Content, operation.at, Resolution(p))
  <2>1. /\ Committed(answer.db)
        /\ \A o \in answer.db.outcomes : o \in db.outcomes \/ o.target = Target
        /\ ~Accepts(answer) => answer.db.outcomes = db.outcomes
        /\ Accepts(answer) => \E o \in answer.db.outcomes : o.target = Target
        /\ answer.disposition = "CREATED" =>
             \E o \in answer.db.outcomes : o.target = Target /\ o.at = operation.at
        /\ answer.disposition \in {"CREATED", "REPLAYED", "CONFLICT", "FAILED"}
    BY <1>3, <1>4, <1>7, OutcomeRows
  <2> HIDE DEF answer
  <2>2. Persist(answer)
    BY <1>7 DEF answer
  <2>3. CASE db' = answer.db /\ Accepts(answer) /\ Processed(answer.disposition)
    BY <1>1, <1>3, <2>1, <2>3 DEF Accepts
  <2>4. CASE /\ db' = db \/ (db' = answer.db /\ ~Accepts(answer))
             /\ \E downstream \in {"PERSISTENCE_CONFLICT", "REQUEST_FAILED"} :
                  Processed(downstream)
    BY <1>1, <1>5, <2>1, <2>4
  <2>5. QED
    BY <2>2, <2>3, <2>4, PersistFacts
<1>8. Verdict(p) \in {"MAPPING_FAILED", "PENDING_NOT_TERMINAL", "RESULT_SCORE_INCOMPLETE",
                      "INVALID_SCORE_SEMANTICS", "RESOLVED"}
  BY DEF Verdict
<1>9. QED
  BY <1>6, <1>7, <1>8 DEF Process

LEMMA ProcessHolds ==
  ASSUME RunInv, Process
  PROVE  RunInv'
<1>1. /\ UNCHANGED executorVars /\ UNCHANGED <<walk, report, evidence, now>>
      /\ Operate("published") /\ Committed(db')
      /\ \A o \in db'.outcomes : o \in db.outcomes \/ o.target = Target
  BY ProcessRows
<1>2. PICK downstream :
        /\ Processed(downstream)
        /\ downstream \notin {"RESOLVED_CREATED", "RESOLVED_REPLAYED"}
        /\ downstream \notin {"CREATED", "REPLAYED"} => db'.outcomes = db.outcomes
        /\ downstream \in {"CREATED", "REPLAYED"} =>
             \E o \in db'.outcomes : o.target = Target
        /\ downstream = "CREATED" =>
             \E o \in db'.outcomes : o.target = Target /\ o.at >= walk.began
  BY ProcessRows
<1>3. /\ DOMAIN db' = DatabaseFields /\ DOMAIN db'.bindings = Targets
      /\ db'.artifacts \subseteq evidence
      /\ db'.audits = db.audits /\ db.outcomes \subseteq db'.outcomes
  BY <1>1 DEF Committed
<1>4. /\ Governed' /\ Requesting /\ ~Stored
      /\ operation'.downstream = downstream
      /\ Target' = Target /\ UNCHANGED number
      /\ IsOpen' <=> IsOpen
  BY <1>1, <1>2, <1>3, ProcessGoverned DEF RunInv
<1>5. Evidenced'
  BY <1>1, <1>2, <1>4 DEF Committed, Evidenced, Shown
<1>6. \A c : OnRecord(c)' <=> OnRecord(c)
  BY <1>1, <1>3, <1>4 DEF OnRecord
<1>7. Stored' <=> downstream \in {"CREATED", "REPLAYED"}
  BY <1>4 DEF Stored
<1>8. \A t : (StoredNow(t) => StoredNow(t)') /\ (StoredEver(t) => StoredEver(t)')
  BY <1>1, <1>3 DEF StoredNow, StoredEver, Since
<1>9. \A t : StoredNow(t)' => StoredNow(t) \/ (t = Target /\ Stored')
  BY <1>1, <1>2, <1>7 DEF StoredNow, Since
<1>10. Kept'
  <2>1. Stored' => StoredEver(Target)'
    BY <1>2, <1>4, <1>7 DEF StoredEver
  <2>2. downstream = "CREATED" => StoredNow(Target)'
    BY <1>1, <1>2, <1>4 DEF StoredNow, Since
  <2>3. QED
    BY <1>4, <2>1, <2>2 DEF Kept
<1>11. Reported' /\ Ended'
  BY <1>1, <1>4, <1>6, <1>8, <1>9, ReportKept
<1>12. QED
  BY <1>4, <1>5, <1>10, <1>11 DEF RunInv

-----------------------------------------------------------------------------
(* The theorems.                                                           *)

LEMMA InitHolds ==
  ASSUME Init
  PROVE  RunInv
<1>1. /\ Governed /\ walk.phase = "off" /\ walk.exit = None
      /\ operation.downstream = None /\ db = EmptyDatabase(Targets)
  BY InitGoverned
<1>2. db.outcomes = {}
  BY <1>1 DEF EmptyDatabase
<1>3. QED
  BY <1>1, <1>2, Words, OutcomeWords
  DEF RunInv, Evidenced, Kept, Requesting, Reported, Ended

LEMMA StutterHolds ==
  ASSUME RunInv, UNCHANGED vars
  PROVE  RunInv'
<1>1. /\ Governed' /\ UNCHANGED <<walk, report, operation, number, evidence, db, now>>
      /\ Target' = Target
      /\ IsOpen' <=> IsOpen
      /\ Remaining' = Remaining
  BY StutterGoverned DEF RunInv
<1>2. \A t : (StoredNow(t)' <=> StoredNow(t)) /\ (StoredEver(t)' <=> StoredEver(t))
  BY <1>1 DEF StoredNow, StoredEver, Since
<1>3. (Stored' <=> Stored) /\ (Requesting' <=> Requesting)
  BY <1>1 DEF Stored, Requesting
<1>4. Evidenced'
  BY <1>1 DEF RunInv, Evidenced, Shown
<1>5. /\ StoredNow(Target)' <=> StoredNow(Target)
      /\ StoredEver(Target)' <=> StoredEver(Target)
  BY <1>1 DEF StoredNow, StoredEver, Since
<1>6. Kept'
  BY <1>1, <1>3, <1>5 DEF RunInv, Kept
<1>7. \A c : OnRecord(c)' <=> OnRecord(c)
  BY <1>1 DEF OnRecord
<1>8. Reported'
  BY <1>1, <1>2, <1>3, <1>7 DEF RunInv, Reported, Told, Resolved
<1>9. Ended'
  BY <1>1 DEF RunInv, Ended, Resolved
<1>10. QED
  BY <1>1, <1>4, <1>6, <1>8, <1>9 DEF RunInv

(* All that holds of the run holds of it always.                           *)
THEOREM RunIsKept == Spec => []RunInv
<1>1. Init => RunInv
  BY InitHolds
<1>2. RunInv /\ [Next]_vars => RunInv'
  <2> SUFFICES ASSUME RunInv, [Next]_vars
               PROVE  RunInv'
    OBVIOUS
  <2>1. CASE RunStep
    BY <2>1, NextTargetHolds, OutcomeReturnedHolds, EndHolds, RequestStepHolds, ProcessHolds
    DEF RunStep
  <2>2. CASE UNCHANGED vars
    BY <2>2, StutterHolds
  <2>3. QED
    BY <2>1, <2>2, InvokeHolds, CrashHolds DEF Next, Over
<1>3. QED
  BY <1>1, <1>2, PTL DEF Spec

(* A stored outcome can be shown and is final: its bytes are published and *)
(* registered, are about its target, and resolve to what is stored.        *)
THEOREM OutcomesAreShown == Spec => []OutcomesAreEvidenced
<1>1. RunInv => OutcomesAreEvidenced
  BY DEF RunInv, Governed, Handled, Evidenced, Shown, OutcomesAreEvidenced
<1>2. QED
  BY <1>1, RunIsKept, PTL

(* What the run says of a target is what it left in the database, and the  *)
(* exit tells whether every target was resolved and whether it could have  *)
(* gone on.                                                                *)
THEOREM TheReportIsTrue == Spec => []ReportIsTrue
<1>1. RunInv => ReportIsTrue
  <2> SUFFICES ASSUME RunInv
               PROVE  ReportIsTrue
    OBVIOUS
  <2>1. /\ walk.exit = "COMPLETE" => ~IsOpen /\ \A t \in Targets : Resolved(t)
        /\ walk.exit = "BLOCKED" => IsOpen \/ Remaining = 0
    BY DEF RunInv, Ended
  <2>2. ASSUME Running \/ walk.phase = "ended", NEW t \in Targets
        PROVE  LET outcomes == {o \in db.outcomes : o.target = t}
                   fresh    == Since(outcomes)
               IN
               /\ Resolved(t) => outcomes # {} /\ OnRecord(<<t, "OUTCOME">>)
               /\ report[t] = "RESOLVED_CREATED" => fresh # {}
               /\ fresh # {} /\ report[t] # None =>
                    \/ Resolved(t)
                    \/ report[t] \in {"AUDIT_FAILED", "REQUEST_FAILED"} /\ IsOpen
    <3>1. Told(t)
      BY <2>2 DEF RunInv, Reported, Running
    <3>2. /\ StoredEver(t) <=> {o \in db.outcomes : o.target = t} # {}
          /\ StoredNow(t) <=> Since({o \in db.outcomes : o.target = t}) # {}
      BY DEF StoredEver, StoredNow, Since
    <3>3. QED
      BY <3>1, <3>2 DEF Told
  <2>3. QED
    BY <2>1, <2>2 DEF ReportIsTrue
<1>2. QED
  BY <1>1, RunIsKept, PTL

=============================================================================
