----------------------------- MODULE CapturePacket -----------------------------
(***************************************************************************)
(* PacketAssembler: results of capture runs of one stage, the decisions    *)
(* taken from them and the persisted predictions are put together in a     *)
(* packet whose references resolve in the evidence store.                  *)
(***************************************************************************)
EXTENDS SyntheticEvidence

CONSTANT Fixtures        \* the synthetic universe: numbers from 1

Kinds == {"FIXTURES", "FOREBET", "ODDS", "CLOSING", "OUTCOMES"}

OfKind(observations, kind) == {o \in observations : o.draft.kind = kind}

(* Mutant of Contradictory: of two versions of a record the last is kept.  *)
ContradictoryNever(observations) == FALSE

(* uniqueSorted: the same identifier with different content.               *)
Contradictory(observations) ==
  \E o, q \in observations : RecordKey(o.draft) = RecordKey(q.draft) /\ o # q

(* assertStageContents.                                                    *)
StageAllows(stage, observations, decided) ==
  LET holds(kinds) == \E k \in kinds : OfKind(observations, k) # {}
  IN  CASE stage = "PREMATCH" -> ~holds({"CLOSING", "OUTCOMES"})
        [] stage = "CLOSING"  -> ~holds({"FOREBET", "ODDS", "OUTCOMES"}) /\ ~decided
        [] stage = "OUTCOME"  -> ~holds({"FOREBET", "ODDS", "CLOSING"}) /\ ~decided
        [] OTHER              -> TRUE

(* buildSyntheticPrematchDecisions needs every fixture and the quote of    *)
(* the first one.                                                          *)
Decidable(observations) ==
  /\ \A f \in Fixtures : \E o \in OfKind(observations, "FIXTURES") : o.draft.fixture = f
  /\ \E o \in OfKind(observations, "ODDS") : o.draft.fixture = 1

-----------------------------------------------------------------------------
(* Persisted predictions: [fixture, at, kickoff, flag, whole, body].  flag *)
(* is predictionCapturedBeforeKickoff, and whole says that the fields, the *)
(* metadata, the three selections and their exact total are as they must   *)
(* be.                                                                     *)
Usable(p) == p.whole /\ (p.flag <=> p.at < p.kickoff)

(* Those captured in time; the others are left out without a word.         *)
Candidates(inputs) == {p \in inputs : p.at < p.kickoff}

Ambiguous(inputs) ==
  \E p, q \in Candidates(inputs) :
    /\ p.fixture = q.fixture
    /\ p.kickoff # q.kickoff \/ (p.at = q.at /\ p # q)

PredictionsAllowed(stage, inputs) ==
  /\ inputs # {} => stage \in {"PREMATCH", "SYNTHETIC_FULL"}
  /\ \A p \in inputs : Usable(p)
  /\ ~Ambiguous(inputs)

(* Mutant of PredictionSnapshots: all of each fixture.                     *)
PredictionSnapshotsAll(inputs) == Candidates(inputs)

(* The latest one of each fixture.                                         *)
PredictionSnapshots(inputs) ==
  {p \in Candidates(inputs) :
     \A q \in Candidates(inputs) : q.fixture = p.fixture => q.at <= p.at}

-----------------------------------------------------------------------------
References(observations) == {o.reference : o \in observations}

Resolves(store, observations) ==
  \A reference \in References(observations) : FindByReference(store, reference) # Absent

(* The manifest names each reference once, with the hash of the evidence   *)
(* that is found first.                                                    *)
Manifest(store, observations) ==
  [reference \in References(observations) |-> FindByReference(store, reference).sha]

(* assemble, when nothing blocks it.                                       *)
Assemblable(store, stage, observations, decided, inputs) ==
  /\ ~Contradictory(observations)
  /\ StageAllows(stage, observations, decided)
  /\ decided => Decidable(observations)
  /\ Resolves(store, observations)
  /\ PredictionsAllowed(stage, inputs)

Packet(store, stage, observations, decided, inputs) ==
  [stage |-> stage, observations |-> observations, decided |-> decided,
   manifest |-> Manifest(store, observations),
   predictions |-> PredictionSnapshots(inputs), offered |-> inputs]
=============================================================================
