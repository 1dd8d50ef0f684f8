--------------------------- MODULE SyntheticCapture ---------------------------
(***************************************************************************)
(* CaptureOrchestrator.run and what surrounds it: runs of a provider over  *)
(* the synthetic universe with retries and a rate limit, whose answers are *)
(* published, normalised, validated and deduplicated; results of runs are  *)
(* assembled into packets, which are written once.                         *)
(*                                                                         *)
(* A run whose context and provider do not agree has not begun.  One       *)
(* process uses the store, in a temporary directory of its own.            *)
(***************************************************************************)
EXTENDS CapturePacket

CONSTANTS
  Providers,         \* the providers
  CapabilitiesOf,    \* what each declares, which is what it implements
  AnswersTo,         \* the answers of a provider: [capability, fixture] to a set
  PredictionInputs,  \* the persisted predictions a packet may be given
  AttemptLimit,      \* retryPolicy.options.maxAttempts
  MaxRuns,           \* bound: runs
  MaxPackets,        \* bound: packets
  MaxTroubles        \* bound: attempts that fail or are not allowed

Stages == {"PREMATCH", "CLOSING", "OUTCOME", "SYNTHETIC_FULL"}

(* What a provider can be asked for.                                       *)
Items == Kinds \X (Fixtures \union {0})

ASSUME SyntheticAssumption ==
  /\ Fixtures \subseteq Nat \ {0} /\ IsFiniteSet(Fixtures)
  /\ CapabilitiesOf \in [Providers -> SUBSET Kinds]
  /\ DOMAIN AnswersTo = Items
  /\ AttemptLimit \in Nat \ {0}
  /\ MaxRuns \in Nat /\ MaxPackets \in Nat /\ MaxTroubles \in Nat

(* The providers answer what they are asked: each with drafts of the kind, *)
(* a fixture with its kickoff; and of the fixture once there is one, then  *)
(* with one draft at least.                                                *)
ASSUME ProviderAssumption ==
  \A item \in Items : \A answer \in AnswersTo[item] :
    /\ answer.drafts \in Seq(Range(answer.drafts))
    /\ \A draft \in Range(answer.drafts) :
         /\ draft.kind = item[1] /\ draft.fixture \in Fixtures /\ draft.at \in Int
         /\ item[1] # "FIXTURES" => draft.fixture = item[2]
         /\ item[1] = "FIXTURES" => draft.kickoff \in Int
    /\ item[1] # "FIXTURES" => answer.drafts # <<>>

ASSUME PredictionAssumption ==
  \A p \in PredictionInputs : p.at \in Int /\ p.kickoff \in Int

VARIABLES
  store,      \* records of the evidence store
  dedup,      \* the deduplicator of the orchestrator in use
  run,        \* the run under way
  results,    \* the results of the runs, in order
  packets,    \* the packets written
  troubles    \* failures so far

syntheticVars == <<store, dedup, run, results, packets, troubles>>

-----------------------------------------------------------------------------
(* The capabilities a stage captures of each fixture.                      *)
Captured(stage) ==
  (IF stage \in {"PREMATCH", "SYNTHETIC_FULL"} THEN {"FOREBET", "ODDS"} ELSE {})
    \union (IF stage \in {"CLOSING", "SYNTHETIC_FULL"} THEN {"CLOSING"} ELSE {})
    \union (IF stage \in {"OUTCOME", "SYNTHETIC_FULL"} THEN {"OUTCOMES"} ELSE {})

Universe(fixtures) == {o.draft.fixture : o \in fixtures}

KickoffOf(fixtures, f) ==
  (CHOOSE o \in fixtures : o.draft.fixture = f).draft.kickoff

(* Each capability of the stage the provider has, for each fixture; they   *)
(* are gone through capability by capability, the fixtures in their order. *)
Agenda(provider, stage, fixtures) ==
  (Captured(stage) \intersect CapabilitiesOf[provider]) \X Universe(fixtures)

Turn == [FIXTURES |-> 0, FOREBET |-> 1, ODDS |-> 2, CLOSING |-> 3, OUTCOMES |-> 4]

Precedes(a, b) == Turn[a[1]] < Turn[b[1]] \/ (a[1] = b[1] /\ a[2] < b[2])

Off == [pc |-> "off"]

Started(provider, stage, known, orchestrator) ==
  [pc |-> "capturing", provider |-> provider, stage |-> stage,
   orchestrator |-> orchestrator, attempt |-> 1,
   agenda |-> {}, fixtures |-> known, data |-> {},
   attempted |-> 0, successful |-> 0, duplicates |-> 0, conflicts |-> 0,
   failed |-> 0, retries |-> 0, limited |-> 0, discovered |-> 0, abstained |-> {}]

(* Whether fixtures are to be discovered: not when the caller knows some.  *)
Discovers(provider, stage, known) ==
  stage # "OUTCOME" /\ "FIXTURES" \in CapabilitiesOf[provider] /\ known = {}

SyntheticInit ==
  /\ store = {}
  /\ dedup = Fresh
  /\ run = Off
  /\ results = <<>>
  /\ packets = {}
  /\ troubles = 0

Trouble == /\ troubles < MaxTroubles
           /\ troubles' = troubles + 1
Smooth  == troubles' = troubles

Orchestrators == {results[i].orchestrator : i \in DOMAIN results}

(* run begins, on the orchestrator of the last run or on a new one, with   *)
(* no fixtures or with those of an earlier result.                         *)
BeginRun(provider, stage, known) ==
  /\ run.pc = "off" /\ Len(results) < MaxRuns
  /\ \E again \in BOOLEAN :
       /\ again => results # <<>>
       /\ dedup' = IF again THEN dedup ELSE Fresh
       /\ LET number == IF again THEN Last(results).orchestrator
                                 ELSE Cardinality(Orchestrators) + 1
          IN  run' = [Started(provider, stage, known, number) EXCEPT
                        !.agenda = IF Discovers(provider, stage, known)
                                   THEN {<<"FIXTURES", 0>>}
                                   ELSE Agenda(provider, stage, known)]
  /\ UNCHANGED <<store, results, packets, troubles>>

(* The next item; after the discovery, the rest for what is now known.     *)
Advanced(m, item) ==
  [m EXCEPT !.attempt = 1,
            !.agenda = IF item[1] = "FIXTURES" THEN Agenda(m.provider, m.stage, m.fixtures)
                       ELSE @ \ {item}]

(* The attempts of an item are counted once, at the first.                 *)
Counted(m) == IF m.attempt = 1 THEN [m EXCEPT !.attempted = @ + 1] ELSE m

(* Mutant of Abstained: a failure ends the captures of the run.            *)
AbstainedFromAll(m, item, error) ==
  [m EXCEPT !.failed = @ + 1, !.agenda = {}, !.attempt = 1,
            !.conflicts = @ + (IF error = "FIXTURE_IDENTITY_CONFLICT" THEN 1 ELSE 0),
            !.limited = @ + (IF error = "CAPTURE_RATE_LIMITED" THEN 1 ELSE 0),
            !.abstained = @ \union {item[2]}]

(* recordFailure: the item is given up, with a warning that names its      *)
(* fixture.                                                                *)
Abstained(m, item, error) ==
  Advanced([m EXCEPT
    !.failed = @ + 1,
    !.conflicts = @ + (IF error = "FIXTURE_IDENTITY_CONFLICT" THEN 1 ELSE 0),
    !.limited = @ + (IF error = "CAPTURE_RATE_LIMITED" THEN 1 ELSE 0),
    !.abstained = @ \union {item[2]}], item)

(* What was taken of an answer: also of one that is refused half-way.      *)
Kept(m, item, taken) ==
  LET kept == [m EXCEPT !.duplicates = @ + taken.duplicates]
  IN  IF item[1] = "FIXTURES"
      THEN [kept EXCEPT !.fixtures = @ \union taken.accepted]
      ELSE [kept EXCEPT !.data = @ \union taken.accepted]

(* The end of an item whose answer was published.                          *)
Completed(m, item, taken, size) ==
  IF taken.error # Absent THEN Abstained(Kept(m, item, taken), item, taken.error)
  ELSE Advanced([Kept(m, item, taken) EXCEPT
         !.successful = @ + 1,
         !.discovered = IF item[1] = "FIXTURES" THEN size ELSE @], item)

(* The item is the first of those that are left.                           *)
Attempting(item) ==
  /\ run.pc = "capturing"
  /\ item \in run.agenda /\ \A other \in run.agenda \ {item} : Precedes(item, other)

(* The rate limit refuses an attempt: no retry.                            *)
Limited(item) ==
  /\ Attempting(item)
  /\ Trouble
  /\ run' = Abstained(Counted(run), item, "CAPTURE_RATE_LIMITED")
  /\ UNCHANGED <<store, dedup, results, packets>>

(* The transport fails.  What may be retried is, while attempts are left.  *)
Fail(item, retryable) ==
  /\ Attempting(item)
  /\ Trouble
  /\ IF retryable /\ run.attempt < AttemptLimit
     THEN run' = [Counted(run) EXCEPT !.attempt = @ + 1, !.retries = @ + 1]
     ELSE run' = Abstained(Counted(run), item, "CAPTURE_FAILED")
  /\ UNCHANGED <<store, dedup, results, packets>>

(* The provider answers: the evidence is published, and what the answer    *)
(* holds is validated and taken.                                           *)
Answer(item, answer) ==
  LET evidence == RawEvidence(run.provider, Reference(item[1], item[2]), answer)
      kickoff  == IF item[1] = "FIXTURES" THEN Absent ELSE KickoffOf(run.fixtures, item[2])
  IN  /\ Attempting(item)
      /\ Smooth
      /\ \/ /\ Conflicts(store, evidence)
            /\ run' = Abstained(Counted(run), item, "CAPTURE_EVIDENCE_CONFLICT")
            /\ UNCHANGED <<store, dedup>>
         \/ /\ ~Conflicts(store, evidence)
            /\ store' = store \union {Published(store, evidence)}
            /\ \E taken \in Takings(dedup, answer.drafts, Published(store, evidence), kickoff) :
                 /\ dedup' = taken.dedup
                 /\ run' = Completed(Counted(run), item, taken, Len(answer.drafts))
      /\ UNCHANGED <<results, packets>>

(* validateOutcomeCorrections: the corrections that do not follow, in the  *)
(* same result, an earlier outcome of the same fixture.  They stay in it.  *)
BadCorrections(data) ==
  {o \in OfKind(data, "OUTCOMES") :
     /\ o.draft.supersedes # Absent
     /\ ~\E q \in OfKind(data, "OUTCOMES") :
           /\ q.draft.id = o.draft.supersedes
           /\ q.draft.fixture = o.draft.fixture
           /\ q.draft.at < o.draft.at}

Finish ==
  /\ run.pc = "capturing" /\ run.agenda = {}
  /\ LET bad == BadCorrections(run.data)
     IN  results' = Append(results,
           [run EXCEPT !.pc = "done", !.failed = @ + Cardinality(bad),
                       !.abstained = @ \union {o.draft.fixture : o \in bad}])
  /\ run' = Off
  /\ UNCHANGED <<store, dedup, packets, troubles>>

Contents(R) == UNION {results[i].fixtures \union results[i].data : i \in R}

(* assemble and write: a packet that exists is not written again.          *)
Assemble(stage, R, decided, inputs) ==
  /\ run.pc = "off" /\ Cardinality(packets) < MaxPackets
  /\ R # {} /\ \A i \in R : results[i].stage = stage
  /\ Assemblable(store, stage, Contents(R), decided, inputs)
  /\ packets' = packets \union {Packet(store, stage, Contents(R), decided, inputs)}
  /\ UNCHANGED <<store, dedup, run, results, troubles>>

SyntheticNext ==
  \/ \E p \in Providers, stage \in Stages,
        known \in {{}} \union {results[i].fixtures : i \in DOMAIN results} :
       BeginRun(p, stage, known)
  \/ \E item \in Items :
       \/ Limited(item)
       \/ \E retryable \in BOOLEAN : Fail(item, retryable)
       \/ \E answer \in AnswersTo[item] : Answer(item, answer)
  \/ Finish
  \/ \E stage \in Stages, R \in SUBSET DOMAIN results,
        decided \in BOOLEAN, inputs \in SUBSET PredictionInputs :
       Assemble(stage, R, decided, inputs)

SyntheticSpec == SyntheticInit /\ [][SyntheticNext]_syntheticVars

-----------------------------------------------------------------------------
Observations == UNION {results[i].data \union results[i].fixtures : i \in DOMAIN results}

(* Each observation of a result carries the reference and the hash of an   *)
(* evidence that is in the store and that holds it: also when its answer   *)
(* was a replay, was published before under another identity, or was       *)
(* refused half-way.                                                       *)
ObservationsAreBound ==
  \A o \in Observations :
    /\ \E r \in store : r.reference = o.reference /\ r.sha = o.hash
    /\ o.draft \in Range(o.hash)

(* A result holds no forebet, odds or closing captured at or after the     *)
(* kickoff the result itself gives for the fixture, and no outcome of      *)
(* before; and no record twice with different content.                     *)
ResultsAreProspective ==
  \A i \in DOMAIN results :
    /\ \A o \in results[i].data :
         LET kickoff == KickoffOf(results[i].fixtures, o.draft.fixture)
         IN  IF o.draft.kind = "OUTCOMES" THEN o.draft.at > kickoff
                                          ELSE o.draft.at < kickoff
    /\ ~\E o, q \in results[i].data : RecordKey(o.draft) = RecordKey(q.draft) /\ o # q

(* "El orquestador conserva el universo completo y aisla fallos por        *)
(* fixture": what a stage captures of a fixture of the universe is in the  *)
(* data, in an earlier result of the orchestrator (a duplicate), or the    *)
(* fixture has a technical abstention.                                     *)
NoFixtureIsForgotten ==
  \A i \in DOMAIN results :
    \A c \in Captured(results[i].stage) \intersect CapabilitiesOf[results[i].provider],
       f \in Universe(results[i].fixtures) :
      \/ f \in results[i].abstained
      \/ \E j \in 1..i :
           /\ results[j].orchestrator = results[i].orchestrator
           /\ \E o \in OfKind(results[j].data, c) : o.draft.fixture = f

(* A packet looks back only: whatever runs it is made of, what it holds of *)
(* a fixture was captured before every kickoff it gives for the fixture    *)
(* (outcomes after), and its predictions are the latest that were taken in *)
(* time, one for each fixture.                                             *)
PacketIsProspective ==
  \A p \in packets :
    /\ \A o \in p.observations, x \in OfKind(p.observations, "FIXTURES") :
         o.draft.kind # "FIXTURES" /\ x.draft.fixture = o.draft.fixture =>
           IF o.draft.kind = "OUTCOMES" THEN o.draft.at > x.draft.kickoff
                                        ELSE o.draft.at < x.draft.kickoff
    /\ \A s \in p.predictions :
         /\ s.at < s.kickoff
         /\ \A q \in p.offered \ {s} :
              q.fixture = s.fixture => q.at < s.at \/ q.at >= q.kickoff
=============================================================================
