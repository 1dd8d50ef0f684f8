------------------------------- MODULE DailyRun -------------------------------
(***************************************************************************)
(* runDaily: list the fixtures of a sports date, keep those that pass the  *)
(* filter, ask for predictions of the best of them and for odds of their   *)
(* competitions, rank what came back, and record the run in one            *)
(* transaction under an id that is the hash of the answers.  Beside it,    *)
(* the offline derivations of a recorded run, the settlement of its        *)
(* fixtures, and the statistics the pages compute from all of them.        *)
(*                                                                         *)
(* A dry run reads no network, writes nothing and ends at once; a run that *)
(* fails on its arguments has not begun.                                   *)
(***************************************************************************)
EXTENDS DailyRanking

CONSTANTS
  Runners,          \* the processes that may run the command
  Locked,           \* those the systemd unit starts, under its lock
  FirstKickoff,     \* the kickoff of each fixture as first announced
  MayMove,          \* the fixtures that may be put off or brought forward
  Forecasts,        \* the predictions the provider may answer for each fixture
  HasOddsKey,       \* whether THE_ODDS_API_KEY is set
  Derivations,      \* the offline reviews in use
  MaxRuns,          \* bound: rows of dailyAnalysisRun
  MaxInstant,       \* bound: instants of the clock
  MaxTroubles       \* bound: requests, writes and processes that fail

ASSUME DailyAssumption ==
  /\ Locked \subseteq Runners
  /\ FirstKickoff \in [Fixtures -> Nat]
  /\ MayMove \subseteq Fixtures
  /\ DOMAIN Forecasts = Fixtures
  /\ \A f \in Fixtures : Forecasts[f] \subseteq Predictions
  /\ HasOddsKey \in BOOLEAN
  /\ Derivations \subseteq {"INTELLIGENT_1X", "OFFLINE_SCORING", "ALIAS_REPLAY"}
  /\ MaxRuns \in Nat /\ MaxInstant \in Nat /\ MaxTroubles \in Nat

VARIABLES
  clock,      \* the time
  kickoff,    \* when each fixture is really to be played
  supported,  \* the keys whose latest oddsSportCapability row is SUPPORTED
  published,  \* contents of the evidence store
  runs,       \* rows of dailyAnalysisRun with what hangs from them
  stored,     \* the kickoff of each row of fixture, None before there is one
  outcomes,   \* fixtures that have a dailyOutcome
  runner,     \* the memory of each process
  troubles    \* failures so far

world == <<clock, kickoff, supported>>
database == <<runs, stored, outcomes>>
vars == <<world, published, database, runner, troubles>>

-----------------------------------------------------------------------------
(* Answers, which stand for their bytes.  Two keys without events answer   *)
(* the same bytes, an empty list.                                          *)

Entry(f) == [fixture |-> f, kickoff |-> kickoff[f],
             status |-> IF clock < kickoff[f] THEN "NS" ELSE "FT"]

Answer(endpoint) ==
  [endpoint |-> endpoint, list |-> {}, fixture |-> None, prediction |-> None, key |-> None]

ListAnswer(date) ==
  [Answer("fixtures-by-date") EXCEPT
     !.list = {Entry(f) : f \in {g \in Fixtures : Day(kickoff[g]) = date}}]

(* None stands for the answers no prediction can be taken from.            *)
PredictionAnswer(f, p) ==
  [Answer("prediction-by-fixture") EXCEPT !.fixture = f, !.prediction = p]

OddsAnswer(k, events) ==
  [Answer("odds-by-sport") EXCEPT !.key = IF events THEN k ELSE None]

OddsError(k) == [Answer("odds-provider-error") EXCEPT !.key = k]

NoFixture == [f \in {} |-> None]

Off == [pc |-> "off", date |-> 0, list |-> {}, eligible |-> {},
        left |-> {}, keys |-> {}, kickoffs |-> NoFixture,
        evidence |-> {}, repeated |-> FALSE, predicted |-> NoFixture]

Init ==
  /\ clock = 0
  /\ kickoff = FirstKickoff
  /\ supported \in SUBSET Keys
  /\ published = {}
  /\ runs = {}
  /\ stored = [f \in Fixtures |-> None]
  /\ outcomes = {}
  /\ runner = [r \in Runners |-> Off]
  /\ troubles = 0

Trouble == /\ troubles < MaxTroubles
           /\ troubles' = troubles + 1
Smooth  == troubles' = troubles

Gone(r) == runner' = [runner EXCEPT ![r] = Off]

Publish(answer) == published' = published \union {answer}

-----------------------------------------------------------------------------
(* The unit runs for today, under its lock; by hand any date may be asked. *)
Begin(r, date) ==
  /\ runner[r].pc = "off"
  /\ r \in Locked => /\ \A q \in Locked : runner[q].pc = "off"
                     /\ date = Day(clock)
  /\ runner' = [runner EXCEPT ![r] = [Off EXCEPT !.pc = "listing", !.date = date]]
  /\ UNCHANGED <<world, published, database, troubles>>

(* The run's memory once it has a list: the clock is read after the answer *)
(* and the capabilities after that.                                        *)
Listed(m, answer) ==
  LET list     == answer.list
      kickoffs == [f \in {e.fixture : e \in list} |->
                     (CHOOSE e \in list : e.fixture = f).kickoff]
      eligible == Admitted(list, m.date, clock)
      deep     == Deep(eligible, kickoffs, supported)
  IN  [m EXCEPT !.pc = "predicting", !.list = list, !.kickoffs = kickoffs,
                !.eligible = eligible,
                !.left = deep,
                !.keys = IF HasOddsKey THEN RequestedKeys(deep, supported) ELSE {},
                !.evidence = {answer}]

(* The discovery.  When the answer fails or is not kept the run ends and   *)
(* its audit is lost with it.                                              *)
List(r) ==
  LET answer == ListAnswer(runner[r].date)
  IN  /\ runner[r].pc = "listing"
      /\ \/ Trouble /\ Gone(r) /\ published' = published
         \/ /\ Smooth
            /\ Publish(answer)
            /\ runner' = [runner EXCEPT ![r] = Listed(@, answer)]
      /\ UNCHANGED <<world, database>>

(* Mutant of WithoutPrediction: a prediction counts before it is kept.     *)
WithoutPredictionUnkept(m, f) ==
  [m EXCEPT !.left = @ \ {f},
            !.predicted = [g \in DOMAIN @ \union {f} |->
                             IF g = f THEN CHOOSE p \in Forecasts[f] : TRUE ELSE @[g]]]

(* The request failed or its answer was not kept: the next fixture.        *)
WithoutPrediction(m, f) == [m EXCEPT !.left = @ \ {f}]

WithEmptyPrediction(m, f) ==
  [m EXCEPT !.left = @ \ {f}, !.evidence = @ \union {PredictionAnswer(f, None)}]

WithPrediction(m, f, p) ==
  [m EXCEPT !.left = @ \ {f},
            !.evidence = @ \union {PredictionAnswer(f, p)},
            !.predicted = [g \in DOMAIN @ \union {f} |-> IF g = f THEN p ELSE @[g]]]

(* getPrediction of the next fixture, its evidence and its mapping.  An    *)
(* empty answer is kept without a prediction; percentages that add up to   *)
(* nothing end the run.                                                    *)
Predict(r, f) ==
  /\ runner[r].pc = "predicting" /\ f \in runner[r].left
  /\ \A g \in runner[r].left : f <= g
  /\ \/ /\ Trouble /\ published' = published
        /\ runner' = [runner EXCEPT ![r] = WithoutPrediction(@, f)]
     \/ /\ Trouble /\ Publish(PredictionAnswer(f, None))
        /\ runner' = [runner EXCEPT ![r] = WithEmptyPrediction(@, f)]
     \/ Trouble /\ Publish(PredictionAnswer(f, None)) /\ Gone(r)
     \/ \E p \in Forecasts[f] :
          /\ Smooth
          /\ Publish(PredictionAnswer(f, p))
          /\ runner' = [runner EXCEPT ![r] = WithPrediction(@, f, p)]
  /\ UNCHANGED <<world, database>>

(* An answer about odds is one more row of evidence.                       *)
WithOdds(m, k, answer) ==
  [m EXCEPT !.keys = @ \ {k},
            !.evidence = @ \union {answer},
            !.repeated = @ \/ answer \in m.evidence]

WithoutOdds(m, k) == [m EXCEPT !.keys = @ \ {k}]

(* client.bySport of the next key.  A refusal of the provider is evidence  *)
(* too, and ends the run when it cannot be kept; a failure of the network  *)
(* or of the store of an answer is a diagnostic.                           *)
AskOdds(r, k) ==
  /\ runner[r].pc = "predicting" /\ runner[r].left = {} /\ k \in runner[r].keys
  /\ \A j \in runner[r].keys : k <= j
  /\ \/ \E events \in BOOLEAN :
          /\ Smooth
          /\ Publish(OddsAnswer(k, events))
          /\ runner' = [runner EXCEPT ![r] = WithOdds(@, k, OddsAnswer(k, events))]
     \/ /\ Trouble /\ Publish(OddsError(k))
        /\ runner' = [runner EXCEPT ![r] = WithOdds(@, k, OddsError(k))]
     \/ /\ Trouble /\ published' = published
        /\ \/ runner' = [runner EXCEPT ![r] = WithoutOdds(@, k)]
           \/ Gone(r)
  /\ UNCHANGED <<world, database>>

-----------------------------------------------------------------------------
(* The id: the date and the hashes of the evidence, in order.  Neither the *)
(* arguments nor the time of the run are part of it.                       *)
RunId(m) == <<m.date, m.evidence, m.repeated>>

Recorded(id) == \E run \in runs : run.id = id

Analysed(f, m, recommended) ==
  [fixture |-> f, prediction |-> m.predicted[f], recommended |-> f \in recommended]

Row(m) ==
  [id |-> RunId(m), derivedFrom |-> None, date |-> m.date,
   completed |-> clock, order |-> Cardinality(runs),
   eligible |-> m.eligible,
   analyses |-> {Analysed(f, m, Recommended(m.predicted, m.kickoffs)) :
                   f \in DOMAIN m.predicted},
   evidence |-> m.evidence]

(* findUnique: a run already recorded is shown again and nothing written.  *)
Look(r) ==
  /\ runner[r].pc = "predicting" /\ runner[r].left = {} /\ runner[r].keys = {}
  /\ IF Recorded(RunId(runner[r])) THEN Gone(r)
     ELSE runner' = [runner EXCEPT ![r] = [@ EXCEPT !.pc = "recording"]]
  /\ UNCHANGED <<world, published, database, troubles>>

(* Mutant of Refused: one run is recorded for each date.                  *)
RefusedDate(m) == Recorded(RunId(m)) \/ m.repeated \/ \E run \in runs : run.date = m.date

(* Two rows with one key: of the run, or of its evidence.                  *)
Refused(m) == Recorded(RunId(m)) \/ m.repeated

(* A fixture is stored when it is first seen, and never changed.           *)
StoredAfter(m) ==
  [f \in Fixtures |->
     IF stored[f] = None /\ f \in DOMAIN m.kickoffs THEN m.kickoffs[f] ELSE stored[f]]

Full == Cardinality(runs) >= MaxRuns

(* The transaction, all or nothing.                                        *)
Record(r) ==
  /\ runner[r].pc = "recording"
  /\ \/ /\ Smooth /\ ~Refused(runner[r]) /\ ~Full
        /\ runs' = runs \union {Row(runner[r])}
        /\ stored' = StoredAfter(runner[r])
     \/ Smooth /\ Refused(runner[r]) /\ UNCHANGED <<runs, stored>>
     \/ Trouble /\ UNCHANGED <<runs, stored>>
     \/ Smooth /\ Full /\ UNCHANGED <<runs, stored>>
  /\ Gone(r)
  /\ UNCHANGED <<world, published, outcomes>>

Crash(r) ==
  /\ runner[r].pc # "off"
  /\ Trouble /\ Gone(r)
  /\ UNCHANGED <<world, published, database>>

-----------------------------------------------------------------------------
(* The derivations: deriveIntelligentOneXRun reads the stored predictions  *)
(* again, deriveDailyRun scores again what had been recommended, and       *)
(* replayDailyOddsWithAliases prices every analysis from one answer about  *)
(* odds, whichever row of The Odds API is found first; it fails when that  *)
(* is a refusal or when it cannot price what was suggested.                *)
Source(run, how) ==
  IF how = "ALIAS_REPLAY"
  THEN {e \in run.evidence : e.endpoint \in {"odds-by-sport", "odds-provider-error"}}
  ELSE {None}

Derivable(run, how, artifact) ==
  how = "ALIAS_REPLAY" =>
    /\ artifact.endpoint = "odds-by-sport"
    /\ \A a \in run.analyses : a.recommended => Evaluated(a.prediction)

DerivedId(run, how, artifact) == <<<<how, artifact>>, run.id>>

ReviewedAgain(run, how) ==
  IF how = "OFFLINE_SCORING" THEN run.analyses
  ELSE {[a EXCEPT !.recommended = TRUE] : a \in run.analyses}

DerivedRow(run, how, artifact) ==
  [run EXCEPT !.id = DerivedId(run, how, artifact), !.derivedFrom = run.id,
              !.completed = clock, !.order = Cardinality(runs),
              !.analyses = ReviewedAgain(run, how),
              !.evidence = IF how = "ALIAS_REPLAY" THEN {artifact} ELSE @]

(* One transaction, once for each run and derivation.                      *)
Derive(run, how) ==
  /\ ~Full
  /\ \E artifact \in Source(run, how) :
       /\ Derivable(run, how, artifact)
       /\ ~Recorded(DerivedId(run, how, artifact))
       /\ runs' = runs \union {DerivedRow(run, how, artifact)}
  /\ UNCHANGED <<world, published, stored, outcomes, runner, troubles>>

-----------------------------------------------------------------------------
(* settlePending, as Settlement has it: a recommended fixture whose time   *)
(* has passed is settled when the provider reports it at the kickoff that  *)
(* is stored; moved elsewhere, it is refused as another fixture.           *)
Settle(f) ==
  /\ f \notin outcomes
  /\ \E run \in runs : \E a \in run.analyses : a.fixture = f /\ a.recommended
  /\ stored[f] = kickoff[f] /\ kickoff[f] < clock
  /\ outcomes' = outcomes \union {f}
  /\ UNCHANGED <<world, published, runs, stored, runner, troubles>>

Tick ==
  /\ clock < MaxInstant
  /\ clock' = clock + 1
  /\ UNCHANGED <<kickoff, supported>>

(* A fixture still to be played is given another kickoff, once.            *)
Move(f, instant) ==
  /\ f \in MayMove
  /\ kickoff[f] = FirstKickoff[f] /\ clock < kickoff[f]
  /\ instant > clock /\ instant # kickoff[f]
  /\ kickoff' = [kickoff EXCEPT ![f] = instant]
  /\ UNCHANGED <<clock, supported>>

World ==
  /\ Tick \/ \E f \in Fixtures, instant \in 0..MaxInstant : Move(f, instant)
  /\ UNCHANGED <<published, database, runner, troubles>>

(* market-v2-odds-capability: one more row for a key, the latest counts.   *)
Validate(k, works) ==
  /\ supported' = IF works THEN supported \union {k} ELSE supported \ {k}
  /\ supported' # supported
  /\ Trouble
  /\ UNCHANGED <<clock, kickoff, published, database, runner>>

Run(r) == \/ List(r) \/ Look(r) \/ Record(r)
          \/ \E f \in Fixtures : Predict(r, f)
          \/ \E k \in Keys : AskOdds(r, k)

Next ==
  \/ \E r \in Runners : Run(r) \/ Crash(r)
                          \/ \E date \in 0..Day(MaxInstant) : Begin(r, date)
  \/ \E run \in runs, how \in Derivations : Derive(run, how)
  \/ \E f \in Fixtures : Settle(f)
  \/ \E k \in Keys, works \in BOOLEAN : Validate(k, works)
  \/ World

Spec == Init /\ [][Next]_vars

-----------------------------------------------------------------------------
(* The pages.                                                              *)

Recommends(run) == \E a \in run.analyses : a.recommended

(* Mutant of Counts: derived runs are counted as well.                     *)
CountsDerived(run) == Recommends(run)

(* The runs the statistics may use: the query and the first test of        *)
(* selectCanonicalDailyRuns.                                               *)
Counts(run) == Recommends(run) /\ run.derivedFrom = None

(* The canonical run of a date is the one completed last.                  *)
Canonical == {run \in runs :
                /\ Counts(run)
                /\ \A q \in runs : Counts(q) /\ q.date = run.date => q.order <= run.order}

(* Mutants of InSample: a selection of another date counts, and one that   *)
(* was recorded after the kickoff counts.                                  *)
InSampleAnyDate(run, f) == run.completed < stored[f]
InSampleLate(run, f)    == Day(stored[f]) = run.date

(* The page leaves out selections of another date or recorded too late.    *)
InSample(run, f) == Day(stored[f]) = run.date /\ run.completed < stored[f]

(* The selections the statistics are computed from.                        *)
Sample == {s \in UNION {{run} \X run.analyses : run \in Canonical} :
             s[2].recommended /\ InSample(s[1], s[2].fixture)}

-----------------------------------------------------------------------------
(* A run, what it was derived from, and so on: the rows that are in every  *)
(* set which holds the run and what any of its members was derived from.   *)
Lineage(rows, run) ==
  {q \in rows : \A S \in SUBSET rows :
     /\ run \in S
     /\ \A d \in S, source \in rows : d.derivedFrom = source.id => source \in S
     => q \in S}

RestsOn(run, origin) ==
  /\ origin.derivedFrom = None
  /\ \A a \in run.analyses :
       /\ PredictionAnswer(a.fixture, a.prediction) \in origin.evidence
       /\ \E e \in origin.evidence : \E entry \in e.list : entry.fixture = a.fixture

(* Every analysis can be shown, of a run and of its reviews and theirs:    *)
(* the list its fixture came from and the answer its prediction was read   *)
(* from are rows of the run at the beginning of its lineage, and their     *)
(* bytes are in the evidence store.  (runtime.ts publishes an answer       *)
(* before it uses it, and goes on without a prediction it could not keep;  *)
(* a replay copies the predictions and not their evidence.)                *)
AnalysesHaveEvidence ==
  \A run \in runs :
    /\ run.evidence \subseteq published
    /\ \E origin \in Lineage(runs, run) : RestsOn(run, origin)

(* The hit rate is of predictions made before the match: a selection that  *)
(* is counted and settled was recorded before its fixture was played, also *)
(* when the run was slow, was for another date, or the fixture was moved.  *)
SettledIsProspective ==
  \A s \in Sample :
    s[2].fixture \in outcomes => s[1].completed < kickoff[s[2].fixture]

(* "Una seleccion por partido y fecha": a fixture is counted once, and     *)
(* since its stored kickoff gives its date, once in all; a fixture that    *)
(* was put off is in the canonical runs of two dates.                      *)
CountedOnce ==
  \A s, t \in Sample : s[2].fixture = t[2].fixture => s = t

(* Derived runs do not change the canonical sample (they may be what the   *)
(* pages show as the reading of the day).                                  *)
DerivedDoNotCount ==
  [][\A run \in runs' \ runs : run.derivedFrom # None => Sample' = Sample]_vars

(* A run that reached its transaction and met no failure is recorded,      *)
(* unless it is there already, recorded by another process since it was    *)
(* looked for, or two of its answers have the same bytes.                  *)
OnlyEqualRunsAreRefused ==
  [][\A r \in Runners :
       /\ runner[r].pc = "recording" /\ runner'[r].pc = "off"
       /\ troubles' = troubles /\ ~Full
       => \/ \E run \in runs' : run.id = RunId(runner[r])
          \/ \E k, j \in Keys : k # j /\ runner[r].repeated]_vars
=============================================================================
