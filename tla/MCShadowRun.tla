----------------------------- MODULE MCShadowRun -----------------------------
(***************************************************************************)
(* An instance of ShadowRun for TLC: two invocations that may overlap, the *)
(* command that captures Forebet alone, two assessments, two answers of    *)
(* each source, and two historical evaluations.                            *)
(***************************************************************************)
EXTENDS ShadowRun, TLC

CONSTANTS first, second, one, other

TwoPages == [FOREBET |-> {"f1", "f2"}, STATAREA |-> {"s1", "s2"}]
Alike    == Permutations({first, second}) \union Permutations({one, other})

(* The fixture and the metrics of the tests of the engine.                 *)
Sample ==
  [lines |-> "1X" :> 75 @@ "X2" :> 55 @@ "12" :> 70, over |-> 65,
   side |-> "OVER_25", forebet |-> 70, goals |-> 3, average |-> 300,
   stage |-> "EXACT", sound |-> TRUE, dcReady |-> TRUE, ouReady |-> TRUE]

Metric(hit) == [n |-> 34, hit |-> hit, wilson |-> 58, stability |-> "STABLE_OR_IMPROVED",
                country |-> 30, competition |-> 25]

SampleMetrics ==
  <<"DOUBLE_CHANCE", "1X">> :> Metric(80) @@ <<"DOUBLE_CHANCE", "X2">> :> Metric(70)
    @@ <<"DOUBLE_CHANCE", "12">> :> Metric(72)
    @@ <<"OU25_CONSENSUS_SIMPLE", "OVER_25">> :> Metric(70)
    @@ <<"FOREBET_OU25_CONTROL", "OVER_25">> :> Metric(65)
    @@ <<"STATAREA_OU25_CONTROL", "OVER_25">> :> Metric(64)
    @@ <<"COMBO", "1X", "OVER_25">> :> Metric(68)

(* The second evaluation has no metric of the double chance.               *)
TwoEvaluations ==
  <<SampleMetrics,
    [key \in {k \in DOMAIN SampleMetrics : k[1] # "DOUBLE_CHANCE"} |-> SampleMetrics[key]]>>

Unready == [Sample EXCEPT !.dcReady = FALSE, !.ouReady = FALSE]

(* No fixtures in common, only one of no use, or all.                      *)
SomePairs ==
  [captures \in TwoPages["FOREBET"] \X TwoPages["STATAREA"] |->
     CASE captures = <<"f1", "s1">> -> {}
       [] captures = <<"f2", "s1">> -> {Unready}
       [] captures = <<"f1", "s2">> -> {Sample}
       [] OTHER                     -> {Sample, Unready}]

-----------------------------------------------------------------------------
(* What the tests of the policy and of the engine say of their examples.   *)
ASSUME TestedScores ==
  /\ DoubleChanceSignal(70, {60, 55}) = 2000 /\ DoubleChanceSignal(45, {60, 55}) = 0
  /\ Ou25Signal(65, 70) = 2520
  /\ HistoricalEvidence([Metric(80) EXCEPT !.n = 33, !.wilson = 65]) = 3340
  /\ HistoricalEvidence(NoMetric) = 0
  /\ HistoricalEvidence([Metric(100) EXCEPT !.wilson = 100, !.stability = "SEVERE_DROP"]) = 1800
  /\ DataQuality("EXACT", TRUE, TRUE, TRUE) = 2000
  /\ PriorityScore(4000, 4000, 1300, Metric(80), "DOUBLE_CHANCE", None) = 6400
  /\ PriorityScore(4000, 3000, 2000, [Metric(80) EXCEPT !.stability = "MODERATE_DROP"],
                   "DOUBLE_CHANCE", None) = 7400
  /\ <<PriorityClass(8500), PriorityClass(7500), PriorityClass(6500), PriorityClass(6499)>>
       = <<"HIGH", "INTERESTING", "TRACK", "DO_NOT_PRIORITIZE">>

ASSUME TestedFixture ==
  LET markets(S) == {c.market : c \in S}
  IN  /\ markets(StrictWinners(DoubleChanceCandidates(Sample, SampleMetrics))) = {<<"1X">>}
      /\ markets(Options(Sample, SampleMetrics))
           = {<<"1X">>, <<"OVER_25">>, <<"1X", "OVER_25">>}
      /\ Cardinality(AllCandidates(Sample, SampleMetrics)) = 5
=============================================================================
