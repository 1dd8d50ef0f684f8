----------------------------- MODULE MarketPriority -----------------------------
(***************************************************************************)
(* The market priority policy (domain/market-priority): how the lines of   *)
(* one fixture are scored, capped and compared, and which one is preferred.*)
(* assess-market-priority.ts applies it to the historical fixtures and     *)
(* prospective/engine.ts to the ones of the shadow run.                    *)
(*                                                                         *)
(* Percentages are integers and rates are in hundredths, so that scores    *)
(* are exact in hundredths of a point.                                     *)
(***************************************************************************)
EXTENDS Integers, FiniteSets, FiniteSetsExt

CONSTANT None

Lines == {"1X", "X2", "12"}
Sides == {"OVER_25", "UNDER_25"}

Lower(x, y) == IF x < y THEN x ELSE y
Clamp(x, least, most) == IF x < least THEN least ELSE IF x > most THEN most ELSE x
OrZero(x) == IF x = None THEN 0 ELSE x

-----------------------------------------------------------------------------
(* The signal of a line: how far, and how clearly, the sources favour it.  *)

DoubleChanceSignal(p, others) ==
  75 * Clamp(p - 50, 0, 40) + 50 * Clamp(p - Max(others), 0, 20)

Ou25Signal(p, q) ==
  LET least == Lower(p, q)
      gap   == p + q - 2 * least
  IN  128 * Clamp(least - 50, 0, 25) + 800 - 40 * Clamp(gap, 0, 20)

(* What a validation metric is worth.  A metric is [n, hit, wilson,        *)
(* stability, country, competition]; without one the evidence is nil.      *)
NoMetric == [n |-> 0, hit |-> None, wilson |-> None, stability |-> None,
             country |-> None, competition |-> None]

SampleScore(n) == IF n < 10 THEN 0 ELSE IF n < 30 THEN 400 ELSE 800

SampleCeiling(n) ==
  IF n = 0 THEN 0 ELSE IF n < 10 THEN 2000 ELSE IF n < 30 THEN 2800 ELSE 4000

StabilityScore(s) ==
  CASE s = "STABLE_OR_IMPROVED" -> 800 [] s = "MODERATE_DROP" -> 400 [] OTHER -> 0

StabilityCeiling(s) ==
  CASE s = "SEVERE_DROP" -> 1800 [] s = "MODERATE_DROP" -> 3000 [] OTHER -> 4000

HistoricalEvidence(m) ==
  LET raw == 12 * OrZero(m.hit) + 12 * OrZero(m.wilson)
               + SampleScore(m.n) + StabilityScore(m.stability)
  IN  Lower(Lower(raw, SampleCeiling(m.n)), StabilityCeiling(m.stability))

DataQuality(stage, complete, ready, sound) ==
  (CASE stage = "EXACT" -> 800 [] stage = "CONSERVATIVE" -> 600 [] OTHER -> 300)
    + (IF complete THEN 600 ELSE 0) + (IF ready THEN 400 ELSE 0) + (IF sound THEN 200 ELSE 0)

(* The caps of the priority; the first of these that applies is the least. *)
Weak(quality, m) == quality < 1400 \/ m.n < 10 \/ m.stability = "SEVERE_DROP"

Concentrated(m) == OrZero(m.country) > 50 \/ OrZero(m.competition) > 40

NoLift(family, lift) == family = "OU25" /\ lift # None /\ OrZero(lift) <= 0

PriorityCeiling(quality, m, family, lift) ==
  IF Weak(quality, m) THEN 6400
  ELSE IF m.stability = "MODERATE_DROP" THEN 7400
  ELSE IF Concentrated(m) \/ NoLift(family, lift) THEN 8400
  ELSE 10000

PriorityScore(signal, evidence, quality, m, family, lift) ==
  Lower(signal + evidence + quality, PriorityCeiling(quality, m, family, lift))

PriorityClass(score) ==
  IF score >= 8500 THEN "HIGH" ELSE IF score >= 7500 THEN "INTERESTING"
  ELSE IF score >= 6500 THEN "TRACK" ELSE "DO_NOT_PRIORITIZE"

-----------------------------------------------------------------------------
(* Candidates.  A fixture is [lines, over, side, forebet, goals, average,  *)
(* stage, sound, dcReady, ouReady]: what the sources say of it, how it was *)
(* matched, and what of that can be relied on.  The metrics of a           *)
(* historical evaluation are a function on pairs of a pattern and a side.  *)

MetricOf(metrics, key) == IF key \in DOMAIN metrics THEN metrics[key] ELSE NoMetric

(* One candidate, with what selection looks at.                            *)
Candidate(f, metrics, family, market, key, signal, complete, ready, warned, lift) ==
  LET m        == MetricOf(metrics, key)
      quality  == DataQuality(f.stage, complete, ready, f.sound)
      evidence == HistoricalEvidence(m)
  IN  [family  |-> family, market |-> market, signal |-> signal,
       evidence |-> evidence, quality |-> quality, metric |-> m,
       score   |-> PriorityScore(signal, evidence, quality, m, family, lift),
       blocked |-> ~complete \/ ~ready \/ ~f.sound \/ key \notin DOMAIN metrics,
       warned  |-> warned \/ Concentrated(m)]

DoubleChanceCandidate(f, metrics, line) ==
  LET complete == \A l \in Lines : f.lines[l] # None
      signal   == IF complete
                  THEN DoubleChanceSignal(f.lines[line], {f.lines[l] : l \in Lines \ {line}})
                  ELSE 0
  IN  Candidate(f, metrics, "DOUBLE_CHANCE", <<line>>, <<"DOUBLE_CHANCE", line>>,
                signal, complete, f.dcReady, FALSE, None)

DoubleChanceCandidates(f, metrics) ==
  {DoubleChanceCandidate(f, metrics, line) : line \in Lines}

(* The side Statarea takes with its percentage of over 2.5, none at 50.    *)
StatareaSide(over) ==
  IF over = None \/ over = 50 THEN None ELSE IF over > 50 THEN "OVER_25" ELSE "UNDER_25"

StatareaPercent(over) == IF over > 50 THEN over ELSE 100 - over

Confluent(f) ==
  /\ f.goals # None /\ f.average # None
  /\ \/ f.side = "OVER_25"  /\ f.goals >= 3 /\ f.average >= 275
     \/ f.side = "UNDER_25" /\ f.goals <= 2 /\ f.average <= 225

(* How much better the consensus did than the better of its sources.       *)
ValidationLift(metrics, side) ==
  LET hit(pattern) == MetricOf(metrics, <<pattern, side>>).hit
      controls == {hit("FOREBET_OU25_CONTROL"), hit("STATAREA_OU25_CONTROL")}
  IN  IF hit("OU25_CONSENSUS_SIMPLE") = None \/ None \in controls THEN None
      ELSE hit("OU25_CONSENSUS_SIMPLE") - Max(controls)

(* At most one: only when both sources take the same side.                 *)
Ou25Candidates(f, metrics) ==
  IF f.forebet # None /\ f.side = StatareaSide(f.over)
  THEN {Candidate(f, metrics, "OU25", <<f.side>>, <<"OU25_CONSENSUS_SIMPLE", f.side>>,
                  Ou25Signal(f.forebet, StatareaPercent(f.over)), TRUE, f.ouReady,
                  Confluent(f), ValidationLift(metrics, f.side))}
  ELSE {}

-----------------------------------------------------------------------------
(* Selection: compareCandidates and selectStrictWinner.                    *)

Rank(c) == <<c.score, c.evidence, c.quality, c.signal,
             IF c.metric.wilson = None THEN -1 ELSE c.metric.wilson, c.metric.n>>

Beats(c, d) ==
  \E i \in 1..6 : Rank(c)[i] > Rank(d)[i] /\ \A j \in 1..(i - 1) : Rank(c)[j] = Rank(d)[j]

Eligible(candidates) == {c \in candidates : ~c.blocked}

(* The eligible candidate that beats every other one, if there is one.     *)
StrictWinners(candidates) ==
  {c \in Eligible(candidates) : \A d \in Eligible(candidates) \ {c} : Beats(c, d)}

(* The combination of the winner of the double chance with the other one.  *)
Combination(f, metrics, dc, ou) ==
  Candidate(f, metrics, "SAME_MATCH_COMBINATION", <<dc.market[1], ou.market[1]>>,
            <<"COMBO", dc.market[1], ou.market[1]>>, Lower(dc.signal, ou.signal),
            TRUE, f.dcReady /\ f.ouReady, Confluent(f), None)

CombinationCandidates(f, metrics) ==
  UNION {{Combination(f, metrics, dc, ou) : ou \in Eligible(Ou25Candidates(f, metrics))} :
           dc \in StrictWinners(DoubleChanceCandidates(f, metrics))}

AllCandidates(f, metrics) ==
  DoubleChanceCandidates(f, metrics) \union Ou25Candidates(f, metrics)
    \union CombinationCandidates(f, metrics)

(* One per family at most; these are also the ones a quote is asked for.   *)
Options(f, metrics) ==
  StrictWinners(DoubleChanceCandidates(f, metrics))
    \union Eligible(Ou25Candidates(f, metrics) \union CombinationCandidates(f, metrics))

(* The best of the options and by how much it is ahead of the next one.    *)
Margin(options, best) ==
  best.score - (IF options = {best} THEN 0 ELSE Max({c.score : c \in options \ {best}}))

StatusOf(options, best) ==
  IF best.score < 6500 THEN "NONE"
  ELSE IF best.score >= 7500 /\ Margin(options, best) >= 500 /\ ~best.warned
       THEN "PREFERRED" ELSE "PROVISIONAL"

(* The decision: a status and the selected line, none of it for a tie.     *)
Decision(f, metrics) ==
  LET options == Options(f, metrics)
      chosen  == {c \in StrictWinners(options) : StatusOf(options, c) # "NONE"}
  IN  IF chosen = {} THEN [status |-> "NONE", selected |-> None]
      ELSE LET best == CHOOSE c \in chosen : TRUE
           IN  [status |-> StatusOf(options, best), selected |-> best]
=============================================================================
