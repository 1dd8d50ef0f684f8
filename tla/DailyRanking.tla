----------------------------- MODULE DailyRanking -----------------------------
(***************************************************************************)
(* The decisions of a daily analysis, without its effects: which listed    *)
(* fixtures are eligible, which of them are analysed in depth, for which   *)
(* sport keys odds are asked, how a prediction is read as a 1X signal, and *)
(* which analyses are recommended in which order.                          *)
(*                                                                         *)
(* Probabilities are percentages and points are counted in parts of 28,    *)
(* which makes every threshold of the code a whole number.  Only the       *)
(* market 1X is evaluated, and no odds are ever quoted for it, so its edge *)
(* is null: VALUE_DETECTED and the priced branches cannot be reached.      *)
(***************************************************************************)
EXTENDS Integers, FiniteSets

CONSTANTS
  Fixtures,           \* numbers, in the order of the provider's list
  KindOf,             \* what the list says of each, besides its kickoff
  KeyOf,              \* the sport key of its competition, None if uncovered
  MaxFixtures,        \* --max-fixtures
  DeepCandidates,     \* --deep-candidates
  Top,                \* --top
  MaximumPrimary,     \* AUTOMATIC_DAILY_RANKING_POLICY.maximumPrimary
  MaximumRequests,    \* ODDS_ACQUISITION_POLICY.maximumRequestsPerRun
  Lead,               \* minimumLeadMinutes, in instants of the clock
  DayLength,          \* instants of a day
  None

Kinds == {"SENIOR", "FRIENDLY", "DEVELOPMENT", "LOW_COVERAGE", "INCOMPLETE"}
Keys  == {KeyOf[f] : f \in Fixtures} \ {None}

ASSUME RankingAssumption ==
  /\ Fixtures \subseteq Nat /\ IsFiniteSet(Fixtures)
  /\ KindOf \in [Fixtures -> Kinds]
  /\ KeyOf \in [Fixtures -> Nat \union {None}]
  /\ None \notin Nat
  /\ MaxFixtures \in Nat \ {0}
  /\ DeepCandidates \in 1..MaxFixtures
  /\ Top \in 1..DeepCandidates
  /\ MaximumPrimary \in Nat
  /\ MaximumRequests \in Nat
  /\ Lead \in Nat
  /\ DayLength \in Nat \ {0}

Day(instant) == instant \div DayLength

(* sort and slice: the members of a set that fewer than n others precede.  *)
Leading(n, S, precedes) ==
  {x \in S : Cardinality({y \in S : <<y, x>> \in precedes}) < n}

-----------------------------------------------------------------------------
(* Eligibility.  A list is a set of entries [fixture, kickoff, status].    *)

(* The first test that fails; INCOMPLETE stands for the four codes about   *)
(* identity, teams, competition and timezone.                              *)
FilterReason(e, date, now) ==
  IF e.status # "NS"                  THEN "STATUS_NOT_NS"
  ELSE IF Day(e.kickoff) # date       THEN "LOCAL_SPORTS_DATE_MISMATCH"
  ELSE IF e.kickoff < now + Lead      THEN "KICKOFF_TOO_CLOSE"
  ELSE IF KindOf[e.fixture] # "SENIOR" THEN KindOf[e.fixture]
  ELSE "ELIGIBLE"

Passing(list, date, now) ==
  {e.fixture : e \in {x \in list : FilterReason(x, date, now) = "ELIGIBLE"}}

(* The window: the first MaxFixtures of the list that pass the filter; the *)
(* rest of those that pass are DISCOVERY_BUDGET_EXCEEDED.                  *)
Admitted(list, date, now) ==
  {f \in Passing(list, date, now) :
     Cardinality({g \in Passing(list, date, now) : g < f}) < MaxFixtures}

-----------------------------------------------------------------------------
(* Deep analysis and odds.  supported is the set of sport keys whose last  *)
(* capability row is active in the catalog and SUPPORTED for h2h.          *)

HasValidatedOdds(f, supported) == KeyOf[f] \in supported

(* Quality is 1 for every eligible fixture: covered competitions first,    *)
(* then by kickoff, then by id.                                            *)
DeepOrder(kickoffs, supported) ==
  {pair \in Fixtures \X Fixtures :
     LET a == pair[1]
         b == pair[2]
     IN  IF HasValidatedOdds(a, supported) # HasValidatedOdds(b, supported)
         THEN HasValidatedOdds(a, supported)
         ELSE \/ kickoffs[a] < kickoffs[b]
              \/ kickoffs[a] = kickoffs[b] /\ a < b}

Deep(eligible, kickoffs, supported) ==
  Leading(DeepCandidates, eligible, DeepOrder(kickoffs, supported))

(* The requests: one for each supported key of the analysed fixtures, in   *)
(* the order of the keys, as many as the run may make.                     *)
RequestedKeys(deep, supported) ==
  {k \in supported :
     /\ \E f \in deep : KeyOf[f] = k
     /\ Cardinality({j \in supported : j < k /\ \E f \in deep : KeyOf[f] = j})
          < MaximumRequests}

-----------------------------------------------------------------------------
(* A prediction: percentages, the side of the team named as the winner     *)
(* (AWAY stands for any name but the home team's), and whether the advice  *)
(* names the double chance of the home team.                               *)
Predictions ==
  {p \in [home : 0..100, draw : 0..100, away : 0..100,
          winner : {"HOME", "AWAY", "NONE"}, advised : BOOLEAN] :
     p.home + p.draw + p.away = 100}

Smaller(a, b) == IF a < b THEN a ELSE b
Larger(a, b)  == IF a > b THEN a ELSE b
Clamp(low, high, x) == Larger(low, Smaller(high, x))

Probability(p)   == p.home + p.draw
Gap(p)           == Smaller(p.home, p.draw) - p.away
Contradictory(p) == p.winner = "AWAY"

(* assessIntelligentOneX: at least 75 %, at least 15 points between the    *)
(* weaker protected result and the defeat, and the winner is the home team.*)
Publishable(p) ==
  /\ Probability(p) >= 75
  /\ Gap(p) >= 15
  /\ p.winner = "HOME"

Context(p) == IF p.advised THEN 420 ELSE IF p.winner = "HOME" THEN 336 ELSE 147

(* evaluateMarkets gives no probability to a market that is certain.       *)
Evaluated(p) == Probability(p) > 0 /\ Probability(p) < 100

Penalty(p) ==
  (IF Gap(p) = 0 THEN 336 ELSE IF Gap(p) < 5 THEN 168 ELSE 0)
    + (IF Contradictory(p) THEN 336 ELSE 0)

(* scoreAutomaticReview of the market 1X: 25 points for the probability    *)
(* over two thirds, 15 of context and 10 of quality, less the penalties.   *)
Score(p) ==
  Clamp(0, 2800, Clamp(0, 700, 10 * (3 * Probability(p) - 200)) + Context(p) + 280 - Penalty(p))

ReviewCategory(p) ==
  IF Gap(p) = 0 \/ Contradictory(p) THEN "PASS"
  ELSE IF /\ Score(p) >= 1260
          /\ Probability(p) >= 75 /\ Gap(p) >= 5 /\ Context(p) >= 273
       THEN "MODEL_REVIEW"
  ELSE IF Score(p) >= 980 THEN "WATCH" ELSE "PASS"

Category(p) == IF Publishable(p) THEN ReviewCategory(p) ELSE "PASS"

Priority(category) ==
  CASE category = "MODEL_REVIEW" -> 1 [] category = "WATCH" -> 2 [] OTHER -> 3

(* The order of the ranking, of fixtures with a prediction and a kickoff.  *)
Ranking(predicted, kickoffs) ==
  {pair \in (DOMAIN predicted) \X (DOMAIN predicted) :
     LET a == pair[1]
         b == pair[2]
         pa == Priority(Category(predicted[a]))
         pb == Priority(Category(predicted[b]))
     IN  IF pa # pb THEN pa < pb
         ELSE IF Score(predicted[a]) # Score(predicted[b])
              THEN Score(predicted[a]) > Score(predicted[b])
         ELSE \/ kickoffs[a] < kickoffs[b]
              \/ kickoffs[a] = kickoffs[b] /\ a < b}

OfCategory(S, predicted, category) == {f \in S : Category(predicted[f]) = category}

(* selectAutomaticReview and the list of the run: at most MaximumPrimary   *)
(* signals, of which the first Top, then everything watched and discarded. *)
Recommended(predicted, kickoffs) ==
  LET scored  == {f \in DOMAIN predicted : Evaluated(predicted[f])}
      primary == Leading(MaximumPrimary, OfCategory(scored, predicted, "MODEL_REVIEW"),
                         Ranking(predicted, kickoffs))
  IN  Leading(Top, primary, Ranking(predicted, kickoffs))
        \union OfCategory(scored, predicted, "WATCH")
        \union OfCategory(scored, predicted, "PASS")
=============================================================================
