---------------------------- MODULE DailyRun_proofs ----------------------------
(***************************************************************************)
(* Proofs about DailyRun, for any fixtures, processes, answers, movements  *)
(* and failures: its five properties follow from one invariant, which says *)
(* what a run under way holds, what a recorded run rests on, how the rows  *)
(* are ordered and when a fixture is settled.                              *)
(*                                                                         *)
(* NoneIsNoId says that the null of derivedFrom is not the id of a run,    *)
(* which is a tuple.                                                       *)
(*                                                                         *)
(* The last part is about the matchers of its events, EventMatching, for   *)
(* every list of events and every registry of aliases.                     *)
(***************************************************************************)
EXTENDS DailyRun, TLAPS, FiniteSetTheorems

INSTANCE EventMatching

NoneIsNoId == \A x, y, z : None # <<x, y>> /\ None # <<x, y, z>>

-----------------------------------------------------------------------------
(* The invariant.                                                          *)

MemoryFields ==
  {"pc", "date", "list", "eligible", "left", "keys", "kickoffs", "evidence", "repeated",
   "predicted"}

AnalysisFields == {"fixture", "prediction", "recommended"}

RowFields ==
  {"id", "derivedFrom", "date", "completed", "order", "eligible", "analyses", "evidence"}

IsMemory(m) == DOMAIN m = MemoryFields

IsAnalysis(a) == DOMAIN a = AnalysisFields

IsRow(run) == DOMAIN run = RowFields

OddsEndpoints == {"odds-by-sport", "odds-provider-error"}

OnList(f, evidence) == \E e \in evidence : \E entry \in e.list : entry.fixture = f

(* What a run under way has in memory can be shown, and an answer about    *)
(* odds is of a key that is no longer to be asked.                         *)
Supported(m, kept) ==
  /\ m.evidence \subseteq kept
  /\ \A f \in m.left \union DOMAIN m.predicted : OnList(f, m.evidence)
  /\ \A f \in DOMAIN m.predicted : PredictionAnswer(f, m.predicted[f]) \in m.evidence

Asked(m) ==
  /\ m.keys \subseteq Keys
  /\ \A e \in m.evidence : e.endpoint \in OddsEndpoints => \E j \in Keys : j \notin m.keys
  /\ m.repeated => \E k, j \in Keys : k # j

Held(m, kept) == IsMemory(m) /\ Supported(m, kept) /\ Asked(m)

(* A run that waits for its list has nothing yet.                          *)
Fresh(m) == m.pc = "listing" => m.repeated = FALSE /\ m.predicted = NoFixture

(* A recorded run has one analysis of a fixture, and the answers it rests  *)
(* on, unless it was derived.                                              *)
Founded(run, kept) ==
  /\ IsRow(run) /\ run.id # None
  /\ \A a \in run.analyses : IsAnalysis(a)
  /\ \A a, b \in run.analyses : a.fixture = b.fixture => a = b
  /\ run.evidence \subseteq kept
  /\ run.derivedFrom = None =>
       \A a \in run.analyses :
         /\ PredictionAnswer(a.fixture, a.prediction) \in run.evidence
         /\ OnList(a.fixture, run.evidence)

(* A derived run leads back to one that has the answers it rests on.       *)
Traced == \A run \in runs : \E origin \in Lineage(runs, run) : RestsOn(run, origin)

Ordered ==
  /\ IsFiniteSet(runs)
  /\ \A run \in runs : run.order \in Nat /\ run.order < Cardinality(runs)
  /\ \A run, q \in runs : run.order = q.order => run = q

Timed ==
  /\ clock \in Nat
  /\ kickoff \in [Fixtures -> Nat]
  /\ supported \subseteq Keys
  /\ troubles \in Nat

(* A settled fixture has been played when its row says, so that it can be  *)
(* moved no more.                                                          *)
SettledInPlace ==
  /\ outcomes \subseteq Fixtures
  /\ \A f \in outcomes : stored[f] = kickoff[f] /\ kickoff[f] < clock

IInv ==
  /\ Timed
  /\ DOMAIN runner = Runners
  /\ \A r \in Runners : Held(runner[r], published) /\ Fresh(runner[r])
  /\ \A run \in runs : Founded(run, published)
  /\ Traced
  /\ Ordered
  /\ SettledInPlace

-----------------------------------------------------------------------------
(* Memories.                                                               *)

LEMMA OffFields ==
  /\ IsMemory(Off)
  /\ Off.left = {} /\ Off.keys = {} /\ Off.evidence = {}
  /\ Off.repeated = FALSE /\ Off.predicted = NoFixture
  BY DEF IsMemory, MemoryFields, Off

LEMMA EmptyHolds ==
  ASSUME NEW m, NEW kept, IsMemory(m), m.left = {}, m.keys = {}, m.evidence = {},
         m.repeated = FALSE, m.predicted = NoFixture
  PROVE  Held(m, kept)
  BY DEF Held, Supported, Asked, NoFixture

LEMMA MoreIsKept ==
  ASSUME NEW kept, NEW more, kept \subseteq more
  PROVE  /\ \A m : Held(m, kept) => Held(m, more)
         /\ \A run : Founded(run, kept) => Founded(run, more)
  BY DEF Held, Supported, Founded

(* The fixtures to be analysed are on the list.                            *)
LEMMA DeepIsListed ==
  ASSUME NEW list, NEW date, NEW now, NEW kickoffs, NEW keys,
         NEW f \in Deep(Admitted(list, date, now), kickoffs, keys)
  PROVE  \E entry \in list : entry.fixture = f
<1>1. f \in Admitted(list, date, now)
  BY DEF Deep, Leading
<1>2. f \in Passing(list, date, now)
  BY <1>1 DEF Admitted
<1>3. QED
  BY <1>2 DEF Passing

LEMMA AnswerFields ==
  ASSUME NEW f, NEW p, NEW k, NEW events, NEW date
  PROVE  /\ ListAnswer(date).endpoint = "fixtures-by-date"
         /\ PredictionAnswer(f, p).endpoint = "prediction-by-fixture"
         /\ OddsAnswer(k, events).endpoint = "odds-by-sport"
         /\ OddsError(k).endpoint = "odds-provider-error"
  BY DEF ListAnswer, PredictionAnswer, OddsAnswer, OddsError, Answer

LEMMA BeginHolds ==
  ASSUME NEW kept, NEW date
  PROVE  Held([Off EXCEPT !.pc = "listing", !.date = date], kept)
<1> DEFINE m == [Off EXCEPT !.pc = "listing", !.date = date]
<1>1. /\ IsMemory(m)
      /\ m.left = {} /\ m.keys = {} /\ m.evidence = {}
      /\ m.repeated = FALSE /\ m.predicted = NoFixture
  BY OffFields DEF IsMemory, MemoryFields
<1> HIDE DEF m
<1>2. QED
  BY <1>1, EmptyHolds DEF m

LEMMA ListedHolds ==
  ASSUME NEW m, IsMemory(m), m.repeated = FALSE, m.predicted = NoFixture,
         NEW date, NEW kept, Timed
  PROVE  Held(Listed(m, ListAnswer(date)), kept \union {ListAnswer(date)})
<1> DEFINE answer   == ListAnswer(date)
           kickoffs == [f \in {e.fixture : e \in answer.list} |->
                          (CHOOSE e \in answer.list : e.fixture = f).kickoff]
           eligible == Admitted(answer.list, m.date, clock)
           deep     == Deep(eligible, kickoffs, supported)
           keys     == IF HasOddsKey THEN RequestedKeys(deep, supported) ELSE {}
           n        == Listed(m, answer)
<1> HIDE DEF answer
<1>1. /\ IsMemory(n)
      /\ n.left = deep /\ n.keys = keys /\ n.evidence = {answer}
      /\ n.repeated = FALSE /\ n.predicted = NoFixture
  <2> HIDE DEF kickoffs, eligible, deep, keys
  <2>1. n = [m EXCEPT !.pc = "predicting", !.list = answer.list, !.kickoffs = kickoffs,
                      !.eligible = eligible, !.left = deep, !.keys = keys,
                      !.evidence = {answer}]
    BY DEF Listed, kickoffs, eligible, deep, keys
  <2> HIDE DEF n
  <2>2. QED
    BY <2>1 DEF IsMemory, MemoryFields
<1>2. keys \subseteq Keys
  BY DEF RequestedKeys, Timed
<1>3. \A f \in deep : OnList(f, {answer})
  BY DeepIsListed DEF OnList
<1>4. answer.endpoint \notin OddsEndpoints
  BY AnswerFields DEF answer, OddsEndpoints
<1> HIDE DEF kickoffs, eligible, deep, keys, n
<1>5. Supported(n, kept \union {answer})
  BY <1>1, <1>3 DEF Supported, NoFixture
<1>6. Asked(n)
  BY <1>1, <1>2, <1>4 DEF Asked
<1>7. QED
  BY <1>1, <1>5, <1>6 DEF Held, n, answer

(* What a prediction adds to a memory: its answer, and no fixture that is  *)
(* not on the list.                                                        *)
LEMMA WithoutHolds ==
  ASSUME NEW m, NEW kept, Held(m, kept), NEW f
  PROVE  Held(WithoutPrediction(m, f), kept)
<1> DEFINE n == WithoutPrediction(m, f)
<1>1. n = [m EXCEPT !.left = @ \ {f}]
  BY DEF WithoutPrediction
<1>2. IsMemory(n)
  BY <1>1 DEF Held, IsMemory, MemoryFields
<1>3. /\ n.left = m.left \ {f} /\ n.evidence = m.evidence /\ n.keys = m.keys
      /\ n.predicted = m.predicted /\ n.repeated = m.repeated
  BY <1>1 DEF Held, IsMemory, MemoryFields
<1> HIDE DEF n
<1>4. Supported(n, kept) /\ Asked(n)
  BY <1>3 DEF Held, Supported, Asked
<1>5. QED
  BY <1>2, <1>4 DEF Held, n

LEMMA AnsweredHolds ==
  ASSUME NEW m, NEW kept, Held(m, kept), NEW f
  PROVE  Held(WithEmptyPrediction(m, f), kept \union {PredictionAnswer(f, None)})
<1> DEFINE answer == PredictionAnswer(f, None)
           n      == WithEmptyPrediction(m, f)
<1>1. n = [m EXCEPT !.left = @ \ {f}, !.evidence = @ \union {answer}]
  BY DEF WithEmptyPrediction
<1>2. answer.endpoint \notin OddsEndpoints
  BY AnswerFields DEF OddsEndpoints
<1> HIDE DEF answer, n
<1>3. IsMemory(n)
  BY <1>1 DEF Held, IsMemory, MemoryFields
<1>4. /\ n.left = m.left \ {f} /\ n.evidence = m.evidence \union {answer} /\ n.keys = m.keys
      /\ n.predicted = m.predicted /\ n.repeated = m.repeated
  BY <1>1 DEF Held, IsMemory, MemoryFields
<1>5. Supported(n, kept \union {answer})
  BY <1>4 DEF Held, Supported, OnList
<1>6. Asked(n)
  BY <1>2, <1>4 DEF Held, Asked
<1>7. QED
  BY <1>3, <1>5, <1>6 DEF Held, n, answer

LEMMA PredictedHolds ==
  ASSUME NEW m, NEW kept, Held(m, kept), NEW f \in m.left, NEW p
  PROVE  Held(WithPrediction(m, f, p), kept \union {PredictionAnswer(f, p)})
<1> DEFINE n      == WithPrediction(m, f, p)
           answer == PredictionAnswer(f, p)
           all    == [g \in DOMAIN m.predicted \union {f} |->
                        IF g = f THEN p ELSE m.predicted[g]]
<1>1. n = [m EXCEPT !.left = @ \ {f}, !.evidence = @ \union {answer}, !.predicted = all]
  BY DEF WithPrediction, Held, IsMemory
<1> HIDE DEF all, answer
<1>2. IsMemory(n)
  BY <1>1 DEF Held, IsMemory, MemoryFields
<1>3. /\ n.left = m.left \ {f} /\ n.evidence = m.evidence \union {answer} /\ n.keys = m.keys
      /\ n.predicted = all /\ n.repeated = m.repeated
  BY <1>1 DEF Held, IsMemory, MemoryFields
<1> HIDE DEF n
<1>4. n.evidence \subseteq kept \union {answer}
  BY <1>3 DEF Held, Supported
<1>5. \A g \in n.left \union DOMAIN n.predicted : OnList(g, n.evidence)
  <2>1. \A g \in n.left \union DOMAIN n.predicted : g \in m.left \union DOMAIN m.predicted
    BY <1>3 DEF all
  <2>2. QED
    BY <1>3, <2>1 DEF Held, Supported, OnList
<1>6. \A g \in DOMAIN n.predicted : PredictionAnswer(g, n.predicted[g]) \in n.evidence
  <2> SUFFICES ASSUME NEW g \in DOMAIN n.predicted
               PROVE  PredictionAnswer(g, n.predicted[g]) \in n.evidence
    OBVIOUS
  <2>1. CASE g = f
    <3>1. n.predicted[g] = p
      BY <1>3, <2>1 DEF all
    <3>2. QED
      BY <1>3, <2>1, <3>1 DEF answer
  <2>2. CASE g # f
    <3>1. g \in DOMAIN m.predicted /\ n.predicted[g] = m.predicted[g]
      BY <1>3, <2>2 DEF all
    <3>2. QED
      BY <1>3, <3>1 DEF Held, Supported
  <2>3. QED
    BY <2>1, <2>2
<1>7. answer.endpoint \notin OddsEndpoints
  BY AnswerFields DEF answer, OddsEndpoints
<1>8. Asked(n)
  BY <1>3, <1>7 DEF Held, Asked
<1>9. QED
  BY <1>2, <1>4, <1>5, <1>6, <1>8 DEF Held, Supported, n, answer

(* An answer about odds that is there already is one of another key.       *)
LEMMA PricedHolds ==
  ASSUME NEW m, NEW kept, Held(m, kept), NEW k \in m.keys, NEW answer,
         answer.endpoint \in OddsEndpoints
  PROVE  Held(WithOdds(m, k, answer), kept \union {answer})
<1> DEFINE n == WithOdds(m, k, answer)
<1>1. IsMemory(n)
  BY DEF WithOdds, Held, IsMemory
<1>2. /\ n.left = m.left /\ n.evidence = m.evidence \union {answer} /\ n.keys = m.keys \ {k}
      /\ n.predicted = m.predicted /\ n.repeated = (m.repeated \/ answer \in m.evidence)
  BY DEF WithOdds, Held, IsMemory
<1> HIDE DEF n
<1>3. Supported(n, kept \union {answer})
  BY <1>2 DEF Held, Supported, OnList
<1>4. k \in Keys /\ k \notin n.keys /\ n.keys \subseteq m.keys
  BY <1>2 DEF Held, Asked
<1>5. n.repeated => \E i, j \in Keys : i # j
  BY <1>2, <1>4 DEF Held, Asked
<1>6. Asked(n)
  BY <1>2, <1>4, <1>5 DEF Held, Asked
<1>7. QED
  BY <1>1, <1>3, <1>6 DEF Held, n

LEMMA SkippedHolds ==
  ASSUME NEW m, NEW kept, Held(m, kept), NEW k
  PROVE  Held(WithoutOdds(m, k), kept)
<1> DEFINE n == WithoutOdds(m, k)
<1>1. n = [m EXCEPT !.keys = @ \ {k}]
  BY DEF WithoutOdds
<1> HIDE DEF n
<1>2. IsMemory(n)
  BY <1>1 DEF Held, IsMemory, MemoryFields
<1>3. /\ n.left = m.left /\ n.evidence = m.evidence /\ n.keys = m.keys \ {k}
      /\ n.predicted = m.predicted /\ n.repeated = m.repeated
  BY <1>1 DEF Held, IsMemory, MemoryFields
<1>4. Supported(n, kept) /\ Asked(n)
  BY <1>3 DEF Held, Supported, Asked
<1>5. QED
  BY <1>2, <1>4 DEF Held, n

(* The new memories wait for no list, unless the old one did.              *)
LEMMA SamePhase ==
  ASSUME NEW m, IsMemory(m), NEW f, NEW p, NEW k, NEW answer
  PROVE  /\ WithoutPrediction(m, f).pc = m.pc
         /\ WithEmptyPrediction(m, f).pc = m.pc
         /\ WithPrediction(m, f, p).pc = m.pc
         /\ WithOdds(m, k, answer).pc = m.pc
         /\ WithoutOdds(m, k).pc = m.pc
         /\ Listed(m, answer).pc = "predicting"
<1>1. WithoutPrediction(m, f).pc = m.pc
  BY DEF WithoutPrediction, IsMemory, MemoryFields
<1>2. WithEmptyPrediction(m, f).pc = m.pc
  BY DEF WithEmptyPrediction, IsMemory, MemoryFields
<1>3. WithPrediction(m, f, p).pc = m.pc
  BY DEF WithPrediction, IsMemory, MemoryFields
<1>4. WithOdds(m, k, answer).pc = m.pc
  BY DEF WithOdds, IsMemory, MemoryFields
<1>5. WithoutOdds(m, k).pc = m.pc
  BY DEF WithoutOdds, IsMemory, MemoryFields
<1>6. Listed(m, answer).pc = "predicting"
  BY DEF Listed, IsMemory, MemoryFields
<1>7. QED
  BY <1>1, <1>2, <1>3, <1>4, <1>5, <1>6

LEMMA LookHolds ==
  ASSUME NEW m, NEW kept, Held(m, kept)
  PROVE  LET n == [m EXCEPT !.pc = "recording"]
         IN  Held(n, kept) /\ Fresh(n)
<1> DEFINE n == [m EXCEPT !.pc = "recording"]
<1>1. IsMemory(n) /\ n.pc = "recording"
  BY DEF Held, IsMemory, MemoryFields
<1>2. /\ n.left = m.left /\ n.evidence = m.evidence /\ n.keys = m.keys
      /\ n.predicted = m.predicted /\ n.repeated = m.repeated
  BY DEF Held, IsMemory, MemoryFields
<1> HIDE DEF n
<1>3. Supported(n, kept) /\ Asked(n)
  BY <1>2 DEF Held, Supported, Asked
<1>4. QED
  BY <1>1, <1>3 DEF Held, Fresh, n

-----------------------------------------------------------------------------
(* Rows.                                                                   *)

LEMMA RowIsFounded ==
  ASSUME NoneIsNoId, NEW m, NEW kept, Held(m, kept)
  PROVE  Founded(Row(m), kept)
<1> DEFINE recommended == Recommended(m.predicted, m.kickoffs)
           run         == Row(m)
<1> HIDE DEF recommended
<1>1. /\ IsRow(run) /\ run.id = RunId(m) /\ run.evidence = m.evidence
      /\ run.analyses = {Analysed(f, m, recommended) : f \in DOMAIN m.predicted}
  BY DEF Row, IsRow, RowFields, recommended
<1>2. \A f : /\ IsAnalysis(Analysed(f, m, recommended))
             /\ Analysed(f, m, recommended).fixture = f
             /\ Analysed(f, m, recommended).prediction = m.predicted[f]
  BY DEF Analysed, IsAnalysis, AnalysisFields
<1> HIDE DEF run
<1>3. run.id # None
  BY <1>1 DEF RunId, NoneIsNoId
<1>4. \A a \in run.analyses : IsAnalysis(a)
  BY <1>1, <1>2
<1>5. \A a, b \in run.analyses : a.fixture = b.fixture => a = b
  BY <1>1, <1>2
<1>6. \A a \in run.analyses : /\ PredictionAnswer(a.fixture, a.prediction) \in run.evidence
                              /\ OnList(a.fixture, run.evidence)
  BY <1>1, <1>2 DEF Held, Supported
<1>7. run.evidence \subseteq kept
  BY <1>1 DEF Held, Supported
<1>8. QED
  BY <1>1, <1>3, <1>4, <1>5, <1>6, <1>7 DEF Founded, run

LEMMA DerivedFields ==
  ASSUME NEW run, IsRow(run), NEW how, NEW artifact,
         NEW d, d = DerivedRow(run, how, artifact)
  PROVE  /\ IsRow(d)
         /\ d.id = DerivedId(run, how, artifact) /\ d.derivedFrom = run.id
         /\ d.order = Cardinality(runs) /\ d.analyses = ReviewedAgain(run, how)
         /\ d.evidence = IF how = "ALIAS_REPLAY" THEN {artifact} ELSE run.evidence
  BY DEF DerivedRow, IsRow, RowFields

LEMMA DerivedIsFounded ==
  ASSUME NoneIsNoId, NEW run, NEW kept, Founded(run, kept), NEW how,
         NEW artifact \in Source(run, how)
  PROVE  Founded(DerivedRow(run, how, artifact), kept)
<1> DEFINE d    == DerivedRow(run, how, artifact)
           S(a) == [a EXCEPT !.recommended = TRUE]
<1>1. /\ IsRow(d)
      /\ d.id = DerivedId(run, how, artifact) /\ d.derivedFrom = run.id
      /\ d.analyses = ReviewedAgain(run, how)
      /\ d.evidence = IF how = "ALIAS_REPLAY" THEN {artifact} ELSE run.evidence
  BY DerivedFields DEF Founded
<1> HIDE DEF d
<1>2. d.id # None /\ d.derivedFrom # None
  BY <1>1 DEF DerivedId, NoneIsNoId, Founded
<1>3. d.evidence \subseteq kept
  BY <1>1 DEF Source, Founded
<1>4. \A a \in run.analyses : IsAnalysis(S(a)) /\ S(a).fixture = a.fixture
  BY DEF Founded, IsAnalysis, AnalysisFields
<1> HIDE DEF S
<1>5. CASE how = "OFFLINE_SCORING"
  BY <1>1, <1>2, <1>3, <1>5 DEF ReviewedAgain, Founded, d
<1>6. CASE how # "OFFLINE_SCORING"
  <2>1. d.analyses = {S(a) : a \in run.analyses}
    BY <1>1, <1>6 DEF ReviewedAgain, S
  <2>2. \A a \in d.analyses : IsAnalysis(a)
    BY <2>1, <1>4
  <2>3. \A a, b \in d.analyses : a.fixture = b.fixture => a = b
    BY <2>1, <1>4 DEF Founded
  <2>4. QED
    BY <1>1, <1>2, <1>3, <2>2, <2>3 DEF Founded, d
<1>7. QED
  BY <1>5, <1>6

(* A review analyses the same fixtures with the same predictions.          *)
LEMMA DerivedRestsOnSame ==
  ASSUME NEW run, NEW kept, Founded(run, kept), NEW how, NEW artifact, NEW origin,
         RestsOn(run, origin)
  PROVE  RestsOn(DerivedRow(run, how, artifact), origin)
<1> DEFINE S(a) == [a EXCEPT !.recommended = TRUE]
<1>1. DerivedRow(run, how, artifact).analyses = ReviewedAgain(run, how)
  BY DEF DerivedRow, Founded, IsRow, RowFields
<1>2. \A a \in run.analyses : S(a).fixture = a.fixture /\ S(a).prediction = a.prediction
  BY DEF Founded, IsAnalysis, AnalysisFields
<1>3. ReviewedAgain(run, how) = run.analyses
        \/ ReviewedAgain(run, how) = {S(a) : a \in run.analyses}
  BY DEF ReviewedAgain
<1> HIDE DEF S
<1>4. \A b \in DerivedRow(run, how, artifact).analyses :
        \E a \in run.analyses : b.fixture = a.fixture /\ b.prediction = a.prediction
  BY <1>1, <1>2, <1>3
<1>5. QED
  BY <1>4 DEF RestsOn

-----------------------------------------------------------------------------
(* Lineages.                                                               *)

LEMMA RunIsOfItsLineage ==
  ASSUME NEW rows, NEW run \in rows
  PROVE  run \in Lineage(rows, run)
  BY DEF Lineage

(* More rows take nothing from a lineage.                                  *)
LEMMA LineageStays ==
  ASSUME NEW rows, NEW more, rows \subseteq more, NEW run \in rows
  PROVE  Lineage(rows, run) \subseteq Lineage(more, run)
<1> SUFFICES ASSUME NEW q \in Lineage(rows, run), NEW S \in SUBSET more, run \in S,
                    \A d \in S, source \in more : d.derivedFrom = source.id => source \in S
             PROVE  q \in S
  BY DEF Lineage
<1>1. /\ S \intersect rows \in SUBSET rows /\ run \in S \intersect rows
      /\ \A d \in S \intersect rows, source \in rows :
           d.derivedFrom = source.id => source \in S \intersect rows
  OBVIOUS
<1>2. q \in S \intersect rows
  BY <1>1 DEF Lineage
<1>3. QED
  BY <1>2

(* A derived run has the lineage of the run it was derived from.           *)
LEMMA LineageIsInherited ==
  ASSUME NEW rows, NEW run \in rows, NEW new, new.derivedFrom = run.id
  PROVE  Lineage(rows, run) \subseteq Lineage(rows \union {new}, new)
<1> DEFINE more == rows \union {new}
<1>1. Lineage(rows, run) \subseteq Lineage(more, run)
  BY LineageStays
<1>2. ASSUME NEW S \in SUBSET more, new \in S,
             \A d \in S, source \in more : d.derivedFrom = source.id => source \in S
      PROVE  run \in S
  BY <1>2
<1>3. Lineage(more, run) \subseteq Lineage(more, new)
  BY <1>2 DEF Lineage
<1>4. QED
  BY <1>1, <1>3

(* With a new row that is founded itself the others stay traced.           *)
LEMMA TracedStays ==
  ASSUME Traced, NEW new, runs' = runs \union {new},
         NEW origin \in Lineage(runs \union {new}, new), RestsOn(new, origin)
  PROVE  Traced'
<1>1. \A run \in runs : \E q \in Lineage(runs \union {new}, run) : RestsOn(run, q)
  BY LineageStays DEF Traced
<1>2. \A run \in runs \union {new} :
        \E q \in Lineage(runs \union {new}, run) : RestsOn(run, q)
  BY <1>1
<1>3. QED
  BY <1>2 DEF Traced

-----------------------------------------------------------------------------
(* A row that is new is the last in the order of the rows.                 *)
LEMMA NewRowIsLast ==
  ASSUME Ordered, NEW new, new.order = Cardinality(runs), runs' = runs \union {new}
  PROVE  Ordered'
<1>1. Cardinality(runs) \in Nat
  BY FS_CardinalityType DEF Ordered
<1>2. new \notin runs
  BY <1>1 DEF Ordered
<1>3. IsFiniteSet(runs') /\ Cardinality(runs') = Cardinality(runs) + 1
  BY <1>2, FS_AddElement DEF Ordered
<1>4. \A run \in runs' : run.order \in Nat /\ run.order < Cardinality(runs')
  BY <1>1, <1>3 DEF Ordered
<1>5. \A run, q \in runs' : run.order = q.order => run = q
  BY <1>1 DEF Ordered
<1>6. QED
  BY <1>3, <1>4, <1>5 DEF Ordered

-----------------------------------------------------------------------------
(* Steps.                                                                  *)

(* Most steps change the memory of one process, and may publish.           *)
Remembers(r) ==
  /\ published \subseteq published'
  /\ \E m : /\ Held(m, published') /\ Fresh(m)
           /\ runner' = [runner EXCEPT ![r] = m]
  /\ troubles' \in Nat
  /\ UNCHANGED <<world, database>>

LEMMA Recall ==
  ASSUME NEW r, NEW m, Held(m, published'), Fresh(m), runner' = [runner EXCEPT ![r] = m],
         published \subseteq published', troubles' \in Nat, UNCHANGED <<world, database>>
  PROVE  Remembers(r)
  BY DEF Remembers

LEMMA TroublesAreCounted ==
  ASSUME IInv, Trouble \/ Smooth
  PROVE  troubles' \in Nat
  BY DEF IInv, Timed, Trouble, Smooth

LEMMA OffIsHeld ==
  \A kept : Held(Off, kept) /\ Fresh(Off)
<1>1. Fresh(Off)
  BY OffFields DEF Fresh, Off
<1>2. QED
  BY <1>1, OffFields, EmptyHolds

(* A process that ends.                                                    *)
LEMMA GoneRemembers ==
  ASSUME IInv, NEW r, Gone(r), published \subseteq published', Trouble \/ Smooth,
         UNCHANGED <<world, database>>
  PROVE  Remembers(r)
<1>1. Held(Off, published') /\ Fresh(Off)
  BY OffIsHeld
<1>2. runner' = [runner EXCEPT ![r] = Off]
  BY DEF Gone
<1>3. QED
  BY <1>1, <1>2, Recall, TroublesAreCounted

LEMMA BeginRemembers ==
  ASSUME IInv, NEW r \in Runners, NEW date, Begin(r, date)
  PROVE  Remembers(r)
<1> DEFINE m == [Off EXCEPT !.pc = "listing", !.date = date]
<1>1. Held(m, published')
  BY BeginHolds
<1>2. Fresh(m)
  BY OffFields DEF Fresh, IsMemory, MemoryFields
<1> HIDE DEF m
<1>3. runner' = [runner EXCEPT ![r] = m]
  BY DEF Begin, m
<1>4. published' = published /\ troubles' = troubles /\ UNCHANGED <<world, database>>
  BY DEF Begin
<1>5. QED
  BY <1>1, <1>2, <1>3, <1>4, Recall DEF IInv, Timed

LEMMA ListRemembers ==
  ASSUME IInv, NEW r \in Runners, List(r)
  PROVE  Remembers(r)
<1> DEFINE answer == ListAnswer(runner[r].date)
           m      == Listed(runner[r], answer)
<1>1. Held(runner[r], published) /\ Fresh(runner[r]) /\ runner[r].pc = "listing"
  BY DEF IInv, List
<1>2. UNCHANGED <<world, database>>
  BY DEF List
<1>3. CASE Trouble /\ Gone(r) /\ published' = published
  BY <1>2, <1>3, GoneRemembers
<1>4. CASE Smooth /\ Publish(answer) /\ runner' = [runner EXCEPT ![r] = m]
  <2>1. Held(m, published \union {answer})
    BY <1>1, ListedHolds DEF Held, Fresh, IInv
  <2>2. Fresh(m)
    BY <1>1, SamePhase DEF Held, Fresh
  <2> HIDE DEF m, answer
  <2>3. published' = published \union {answer}
    BY <1>4 DEF Publish
  <2>4. QED
    BY <1>2, <1>4, <2>1, <2>2, <2>3, Recall, TroublesAreCounted
<1>5. (Trouble /\ Gone(r) /\ published' = published)
        \/ (Smooth /\ Publish(answer) /\ runner' = [runner EXCEPT ![r] = m])
  BY DEF List
<1>6. QED
  BY <1>3, <1>4, <1>5

LEMMA PredictRemembers ==
  ASSUME IInv, NEW r \in Runners, NEW f, Predict(r, f)
  PROVE  Remembers(r)
<1> DEFINE m    == runner[r]
           none == PredictionAnswer(f, None)
<1>1. Held(m, published) /\ m.pc = "predicting" /\ f \in m.left
  BY DEF IInv, Predict
<1>2. UNCHANGED <<world, database>>
  BY DEF Predict
<1>3. CASE /\ Trouble /\ published' = published
           /\ runner' = [runner EXCEPT ![r] = WithoutPrediction(m, f)]
  <2>1. Held(WithoutPrediction(m, f), published)
    BY <1>1, WithoutHolds
  <2>2. Fresh(WithoutPrediction(m, f))
    BY <1>1, SamePhase DEF Held, Fresh
  <2>3. QED
    BY <1>2, <1>3, <2>1, <2>2, Recall, TroublesAreCounted
<1>4. CASE /\ Trouble /\ Publish(none)
           /\ runner' = [runner EXCEPT ![r] = WithEmptyPrediction(m, f)]
  <2>1. Held(WithEmptyPrediction(m, f), published \union {none})
    BY <1>1, AnsweredHolds
  <2>2. Fresh(WithEmptyPrediction(m, f))
    BY <1>1, SamePhase DEF Held, Fresh
  <2> HIDE DEF none
  <2>3. published' = published \union {none}
    BY <1>4 DEF Publish
  <2>4. QED
    BY <1>2, <1>4, <2>1, <2>2, <2>3, Recall, TroublesAreCounted
<1>5. CASE Trouble /\ Publish(none) /\ Gone(r)
  <2>1. published \subseteq published'
    BY <1>5 DEF Publish
  <2>2. QED
    BY <1>2, <1>5, <2>1, GoneRemembers
<1>6. ASSUME NEW p \in Forecasts[f], Smooth, Publish(PredictionAnswer(f, p)),
             runner' = [runner EXCEPT ![r] = WithPrediction(m, f, p)]
      PROVE  Remembers(r)
  <2>1. Held(WithPrediction(m, f, p), published \union {PredictionAnswer(f, p)})
    BY <1>1, PredictedHolds
  <2>2. Fresh(WithPrediction(m, f, p))
    BY <1>1, SamePhase DEF Held, Fresh
  <2>3. published' = published \union {PredictionAnswer(f, p)}
    BY <1>6 DEF Publish
  <2>4. QED
    BY <1>2, <1>6, <2>1, <2>2, <2>3, Recall, TroublesAreCounted
<1>7. QED
  BY <1>3, <1>4, <1>5, <1>6 DEF Predict

LEMMA AskOddsRemembers ==
  ASSUME IInv, NEW r \in Runners, NEW k, AskOdds(r, k)
  PROVE  Remembers(r)
<1> DEFINE m == runner[r]
<1>1. Held(m, published) /\ m.pc = "predicting" /\ k \in m.keys
  BY DEF IInv, AskOdds
<1>2. UNCHANGED <<world, database>>
  BY DEF AskOdds
<1>3. ASSUME NEW answer, answer.endpoint \in OddsEndpoints, Trouble \/ Smooth, Publish(answer),
             runner' = [runner EXCEPT ![r] = WithOdds(m, k, answer)]
      PROVE  Remembers(r)
  <2>1. Held(WithOdds(m, k, answer), published \union {answer})
    BY <1>1, <1>3, PricedHolds
  <2>2. Fresh(WithOdds(m, k, answer))
    BY <1>1, SamePhase DEF Held, Fresh
  <2>3. published' = published \union {answer}
    BY <1>3 DEF Publish
  <2>4. QED
    BY <1>2, <1>3, <2>1, <2>2, <2>3, Recall, TroublesAreCounted
<1>4. ASSUME NEW events \in BOOLEAN, Smooth, Publish(OddsAnswer(k, events)),
             runner' = [runner EXCEPT ![r] = WithOdds(m, k, OddsAnswer(k, events))]
      PROVE  Remembers(r)
  <2>1. OddsAnswer(k, events).endpoint \in OddsEndpoints
    BY AnswerFields DEF OddsEndpoints
  <2>2. QED
    BY <1>3, <1>4, <2>1
<1>5. CASE /\ Trouble /\ Publish(OddsError(k))
           /\ runner' = [runner EXCEPT ![r] = WithOdds(m, k, OddsError(k))]
  <2>1. OddsError(k).endpoint \in OddsEndpoints
    BY AnswerFields DEF OddsEndpoints
  <2>2. QED
    BY <1>3, <1>5, <2>1
<1>6. CASE /\ Trouble /\ published' = published
           /\ runner' = [runner EXCEPT ![r] = WithoutOdds(m, k)]
  <2>1. Held(WithoutOdds(m, k), published)
    BY <1>1, SkippedHolds
  <2>2. Fresh(WithoutOdds(m, k))
    BY <1>1, SamePhase DEF Held, Fresh
  <2>3. QED
    BY <1>2, <1>6, <2>1, <2>2, Recall, TroublesAreCounted
<1>7. CASE Trouble /\ published' = published /\ Gone(r)
  BY <1>2, <1>7, GoneRemembers
<1>8. QED
  BY <1>4, <1>5, <1>6, <1>7 DEF AskOdds

LEMMA LookRemembers ==
  ASSUME IInv, NEW r \in Runners, Look(r)
  PROVE  Remembers(r)
<1> DEFINE n == [runner[r] EXCEPT !.pc = "recording"]
<1>1. /\ published' = published /\ troubles' = troubles /\ UNCHANGED <<world, database>>
      /\ Gone(r) \/ runner' = [runner EXCEPT ![r] = n]
  BY DEF Look
<1>2. Held(n, published) /\ Fresh(n)
  BY LookHolds DEF IInv
<1> HIDE DEF n
<1>3. CASE Gone(r)
  BY <1>1, <1>3, GoneRemembers DEF Smooth
<1>4. CASE runner' = [runner EXCEPT ![r] = n]
  BY <1>1, <1>2, <1>4, Recall DEF IInv, Timed
<1>5. QED
  BY <1>1, <1>3, <1>4

LEMMA CrashRemembers ==
  ASSUME IInv, NEW r \in Runners, Crash(r)
  PROVE  Remembers(r)
<1>1. Trouble /\ Gone(r) /\ published' = published /\ UNCHANGED <<world, database>>
  BY DEF Crash
<1>2. QED
  BY <1>1, GoneRemembers

-----------------------------------------------------------------------------
(* The invariant is kept.                                                  *)

LEMMA MemoriesAreKept ==
  ASSUME IInv, NEW r, NEW m, Held(m, published'), Fresh(m),
         runner' = [runner EXCEPT ![r] = m], published \subseteq published'
  PROVE  /\ DOMAIN runner' = Runners
         /\ \A q \in Runners : Held(runner'[q], published') /\ Fresh(runner'[q])
<1>1. DOMAIN runner' = Runners
  BY DEF IInv
<1>2. ASSUME NEW q \in Runners
      PROVE  Held(runner'[q], published') /\ Fresh(runner'[q])
  <2>1. Held(runner[q], published') /\ Fresh(runner[q])
    BY MoreIsKept DEF IInv
  <2>2. runner'[q] = m \/ runner'[q] = runner[q]
    BY DEF IInv
  <2>3. QED
    BY <2>1, <2>2
<1>3. QED
  BY <1>1, <1>2

LEMMA RememberedIsKept ==
  ASSUME IInv, NEW r \in Runners, Remembers(r)
  PROVE  IInv'
<1>1. PICK m : /\ Held(m, published') /\ Fresh(m)
               /\ runner' = [runner EXCEPT ![r] = m]
  BY DEF Remembers
<1>2. published \subseteq published' /\ troubles' \in Nat /\ UNCHANGED <<world, database>>
  BY DEF Remembers
<1>3. /\ DOMAIN runner' = Runners
      /\ \A q \in Runners : Held(runner'[q], published') /\ Fresh(runner'[q])
  BY <1>1, <1>2, MemoriesAreKept
<1>4. \A run \in runs' : Founded(run, published')
  BY <1>2, MoreIsKept DEF IInv, database
<1>5. Timed' /\ SettledInPlace' /\ Ordered' /\ Traced'
  BY <1>2 DEF IInv, Timed, SettledInPlace, Ordered, Traced, world, database
<1>6. QED
  BY <1>3, <1>4, <1>5 DEF IInv

LEMMA RecordIsKept ==
  ASSUME NoneIsNoId, IInv, NEW r \in Runners, Record(r)
  PROVE  IInv'
<1> DEFINE m == runner[r]
<1>1. /\ Gone(r) /\ published' = published /\ outcomes' = outcomes /\ UNCHANGED world
      /\ Trouble \/ Smooth
  BY DEF Record
<1>2. CASE UNCHANGED <<runs, stored>>
  <2>1. UNCHANGED <<world, database>>
    BY <1>1, <1>2 DEF database
  <2>2. QED
    BY <1>1, <2>1, GoneRemembers, RememberedIsKept
<1>3. CASE runs' = runs \union {Row(m)} /\ stored' = StoredAfter(m)
  <2>1. Held(m, published)
    BY DEF IInv
  <2>2. Founded(Row(m), published) /\ Row(m).order = Cardinality(runs)
    BY <2>1, RowIsFounded DEF Row
  <2> HIDE DEF m
  <2>3. \A run \in runs' : Founded(run, published')
    BY <1>1, <1>3, <2>2 DEF IInv
  <2>4. Ordered'
    BY <1>3, <2>2, NewRowIsLast DEF IInv
  <2>5. \A f \in outcomes : stored'[f] = stored[f]
    <3>1. \A f \in outcomes : f \in Fixtures /\ stored[f] \in Nat
      BY DEF IInv, SettledInPlace, Timed
    <3>2. \A f \in outcomes : stored[f] # None
      BY <3>1, RankingAssumption
    <3>3. QED
      BY <1>3, <3>1, <3>2 DEF StoredAfter
  <2>6. SettledInPlace'
    BY <1>1, <2>5 DEF IInv, SettledInPlace, world
  <2>7. Timed'
    BY <1>1, TroublesAreCounted DEF IInv, Timed, world
  <2>8. Held(Off, published') /\ Fresh(Off) /\ runner' = [runner EXCEPT ![r] = Off]
    BY <1>1, OffIsHeld DEF Gone
  <2>9. /\ DOMAIN runner' = Runners
        /\ \A q \in Runners : Held(runner'[q], published') /\ Fresh(runner'[q])
    BY <1>1, <2>8, MemoriesAreKept
  <2>10. Traced'
    <3>1. Row(m).derivedFrom = None
      BY DEF Row
    <3>2. RestsOn(Row(m), Row(m))
      BY <2>2, <3>1 DEF Founded, RestsOn, OnList
    <3>3. Row(m) \in Lineage(runs \union {Row(m)}, Row(m))
      BY RunIsOfItsLineage
    <3>4. QED
      BY <1>3, <3>2, <3>3, TracedStays DEF IInv
  <2>11. QED
    BY <2>3, <2>4, <2>6, <2>7, <2>9, <2>10 DEF IInv
<1>4. QED
  BY <1>2, <1>3 DEF Record

LEMMA DeriveIsKept ==
  ASSUME NoneIsNoId, IInv, NEW run \in runs, NEW how, Derive(run, how)
  PROVE  IInv'
<1>1. PICK artifact \in Source(run, how) :
        runs' = runs \union {DerivedRow(run, how, artifact)}
  BY DEF Derive
<1> DEFINE new == DerivedRow(run, how, artifact)
<1>2. UNCHANGED <<world, published, stored, outcomes, runner, troubles>>
  BY DEF Derive
<1>3. Founded(run, published)
  BY DEF IInv
<1>4. Founded(new, published)
  BY <1>3, DerivedIsFounded
<1>5. runs' = runs \union {new} /\ new = DerivedRow(run, how, artifact)
  BY <1>1
<1> HIDE DEF new
<1>6. new.order = Cardinality(runs)
  BY <1>3, <1>5 DEF Founded, IsRow, RowFields, DerivedRow
<1>7. Ordered'
  BY <1>5, <1>6, NewRowIsLast DEF IInv
<1>8. \A q \in runs' : Founded(q, published')
  BY <1>2, <1>4, <1>5 DEF IInv
<1>9. Timed' /\ SettledInPlace'
  BY <1>2 DEF IInv, Timed, SettledInPlace, world
<1>10. Traced'
  <2>1. PICK origin \in Lineage(runs, run) : RestsOn(run, origin)
    BY DEF IInv, Traced
  <2>2. RestsOn(new, origin)
    BY <1>3, <1>5, <2>1, DerivedRestsOnSame
  <2>3. new.derivedFrom = run.id
    BY <1>3, <1>5 DEF Founded, DerivedRow, IsRow, RowFields
  <2>4. origin \in Lineage(runs \union {new}, new)
    BY <2>1, <2>3, LineageIsInherited
  <2>5. QED
    BY <1>5, <2>2, <2>4, TracedStays DEF IInv
<1>11. QED
  BY <1>2, <1>7, <1>8, <1>9, <1>10 DEF IInv

LEMMA SettleIsKept ==
  ASSUME IInv, NEW f \in Fixtures, Settle(f)
  PROVE  IInv'
<1>1. /\ outcomes' = outcomes \union {f} /\ stored[f] = kickoff[f] /\ kickoff[f] < clock
      /\ UNCHANGED <<world, published, runs, stored, runner, troubles>>
  BY DEF Settle
<1>2. SettledInPlace'
  BY <1>1 DEF IInv, SettledInPlace, world
<1>3. Timed' /\ Ordered' /\ Traced'
  BY <1>1 DEF IInv, Timed, Ordered, Traced, world
<1>4. QED
  BY <1>1, <1>2, <1>3 DEF IInv

LEMMA WorldIsKept ==
  ASSUME IInv, World
  PROVE  IInv'
<1>1. UNCHANGED <<published, database, runner, troubles>>
  BY DEF World
<1>2. CASE Tick
  <2>1. clock' = clock + 1 /\ UNCHANGED <<kickoff, supported>>
    BY <1>2 DEF Tick
  <2>2. Timed'
    BY <1>1, <2>1 DEF IInv, Timed
  <2>3. SettledInPlace'
    <3>1. \A f \in outcomes : f \in Fixtures /\ kickoff[f] \in Nat /\ clock \in Nat
      BY DEF IInv, SettledInPlace, Timed
    <3>2. QED
      BY <1>1, <2>1, <3>1 DEF IInv, SettledInPlace, database
  <2>4. QED
    BY <1>1, <2>2, <2>3 DEF IInv, Ordered, Traced, database
<1>3. ASSUME NEW f \in Fixtures, NEW instant \in 0..MaxInstant, Move(f, instant)
      PROVE  IInv'
  <2>1. /\ clock < kickoff[f] /\ kickoff' = [kickoff EXCEPT ![f] = instant]
        /\ UNCHANGED <<clock, supported>>
    BY <1>3 DEF Move
  <2>2. instant \in Nat
    BY DailyAssumption
  <2>3. Timed'
    BY <1>1, <2>1, <2>2 DEF IInv, Timed
  <2>4. \A g \in outcomes : g # f /\ g \in Fixtures
    BY <2>1 DEF IInv, SettledInPlace, Timed
  <2>5. SettledInPlace'
    BY <1>1, <2>1, <2>4 DEF IInv, SettledInPlace, Timed, database
  <2>6. QED
    BY <1>1, <2>3, <2>5 DEF IInv, Ordered, Traced, database
<1>4. QED
  BY <1>2, <1>3 DEF World

LEMMA ValidateIsKept ==
  ASSUME IInv, NEW k \in Keys, NEW works \in BOOLEAN, Validate(k, works)
  PROVE  IInv'
<1>1. /\ UNCHANGED <<clock, kickoff, published, database, runner>>
      /\ supported' = IF works THEN supported \union {k} ELSE supported \ {k}
      /\ Trouble
  BY DEF Validate
<1>2. troubles' \in Nat
  BY <1>1, TroublesAreCounted
<1>3. Timed'
  BY <1>1, <1>2 DEF IInv, Timed
<1>4. QED
  BY <1>1, <1>3 DEF IInv, SettledInPlace, Ordered, Traced, database

LEMMA InitHolds == ASSUME Init PROVE IInv
<1>1. Timed
  BY DailyAssumption DEF Init, Timed
<1>2. /\ DOMAIN runner = Runners
      /\ \A r \in Runners : Held(runner[r], published) /\ Fresh(runner[r])
  BY OffIsHeld DEF Init
<1>3. Ordered /\ SettledInPlace /\ Traced
  BY FS_EmptySet DEF Init, Ordered, SettledInPlace, Traced
<1>4. QED
  BY <1>1, <1>2, <1>3 DEF IInv, Init

LEMMA StepIsKept ==
  ASSUME NoneIsNoId, IInv, [Next]_vars
  PROVE  IInv'
<1>1. ASSUME NEW r \in Runners, Run(r) \/ Crash(r)
                                  \/ \E date \in 0..Day(MaxInstant) : Begin(r, date)
      PROVE  IInv'
  <2>1. CASE Record(r)
    BY <2>1, RecordIsKept
  <2>2. CASE ~Record(r)
    <3>1. Remembers(r)
      BY <1>1, <2>2, BeginRemembers, ListRemembers, PredictRemembers, AskOddsRemembers,
         LookRemembers, CrashRemembers DEF Run
    <3>2. QED
      BY <3>1, RememberedIsKept
  <2>3. QED
    BY <2>1, <2>2
<1>2. ASSUME NEW run \in runs, NEW how \in Derivations, Derive(run, how)
      PROVE  IInv'
  BY <1>2, DeriveIsKept
<1>3. ASSUME NEW f \in Fixtures, Settle(f)
      PROVE  IInv'
  BY <1>3, SettleIsKept
<1>4. ASSUME NEW k \in Keys, NEW works \in BOOLEAN, Validate(k, works)
      PROVE  IInv'
  BY <1>4, ValidateIsKept
<1>5. CASE UNCHANGED vars
  <2>1. UNCHANGED <<world, published, database, runner, troubles>>
    BY <1>5 DEF vars
  <2>2. QED
    BY <2>1 DEF IInv, Timed, SettledInPlace, Ordered, Traced, world, database
<1>6. QED
  BY <1>1, <1>2, <1>3, <1>4, <1>5, WorldIsKept DEF Next

LEMMA Invariant ==
  ASSUME NoneIsNoId
  PROVE  Spec => []IInv
<1>1. Init => IInv
  BY InitHolds
<1>2. IInv /\ [Next]_vars => IInv'
  BY StepIsKept
<1>3. QED
  BY <1>1, <1>2, PTL DEF Spec

-----------------------------------------------------------------------------
(* The properties.                                                         *)

(* Every recorded analysis, of a run or of a review of any depth, can be   *)
(* shown from kept answers: a run rests on what its process held, a        *)
(* process holds nothing it has not kept, and a review rests on the run at *)
(* the beginning of its lineage.                                           *)
THEOREM Evidence ==
  ASSUME NoneIsNoId
  PROVE  Spec => []AnalysesHaveEvidence
<1>1. IInv => AnalysesHaveEvidence
  BY DEF IInv, Founded, Traced, AnalysesHaveEvidence
<1>2. QED
  BY <1>1, Invariant, PTL

(* The statistics hold no prediction made after its match: what is settled *)
(* was played at its stored kickoff, against which a selection is counted, *)
(* and a fixture that has been played is moved no more.                    *)
THEOREM Prospective ==
  ASSUME NoneIsNoId
  PROVE  Spec => []SettledIsProspective
<1>1. ASSUME IInv
      PROVE  SettledIsProspective
  <2>1. ASSUME NEW s \in Sample, s[2].fixture \in outcomes
        PROVE  s[1].completed < kickoff[s[2].fixture]
    <3>1. s[1].completed < stored[s[2].fixture]
      BY DEF Sample, InSample
    <3>2. stored[s[2].fixture] = kickoff[s[2].fixture]
      BY <1>1, <2>1 DEF IInv, SettledInPlace
    <3>3. QED
      BY <3>1, <3>2
  <2>2. QED
    BY <2>1 DEF SettledIsProspective
<1>2. QED
  BY <1>1, Invariant, PTL

(* A fixture is counted once: its stored kickoff gives it one date, a date *)
(* has one canonical run, the last, and a run one analysis of a fixture.   *)
THEOREM Once ==
  ASSUME NoneIsNoId
  PROVE  Spec => []CountedOnce
<1>1. ASSUME IInv
      PROVE  CountedOnce
  <2>1. ASSUME NEW s \in Sample, NEW t \in Sample, s[2].fixture = t[2].fixture
        PROVE  s = t
    <3>1. PICK run \in Canonical : s \in {run} \X run.analyses
      BY DEF Sample
    <3>2. PICK q \in Canonical : t \in {q} \X q.analyses
      BY DEF Sample
    <3>3. /\ s = <<run, s[2]>> /\ s[2] \in run.analyses
          /\ t = <<q, t[2]>> /\ t[2] \in q.analyses
      BY <3>1, <3>2
    <3>4. Day(stored[s[2].fixture]) = run.date /\ Day(stored[t[2].fixture]) = q.date
      BY <3>3 DEF Sample, InSample
    <3>5. run.date = q.date
      BY <2>1, <3>4
    <3>6. run.order <= q.order /\ q.order <= run.order
      BY <3>5 DEF Canonical
    <3>7. run \in runs /\ q \in runs /\ run.order \in Nat /\ q.order \in Nat
      BY <1>1 DEF Canonical, IInv, Ordered
    <3>8. run = q
      BY <1>1, <3>6, <3>7 DEF IInv, Ordered
    <3>9. s[2] = t[2]
      BY <1>1, <2>1, <3>3, <3>7, <3>8 DEF IInv, Founded
    <3>10. QED
      BY <3>3, <3>8, <3>9
  <2>2. QED
    BY <2>1 DEF CountedOnce
<1>2. QED
  BY <1>1, Invariant, PTL

(* A derived run changes nothing in the statistics: it does not count, and *)
(* is written with no fixture.                                             *)
THEOREM DerivedApart ==
  ASSUME NoneIsNoId
  PROVE  Spec => DerivedDoNotCount
<1> DEFINE Apart == \A run \in runs' \ runs : run.derivedFrom # None => Sample' = Sample
<1>1. ASSUME IInv, Next
      PROVE  Apart
  <2>1. ASSUME NEW r \in Runners, Record(r)
        PROVE  Apart
    <3>1. runs' = runs \union {Row(runner[r])} \/ runs' = runs
      BY <2>1 DEF Record
    <3>2. Row(runner[r]).derivedFrom = None
      BY DEF Row
    <3>3. QED
      BY <3>1, <3>2
  <2>2. ASSUME NEW run \in runs, NEW how, Derive(run, how)
        PROVE  Apart
    <3>1. PICK artifact \in Source(run, how) :
            runs' = runs \union {DerivedRow(run, how, artifact)}
      BY <2>2 DEF Derive
    <3> DEFINE new == DerivedRow(run, how, artifact)
    <3>2. IsRow(run) /\ run.id # None
      BY <1>1 DEF IInv, Founded
    <3>3. new = DerivedRow(run, how, artifact)
      OBVIOUS
    <3>4. runs' = runs \union {new} /\ stored' = stored
      BY <2>2, <3>1 DEF Derive
    <3> HIDE DEF new
    <3>5. ~Counts(new)
      BY <3>2, <3>3 DEF Counts, IsRow, RowFields, DerivedRow
    <3>6. Canonical' = Canonical
      BY <3>4, <3>5 DEF Canonical
    <3>7. Sample' = Sample
      BY <3>4, <3>6 DEF Sample, InSample
    <3>8. QED
      BY <3>7
  <2>3. CASE runs' = runs
    BY <2>3
  <2>4. QED
    BY <1>1, <2>1, <2>2, <2>3 DEF Next, Run, World, Validate, Settle, Begin, Crash, List, Look,
       Predict, AskOdds, database
<1>2. IInv /\ [Next]_vars => [Apart]_vars
  BY <1>1
<1> HIDE DEF Apart
<1>3. Spec => [][Apart]_vars
  BY <1>2, Invariant, PTL DEF Spec
<1>4. QED
  BY <1>3 DEF Apart, DerivedDoNotCount

(* A run leaves its transaction by the transaction, or crashes.            *)
LEMMA OnlyRecordEnds ==
  ASSUME IInv, Next, NEW r \in Runners, runner[r].pc = "recording", runner'[r].pc = "off",
         ~Trouble
  PROVE  Record(r)
<1>1. ASSUME NEW q \in Runners, NEW m, runner' = [runner EXCEPT ![q] = m]
      PROVE  q = r
  BY <1>1 DEF IInv
<1>2. ASSUME NEW q \in Runners, Remembers(q)
      PROVE  q = r
  BY <1>1, <1>2 DEF Remembers
<1>3. ~List(r) /\ ~Look(r) /\ ~Crash(r)
  BY DEF List, Look, Crash
<1>4. \A x : ~Predict(r, x) /\ ~AskOdds(r, x) /\ ~Begin(r, x)
  BY DEF Predict, AskOdds, Begin
<1>5. runner' # runner
  OBVIOUS
<1>6. PICK q \in Runners : Run(q) \/ Crash(q) \/ \E date \in 0..Day(MaxInstant) : Begin(q, date)
  BY <1>5 DEF Next, Derive, Settle, Validate, World
<1>7. Record(q) => q = r
  BY <1>1 DEF Record, Gone
<1>8. ~Record(q) => Remembers(q)
  BY <1>6, BeginRemembers, ListRemembers, PredictRemembers, AskOddsRemembers,
     LookRemembers, CrashRemembers DEF Run
<1>9. QED
  BY <1>2, <1>3, <1>4, <1>6, <1>7, <1>8 DEF Run

(* A run that meets no failure is recorded unless it is there already or   *)
(* two competitions answered the same bytes: a repeated answer takes two   *)
(* sport keys, because a key is asked once.                                *)
THEOREM EqualRefused ==
  ASSUME NoneIsNoId
  PROVE  Spec => OnlyEqualRunsAreRefused
<1> DEFINE Refusal ==
      \A r \in Runners :
        /\ runner[r].pc = "recording" /\ runner'[r].pc = "off"
        /\ troubles' = troubles /\ ~Full
        => \/ \E run \in runs' : run.id = RunId(runner[r])
           \/ \E k, j \in Keys : k # j /\ runner[r].repeated
<1>1. ASSUME IInv, Next
      PROVE  Refusal
  <2> SUFFICES ASSUME NEW r \in Runners, runner[r].pc = "recording", runner'[r].pc = "off",
                      troubles' = troubles, ~Full
               PROVE  \/ \E run \in runs' : run.id = RunId(runner[r])
                      \/ \E k, j \in Keys : k # j /\ runner[r].repeated
    OBVIOUS
  <2>1. ~Trouble
    <3>1. troubles \in Nat
      BY <1>1 DEF IInv, Timed
    <3>2. QED
      BY <3>1 DEF Trouble
  <2>2. Record(r)
    BY <1>1, <2>1, OnlyRecordEnds
  <2>3. CASE Refused(runner[r])
    BY <1>1, <2>2, <2>3 DEF Refused, Recorded, Record, IInv, Held, Asked
  <2>4. CASE ~Refused(runner[r])
    <3>1. Row(runner[r]) \in runs'
      BY <2>1, <2>2, <2>4 DEF Record
    <3>2. Row(runner[r]).id = RunId(runner[r])
      BY DEF Row
    <3>3. QED
      BY <3>1, <3>2
  <2>5. QED
    BY <2>3, <2>4
<1>2. IInv /\ [Next]_vars => [Refusal]_vars
  BY <1>1
<1> HIDE DEF Refusal
<1>3. Spec => [][Refusal]_vars
  BY <1>2, Invariant, PTL DEF Spec
<1>4. QED
  BY <1>3 DEF Refusal, OnlyEqualRunsAreRefused

-----------------------------------------------------------------------------
(* The matchers.                                                           *)

(* Only(S) is the member of a set that has one and no two.                 *)
LEMMA OnlyMember ==
  ASSUME NEW S, S # {}, ~Several(S)
  PROVE  Only(S) \in S /\ S = {Only(S)}
<1>1. PICK i \in S : S = {i}
  BY DEF Several
<1>2. S = {Only(S)}
  BY <1>1 DEF Only
<1>. QED  BY <1>1, <1>2

(* A renaming of the members keeps whether there are several.              *)
LEMMA SameMany ==
  ASSUME NEW S, NEW T, NEW p,
         \A i \in S : p[i] \in T,
         \A j \in T : \E i \in S : p[i] = j,
         \A i, j \in S : p[i] = p[j] => i = j
  PROVE  /\ S = {} <=> T = {}
         /\ Several(S) <=> Several(T)
BY DEF Several

-----------------------------------------------------------------------------
(* matchProviderEvent.                                                     *)

(* What its answer says.                                                   *)
LEMMA MatchedAnswer ==
  ASSUME NEW s, NEW candidates, NEW tolerance,
         MatchProviderEvent(s, candidates, tolerance).status = "MATCHED"
  PROVE  LET eligible == Classified(s, candidates, tolerance, {"ELIGIBLE"})
         IN  /\ InputErrors(s, candidates) = {}
             /\ Classified(s, candidates, tolerance,
                  {"REVERSED_ORIENTATION_CONFLICT", "COMPETITION_CONFLICT"}) = {}
             /\ eligible # {} /\ ~Several(eligible)
             /\ MatchProviderEvent(s, candidates, tolerance).event = Only(eligible)
BY DEF MatchProviderEvent, Verdict

LEMMA ClassOf ==
  ASSUME NEW s, NEW c, NEW tolerance, s.home # s.away
  PROVE  /\ Classification(s, c, tolerance) = "ELIGIBLE" <=>
              Near(s, c, tolerance) /\ c.competition = s.competition /\ SameTeams(s, c)
         /\ Classification(s, c, tolerance) = "REVERSED_ORIENTATION_CONFLICT" <=>
              Near(s, c, tolerance) /\ c.competition = s.competition /\ ReversedTeams(s, c)
         /\ Classification(s, c, tolerance) = "COMPETITION_CONFLICT" <=>
              Near(s, c, tolerance) /\ c.competition # s.competition /\ SameTeams(s, c)
<1>1. ~(SameTeams(s, c) /\ ReversedTeams(s, c))
  BY DEF SameTeams, ReversedTeams
<1>. QED  BY <1>1 DEF Classification

LEMMA SoundSource ==
  ASSUME NEW s, NEW candidates, InputErrors(s, candidates) = {}
  PROVE  s.home # s.away
BY DEF InputErrors, DescriptorError

(* A source is matched to a candidate of its teams, in its orientation, in *)
(* its competition and near its kickoff; and no other candidate near it    *)
(* has both its teams in its competition, either way round, or the same    *)
(* direct pairing in another one (provider-event-matcher.ts:295, 396).     *)
THEOREM MatchedIsTheOnlyOne ==
  ASSUME NEW s, NEW candidates, NEW tolerance,
         MatchProviderEvent(s, candidates, tolerance).status = "MATCHED"
  PROVE  LET m == MatchProviderEvent(s, candidates, tolerance).event
         IN  /\ m \in DOMAIN candidates
             /\ Near(s, candidates[m], tolerance)
             /\ candidates[m].competition = s.competition
             /\ SameTeams(s, candidates[m])
             /\ \A j \in DOMAIN candidates \ {m} :
                  Near(s, candidates[j], tolerance) =>
                    /\ ~SameTeams(s, candidates[j])
                    /\ candidates[j].competition = s.competition =>
                         ~ReversedTeams(s, candidates[j])
<1>. DEFINE eligible == Classified(s, candidates, tolerance, {"ELIGIBLE"})
            m == MatchProviderEvent(s, candidates, tolerance).event
<1>1. s.home # s.away
  BY MatchedAnswer, SoundSource
<1>2. eligible # {} /\ ~Several(eligible) /\ m = Only(eligible)
  BY MatchedAnswer
<1>3. m \in eligible /\ eligible = {m}
  <2>. HIDE DEF eligible, m
  <2>. QED  BY <1>2, OnlyMember
<1>4. /\ m \in DOMAIN candidates
      /\ Classification(s, candidates[m], tolerance) = "ELIGIBLE"
  BY <1>3 DEF Classified
<1>5. ASSUME NEW j \in DOMAIN candidates, j # m
      PROVE  Classification(s, candidates[j], tolerance) \notin
               {"ELIGIBLE", "REVERSED_ORIENTATION_CONFLICT", "COMPETITION_CONFLICT"}
  <2>1. j \notin eligible
    <3>. HIDE DEF eligible, m
    <3>. QED  BY <1>3, <1>5
  <2>2. j \notin Classified(s, candidates, tolerance,
                  {"REVERSED_ORIENTATION_CONFLICT", "COMPETITION_CONFLICT"})
    BY MatchedAnswer
  <2>. QED  BY <2>1, <2>2 DEF Classified
<1>6. /\ Near(s, candidates[m], tolerance)
      /\ candidates[m].competition = s.competition
      /\ SameTeams(s, candidates[m])
  <2>. HIDE DEF m
  <2>. QED  BY <1>1, <1>4, ClassOf
<1>7. ASSUME NEW j \in DOMAIN candidates, j # m, Near(s, candidates[j], tolerance)
      PROVE  /\ ~SameTeams(s, candidates[j])
             /\ candidates[j].competition = s.competition => ~ReversedTeams(s, candidates[j])
  BY <1>1, <1>5, <1>7, ClassOf
<1>. QED  BY <1>4, <1>6, <1>7

(* The order in which the candidates are given changes neither the answer  *)
(* nor which candidate is matched (provider-event-matcher.ts:333).         *)
THEOREM OrderIsIgnored ==
  ASSUME NEW s, NEW candidates, NEW tolerance, NEW others, NEW p,
         \A i \in DOMAIN others : p[i] \in DOMAIN candidates,
         \A j \in DOMAIN candidates : \E i \in DOMAIN others : p[i] = j,
         \A i, j \in DOMAIN others : p[i] = p[j] => i = j,
         \A i \in DOMAIN others : others[i] = candidates[p[i]]
  PROVE  LET a == MatchProviderEvent(s, candidates, tolerance)
             b == MatchProviderEvent(s, others, tolerance)
         IN  /\ a.status = b.status
             /\ a.status = "MATCHED" => candidates[a.event] = others[b.event]
<1>. DEFINE In(classes)  == Classified(s, candidates, tolerance, classes)
            Out(classes) == Classified(s, others, tolerance, classes)
            eligible  == {"ELIGIBLE"}
            conflicts == {"REVERSED_ORIENTATION_CONFLICT", "COMPETITION_CONFLICT"}
<1>1. InputErrors(s, candidates) = {} <=> InputErrors(s, others) = {}
  <2>1. (\E i \in DOMAIN candidates :
           DescriptorError(candidates[i], "INVALID_CANDIDATE") # "NONE") <=>
        (\E i \in DOMAIN others :
           DescriptorError(others[i], "INVALID_CANDIDATE") # "NONE")
    OBVIOUS
  <2>2. (\E i, j \in DOMAIN candidates :
           /\ i # j
           /\ candidates[i].provider = candidates[j].provider
           /\ candidates[i].id = candidates[j].id) <=>
        (\E i, j \in DOMAIN others :
           /\ i # j
           /\ others[i].provider = others[j].provider
           /\ others[i].id = others[j].id)
    OBVIOUS
  <2>3. ASSUME NEW c
        PROVE  InputErrors(s, c) = {} <=>
                 /\ DescriptorError(s, "INVALID_SOURCE") = "NONE"
                 /\ ~\E i \in DOMAIN c : DescriptorError(c[i], "INVALID_CANDIDATE") # "NONE"
                 /\ ~\E i, j \in DOMAIN c : /\ i # j
                                            /\ c[i].provider = c[j].provider
                                            /\ c[i].id = c[j].id
    BY DEF InputErrors
  <2>. QED  BY <2>1, <2>2, <2>3
<1>2. ASSUME NEW classes
      PROVE  /\ \A i \in Out(classes) : p[i] \in In(classes)
             /\ \A j \in In(classes) : \E i \in Out(classes) : p[i] = j
             /\ \A i, j \in Out(classes) : p[i] = p[j] => i = j
  BY DEF Classified
<1>3. ASSUME NEW classes
      PROVE  /\ Out(classes) = {} <=> In(classes) = {}
             /\ Several(Out(classes)) <=> Several(In(classes))
  <2>. HIDE DEF In, Out
  <2>. QED  BY <1>2, SameMany
<1>4. MatchProviderEvent(s, candidates, tolerance).status
        = MatchProviderEvent(s, others, tolerance).status
  <2>1. /\ Out(conflicts) = {} <=> In(conflicts) = {}
        /\ Out(eligible) = {} <=> In(eligible) = {}
        /\ Several(Out(eligible)) <=> Several(In(eligible))
    BY <1>3
  <2>. QED  BY <1>1, <2>1 DEF MatchProviderEvent, Verdict
<1>5. ASSUME MatchProviderEvent(s, candidates, tolerance).status = "MATCHED"
      PROVE  candidates[MatchProviderEvent(s, candidates, tolerance).event]
               = others[MatchProviderEvent(s, others, tolerance).event]
  <2>. DEFINE a == MatchProviderEvent(s, candidates, tolerance).event
              b == MatchProviderEvent(s, others, tolerance).event
  <2>1. In(eligible) # {} /\ ~Several(In(eligible)) /\ a = Only(In(eligible))
    BY <1>5, MatchedAnswer
  <2>2. Out(eligible) # {} /\ ~Several(Out(eligible)) /\ b = Only(Out(eligible))
    <3>1. MatchProviderEvent(s, others, tolerance).status = "MATCHED"
      BY <1>4, <1>5
    <3>. QED  BY <3>1, MatchedAnswer
  <2>3. In(eligible) = {a} /\ Out(eligible) = {b}
    <3>. HIDE DEF In, Out, a, b
    <3>. QED  BY <2>1, <2>2, OnlyMember
  <2>4. p[b] = a /\ b \in DOMAIN others
    <3>1. b \in DOMAIN others
      BY <2>3 DEF Classified
    <3>2. p[b] \in In(eligible)
      <4>. HIDE DEF In, Out, a, b
      <4>. QED  BY <2>3, <1>2
    <3>. QED  BY <3>1, <3>2, <2>3
  <2>5. candidates[a] = others[b]
    <3>. HIDE DEF a, b
    <3>. QED  BY <2>4
  <2>. QED  BY <2>5
<1>. QED  BY <1>4, <1>5

-----------------------------------------------------------------------------
(* matchAutomaticFixture.                                                  *)

(* An event in which the names of the fixture's teams are in their places, *)
(* or similar names and the competition agrees.                            *)
Resembles(f, e) ==
  \/ SameTeams(f, e)
  \/ Similar(f.home, e.home) /\ Similar(f.away, e.away) /\ Coherent(f, e)

(* The event an automatic match names is near the fixture, is not of its   *)
(* teams the other way round, and has the names of its teams or names like *)
(* them and its competition; and no other event near the fixture would do: *)
(* each is of the teams the other way round, or has neither their names    *)
(* nor, with the competition, names like them.                             *)
THEOREM AutomaticMatchIsTheOnlyOne ==
  ASSUME NEW f, NEW events, NEW tolerance,
         MatchAutomaticFixture(f, events, tolerance).status
           \in {"EXACT_NORMALIZED", "UNIQUE_HIGH_CONFIDENCE"}
  PROVE  LET m == MatchAutomaticFixture(f, events, tolerance).event
         IN  /\ m \in DOMAIN events
             /\ Near(f, events[m], tolerance)
             /\ ~AutomaticReversed(f, events[m])
             /\ Resembles(f, events[m])
             /\ \A j \in DOMAIN events \ {m} :
                  Near(f, events[j], tolerance) =>
                    AutomaticReversed(f, events[j]) \/ ~Resembles(f, events[j])
<1>. DEFINE viable == {i \in {k \in DOMAIN events : Near(f, events[k], tolerance)} :
                         Viable(f, events[i])}
            m == MatchAutomaticFixture(f, events, tolerance).event
<1>1. viable # {} /\ ~Several(viable) /\ m = Only(viable)
  BY DEF MatchAutomaticFixture, Verdict
<1>2. viable = {m}
  <2>. HIDE DEF viable, m
  <2>. QED  BY <1>1, OnlyMember
<1>3. m \in DOMAIN events /\ Near(f, events[m], tolerance) /\ Viable(f, events[m])
  BY <1>2
<1>4. ASSUME NEW j \in DOMAIN events, j # m, Near(f, events[j], tolerance)
      PROVE  ~Viable(f, events[j])
  <2>1. j \notin viable
    <3>. HIDE DEF viable, m
    <3>. QED  BY <1>2, <1>4
  <2>. QED  BY <2>1, <1>4
<1>. QED  BY <1>3, <1>4 DEF Viable, Resembles

-----------------------------------------------------------------------------
(* The registry of aliases and matchOddsFixtureV2.                         *)

(* Whatever is in the registry, also what two reviews at once left there,  *)
(* a name that is no team's own does not stand for both teams of a fixture *)
(* (odds-matching-v2.ts:13-15).                                            *)
THEOREM AliasNamesOneTeam ==
  ASSUME NEW name, NEW f, NEW aliases,
         f.home.team # f.away.team,
         name \notin {f.home.name, f.away.name}
  PROVE  ~(Resolves(name, f.home, f, aliases) /\ Resolves(name, f.away, f, aliases))
<1>. SUFFICES ASSUME Resolves(name, f.home, f, aliases),
                     Resolves(name, f.away, f, aliases)
              PROVE  FALSE
  OBVIOUS
<1>1. ~AmbiguousName(name, f.home, f, aliases)
  BY DEF Resolves
<1>2. PICK a : OfTeam(Compatible(name, f, aliases), f.home) = {a}
  BY DEF Resolves
<1>3. PICK b : OfTeam(Compatible(name, f, aliases), f.away) = {b}
  BY DEF Resolves
<1>4. /\ a \in Compatible(name, f, aliases) /\ a.team = f.home.team
      /\ b \in Compatible(name, f, aliases) /\ b.team = f.away.team
  BY <1>2, <1>3 DEF OfTeam
<1>. QED  BY <1>1, <1>4 DEF AmbiguousName

(* The event the replay prices a fixture with bears the names of its teams *)
(* in their places, and is not at once its reverse, unless the provider    *)
(* uses the own name of one team for the other.                            *)
THEOREM PricedEventIsDirect ==
  ASSUME NEW f, NEW events, NEW aliases, NEW tolerance,
         f.home.team # f.away.team,
         MatchOddsFixture(f, events, aliases, tolerance).status
           \in {"MATCHED_EXACT", "MATCHED_APPROVED_ALIAS"}
  PROVE  LET m == MatchOddsFixture(f, events, aliases, tolerance).event
             e == events[m]
         IN  /\ m \in DOMAIN events
             /\ Near(f, e, tolerance)
             /\ Resolves(e.home, f.home, f, aliases)
             /\ Resolves(e.away, f.away, f, aliases)
             /\ e.home \notin {f.home.name, f.away.name} =>
                  ~Resolves(e.home, f.away, f, aliases)
             /\ e.away \notin {f.home.name, f.away.name} =>
                  ~Resolves(e.away, f.home, f, aliases)
<1>. DEFINE within == {i \in {k \in DOMAIN events : events[k].sport # "OTHER"} :
                         Near(f, events[i], tolerance)}
            direct == {i \in within : /\ Resolves(events[i].home, f.home, f, aliases)
                                      /\ Resolves(events[i].away, f.away, f, aliases)}
            m == MatchOddsFixture(f, events, aliases, tolerance).event
<1>1. direct # {} /\ ~Several(direct) /\ m = Only(direct)
  BY DEF MatchOddsFixture, Verdict
<1>2. m \in direct
  <2>. HIDE DEF direct, m
  <2>. QED  BY <1>1, OnlyMember
<1>. QED  BY <1>2, AliasNamesOneTeam

(* No two approved aliases of one name and scope stand for different teams.*)
Unequivocal(aliases) ==
  \A a, b \in aliases :
    a.status = "APPROVED" /\ b.status = "APPROVED" /\ SameScope(a, b) => a.team = b.team

(* A review keeps that, of whatever decision, made or refused              *)
(* (team-alias-workflow.ts:44).  Two reviews at once may not: between the  *)
(* query and the insertion of one the other inserts.                       *)
THEOREM ReviewKeepsUnequivocal ==
  ASSUME NEW aliases, NEW row, Unequivocal(aliases)
  PROVE  Unequivocal(Reviewed(aliases, row))
<1>1. CASE ~Accepted(aliases, row)
  BY <1>1 DEF Reviewed
<1>2. CASE Accepted(aliases, row) /\ \E a \in aliases : SameAlias(a, row) /\ a.status = row.status
  BY <1>2 DEF Reviewed, WithAlias
<1>3. CASE Accepted(aliases, row) /\ ~\E a \in aliases : SameAlias(a, row) /\ a.status = row.status
  <2>1. Reviewed(aliases, row) = aliases \union {row}
    BY <1>3 DEF Reviewed, WithAlias
  <2>2. ASSUME NEW a \in aliases, a.status = "APPROVED", row.status = "APPROVED",
               SameScope(a, row) \/ SameScope(row, a)
        PROVE  a.team = row.team
    BY <1>3, <2>2 DEF Accepted, Collides, SameScope
  <2>. QED  BY <2>1, <2>2 DEF Unequivocal
<1>. QED  BY <1>1, <1>2, <1>3

=============================================================================
