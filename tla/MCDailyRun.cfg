SPECIFICATION Spec
CONSTANTS
  None = None
  Runners = {"unit", "hand"}
  Locked = {"unit"}
  Fixtures = {1, 2, 3, 4}
  KindOf <- KindOfDay
  KeyOf <- KeyOfEach
  MaxFixtures = 2
  DeepCandidates = 2
  Top = 1
  MaximumPrimary = 1
  MaximumRequests = 2
  Lead = 1
  DayLength = 2
  FirstKickoff <- KickoffOfAll
  MayMove = {2}
  Forecasts <- ForecastsOf
  HasOddsKey = TRUE
  Derivations = {"ALIAS_REPLAY", "INTELLIGENT_1X"}
  MaxRuns = 3
  MaxInstant = 3
  MaxTroubles = 1
CONSTRAINT Parts
INVARIANTS AnalysesHaveEvidence SettledIsProspective CountedOnce
PROPERTIES OnlyEqualRunsAreRefused DerivedDoNotCount
CHECK_DEADLOCK FALSE
