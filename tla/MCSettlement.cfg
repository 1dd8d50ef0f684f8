SPECIFICATION Spec
CONSTANTS
  timer = timer
  again = again
  hand = hand
  None = None
  Fixtures = {1, 2}
  Settlers = {timer, again, hand}
  Locked <- UnitRuns
  MaxFixtures = 2
  Budget = 2
  MayStall = {}
  MaxCorrections = 1
  MaxTroubles = 1
INVARIANTS OutcomesAreEvidenced TimersSettleOnce
SYMMETRY Alike
