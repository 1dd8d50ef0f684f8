SPECIFICATION FairSpec
CONSTANTS
  timer = timer
  again = again
  hand = hand
  None = None
  Fixtures = {1, 2, 3}
  Settlers = {timer}
  Locked = {timer}
  MaxFixtures = 3
  Budget = 2
  MayStall = {1}
  MaxCorrections = 0
  MaxTroubles = 1
PROPERTIES PlayedIsSettled
INVARIANT RunAddsUp
