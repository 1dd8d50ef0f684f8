SPECIFICATION SyntheticSpec
CONSTANTS
  Absent = Absent
  Fixtures = {1, 2}
  Providers <- Synthetic
  CapabilitiesOf <- SyntheticCapabilities
  AnswersTo <- SyntheticAnswers
  PredictionInputs <- SomePredictions
  AttemptLimit = 2
  MaxRuns = 2
  MaxPackets = 1
  MaxTroubles = 1
  DayLength = 10
  GeneratedAt = 9
  DecidedAt = 1
INVARIANTS ObservationsAreBound ResultsAreProspective NoFixtureIsForgotten PacketIsProspective PacketIsAccepted
CHECK_DEADLOCK FALSE
