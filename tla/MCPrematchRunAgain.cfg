CONSTANTS
  None = None
  Malformed = Malformed
  NoRow = NoRow
  SafetyThreshold = 2
  RequireDaily = TRUE
  RequireMinute = TRUE
  Order <- TwoTargets
  Kickoff <- KickoffOf2
  MaxAttempts = 4
  Exchanges <- HealthyExchanges
  Requests = {"FIXTURE", "PREDICTION"}
  Payloads <- GoodPayloads
  StorageMayFail = FALSE
  MayCrash = FALSE
  MaxRuns = 2
  MaxInstant = 2
SPECIFICATION Spec
INVARIANT EveryAttemptOnRecord
