CONSTANTS
  None = None
  Malformed = Malformed
  NoRow = NoRow
  SafetyThreshold = 2
  RequireDaily = TRUE
  RequireMinute = TRUE
  Order <- TwoTargets
  Requests = {"OUTCOME"}
  MaxAttempts = 3
  Exchanges <- AllExchanges
  Payloads <- AllPayloads
  StorageMayFail = TRUE
  MayCrash = TRUE
  MaxRuns = 2
  MaxInstant = 2
SPECIFICATION Spec
INVARIANTS OutcomesAreEvidenced ReportIsTrue
