CONSTANTS
  None = None
  Malformed = Malformed
  SafetyThreshold = 2
  RequireDaily = TRUE
  RequireMinute = TRUE
  Calls = {c1, c2, bad}
  InvalidCalls = {bad}
  ClockMayFail = TRUE
  MaxAttempts = 3
  MaxRetries = 2
  PolicyMaxAttempts = 3
  MaxConsecutive = 2
  Exchanges <- ClientExchanges
SPECIFICATION Spec
PROPERTY QuotaStopsRun
