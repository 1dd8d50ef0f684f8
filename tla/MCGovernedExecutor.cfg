CONSTANTS
  None = None
  Malformed = Malformed
  SafetyThreshold = 2
  RequireDaily = TRUE
  RequireMinute = TRUE
  Calls = {c1, c2, bad}
  InvalidCalls = {bad}
  ClockMayFail = TRUE
  MaxAttempts = 3
  MaxRetries = 1
  PolicyMaxAttempts = 2
  MaxConsecutive = 3
  Exchanges <- ContractExchanges
SPECIFICATION FairSpec
INVARIANTS EveryAttemptAccounted ResultMatchesAudit ReasonEarned
PROPERTIES AcceptedNeverRetried AcceptedQuotaStopsRun GovernanceKept EveryCallReturns
