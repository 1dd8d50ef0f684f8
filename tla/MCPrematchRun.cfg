CONSTANTS
  None = None
  Malformed = Malformed
  NoRow = NoRow
  SafetyThreshold = 2
  RequireDaily = TRUE
  RequireMinute = TRUE
  Order <- TwoTargets
  Kickoff <- KickoffOf2
  MaxAttempts = 4
  Exchanges <- AllExchanges
  Requests = {"FIXTURE", "PREDICTION"}
  Payloads <- AllPayloads
  StorageMayFail = TRUE
  MayCrash = TRUE
  MaxRuns = 2
  MaxInstant = 2
SPECIFICATION FairSpec
INVARIANTS SnapshotsArePrematch ArtifactsHaveEvidence ReportIsTrue ExitIsTrue
PROPERTY EveryRunEnds
