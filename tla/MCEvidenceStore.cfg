CONSTANTS
  a1 = a1
  a2 = a2
  b1 = b1
  b2 = b2
  x1 = x1
  None = None
  Calls <- FiveCalls
  Processes = {"A", "B"}
  Content <- ContentOf
  Process <- ProcessOf
  Unacceptable <- NotAccepted
  Damaged = {"g"}
  IOMayFail = TRUE
  MaxCrashes = 2
SPECIFICATION FairSpec
INVARIANTS PublishedIsWhole AnsweredIsPublished
PROPERTIES LogKept EveryPublishAnswers
