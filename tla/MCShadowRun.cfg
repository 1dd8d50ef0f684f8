SPECIFICATION Spec
CONSTANTS
  None = None
  first = first
  second = second
  one = one
  other = other
  Shadows = {first, second}
  Captures = {"forebet"}
  Assessors = {one, other}
  Pages <- TwoPages
  Pairs <- SomePairs
  Metrics <- TwoEvaluations
  SportsDay = 3
  MaxInstant = 3
  MaxBegins = 3
  MaxTroubles = 1
INVARIANTS FrozenIsProspective ReturnedIsExported SerialRunsFreezeOnce AssessedIsExported
SYMMETRY Alike
CHECK_DEADLOCK FALSE
