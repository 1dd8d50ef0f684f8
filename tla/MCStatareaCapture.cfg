SPECIFICATION CaptureSpec
CONSTANTS
  Absent = Absent
  first = first
  second = second
  Captures = {first, second}
  Dates = {1, 2}
  ReplayDate = 1
  Answers <- SomeAnswers
  MaxRedirects = 1
  MaxBegins = 3
  MaxTroubles = 1
INVARIANTS SnapshotsAreKept CapturesAreIdempotent SnapshotsAreOfTheirDate TrailsAreWhole
SYMMETRY Alike
CHECK_DEADLOCK FALSE
