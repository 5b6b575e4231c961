SPECIFICATION SpecR
CONSTANTS
  Impl = "upstream"
  Server = {s1, s2, s3}
  Value = {x}
  Nil = Nil
  MaxTerm = 1
  MaxLog = 0
  MaxRounds = 0
  Snapshots = FALSE
  MaxRestarts = 1
INVARIANT ElectionSafety
CHECK_DEADLOCK FALSE
