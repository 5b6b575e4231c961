SPECIFICATION SpecRpc
CONSTANTS
  Impl = "upstream"
  Server = {s1, s2, s3}
  Value = {x}
  Nil = Nil
  MaxTerm = 1
  MaxLog = 1
  MaxRounds = 2
  Snapshots = FALSE
PROPERTY CommitBacked
CHECK_DEADLOCK FALSE
