SPECIFICATION Spec
CONSTANTS
  Impl = "upstream"
  Server = {s1, s2, s3}
  Value = {x}
  Nil = Nil
  MaxTerm = 3
  MaxLog = 2
  MaxRounds = 2
  Snapshots = TRUE
  MaxInFlight = 2
SYMMETRY Symmetry
CONSTRAINT LeadershipsOrCompaction
ACTION_CONSTRAINT SnapshotFirst
INVARIANT TypeOK NextIndexInLog MatchIndexSound AppliedInRange
PROPERTY NothingTakenBack
CHECK_DEADLOCK FALSE
