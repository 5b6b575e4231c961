SPECIFICATION Spec
CONSTANTS
  Impl = "upstream"
  Server = {s1, s2, s3}
  Value = {x}
  Nil = Nil
  MaxTerm = 2
  MaxLog = 1
  MaxRounds = 3
  Snapshots = TRUE
  MaxInFlight = 2
SYMMETRY Symmetry
CONSTRAINT FewInFlight QuietElections
INVARIANT NoAssertionFails
CHECK_DEADLOCK FALSE
