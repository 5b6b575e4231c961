SPECIFICATION Spec
CONSTANTS
  Impl = "upstream"
  a = a
  b = b
  c = c
  Server = {a, b, c}
  Value = {x}
  Nil = Nil
  MaxTerm = 3
  MaxLog = 3
  MaxRounds = 2
  Snapshots = FALSE
  MaxInFlight = 2
CONSTRAINT FewInFlight ThreeLeaders
PROPERTY CommittedNeverOverwritten
CHECK_DEADLOCK FALSE
