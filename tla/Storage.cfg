SPECIFICATION SpecS
CONSTANTS
  State = {r1, r2}
  Key = {1, 2, 3}
  Val = {a, b}
  MaxLevel = 2
  Null = Null
SYMMETRY Symmetry
ACTION_CONSTRAINT FilesOrKeys
INVARIANT NoMixedSaves NoOlderSnapshot WellFormed DumpLoads OperationsAgree
CHECK_DEADLOCK FALSE
