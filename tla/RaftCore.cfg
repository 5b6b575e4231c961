SPECIFICATION Spec
CONSTANTS
  Impl = "upstream"
  Server = {s1, s2, s3}
  Value = {x, y}
  Nil = Nil
  MaxTerm = 2
  MaxLog = 2
  MaxRounds = 2
  Snapshots = FALSE
  MaxInFlight = 2
SYMMETRY Symmetry
CONSTRAINT CompetingOrQuiet NoRepeats NothingApplied
INVARIANT ElectionSafety NoSecondVictory VoteInv ReplicationInv NoAssertionFails EntryUnique
PROPERTY LeaderAppendOnly StepDownForHigherTerm CommitBacked
CHECK_DEADLOCK FALSE
