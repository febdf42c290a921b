SPECIFICATION MCSpec
CONSTANTS
  Refs = {r1}
  Calls = {c1, c2}
  None = None
  Overlap = 1
  Delay = 1
  MaxAttempts = 2
  ClaimLimit = 1
  MaxRuns = 2
  MaxClock = 4
  MaxChanges = 1
  MaxDisturbances = 2
INVARIANT TypeOK
INVARIANT ChangeIsCovered
INVARIANT ItemHasOneWorker
INVARIANT SucceededRunIsComplete
INVARIANT GoneIsHidden
PROPERTY CheckpointAdvances
PROPERTY FullRunKeepsSeen
SYMMETRY Symmetry
CHECK_DEADLOCK FALSE
