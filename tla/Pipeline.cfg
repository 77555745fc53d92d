SPECIFICATION Spec
CONSTANTS
  Runs = {r1, r2}
  Directories <- SmallDirectories
  Faults = {"crash", "write"}
  MaxStarts = 2
SYMMETRY AnyRun
CHECK_DEADLOCK FALSE
INVARIANTS
  TypeOK
  ReviewedPostsAreValid
  DisplayOrderIsRight
  FailedPostCanBeRetried
