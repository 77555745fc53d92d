SPECIFICATION Spec
CONSTANTS
  Runs = {r1, r2}
  Posts = {p1, p2}
  Slots <- ThreeSlots
  BatchSize = 1
  LookAhead = 3
  DayLength = 2
  StartTimes = {0, 3, 6}
  Now = 8
  Crashes = TRUE
  MaxStarts = 3
SYMMETRY AnyRun
CHECK_DEADLOCK FALSE
INVARIANTS
  TypeOK
  SlotsAreNeverOverfull
  QueuedOnce
PROPERTIES
  EarliestOpenTimeIsChosen
