SPECIFICATION Spec
CONSTANTS
  Pipes = {w1}
  Pubs = {p1}
  Faults = {}
  MaxScans = 2
CHECK_DEADLOCK FALSE
INVARIANTS
  NoPostIsLeftValidated
