SPECIFICATION Spec
CONSTANTS
  Pipes = {w1, w2}
  Pubs = {p1}
  Faults = {"scan", "quit", "write", "review"}
  MaxScans = 2
SYMMETRY AnyRun
CHECK_DEADLOCK FALSE
INVARIANTS
  TypeOK
  OnlyApprovedContentGoesLive
  PublishedPostsAreLive
