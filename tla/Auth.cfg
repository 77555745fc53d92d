SPECIFICATION Spec
CONSTANTS
  Procs = {p1, p2}
  Lifetime = 4
  RefreshWindow = 2
SYMMETRY AnyProc
INVARIANTS
  TypeOK
  RecordedExpiryIsTrue
  TokenInUseStaysAlive
PROPERTIES
  UpdatesAreNotLost
