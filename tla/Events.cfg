SPECIFICATION FairSpec
CONSTANTS
  Handlers = {w1}
  KeyPipes = {k1}
  Publishes = {p1}
  Sweepers = {s1}
  Tui = tui
  Jobs = {tui, old}
  Kept = {"failed"}
  Cap = 2
  PanelLines = 1
  MaxLines = 2
  Faults = {"kill", "disk"}
CHECK_DEADLOCK FALSE
INVARIANTS
  TypeOK
  WaiterIsKept
  LinesAreConserved
  LinesAreInOrder
  LiveLogIsKept
PROPERTIES
  EverythingArrives
