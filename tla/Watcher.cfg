SPECIFICATION FairSpec
CONSTANTS
  Timers = {t1, t2, t3}
  Panel = Panel
  NoTimer = NoTimer
  MaxChanges = 3
  MaxSessions = 2
CHECK_DEADLOCK FALSE
INVARIANTS
  TypeOK
  NewPostsHaveNoManifest
PROPERTIES
  FixedPostIsScannedAgain
  NewPostIsScanned
