SPECIFICATION FairSpec
CONSTANTS
  Runs = {r1, r2}
  ImageCount = 3
  note = note
  folder = folder
  Others <- NoteAndFolder
  Subdirs <- OnlyFolder
  Reused = TRUE
  Faults = {"crash", "rename", "io", "write"}
  MaxStarts = 4
CHECK_DEADLOCK FALSE
INVARIANTS
  TypeOK
  ImagesAreKept
  RemovedOnlyWhenArchived
  LoggedOnce
PROPERTIES
  ArchiveSettles
