SPECIFICATION FileSpec
CONSTANTS
  w1 = w1
  w2 = w2
  Writers = {w1, w2}
  TempName <- SharedName
  Size <- OneAndTwo
  Inodes = {n1, n2, n3, n4, n5}
  NoFile = NoFile
  Before = Before
  FileFaults = {}
CHECK_DEADLOCK FALSE
INVARIANT
  FileIsWhole
