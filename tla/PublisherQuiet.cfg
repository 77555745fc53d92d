SPECIFICATION FairSpec
CONSTANTS
  Runs = {r1}
  ImageCounts = {1, 2}
  StoryEnabled = TRUE
  OptionSets <- AllRuns
  Faults = {"delete"}
  MaxStarts = 3
  Overlapping = {}
  MaxOverlap = 0
CHECK_DEADLOCK FALSE
INVARIANTS
  PublishedAtMostOnce
PROPERTIES
  LivePostIsRecorded
  DryRunSendsNothing
