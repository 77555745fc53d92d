SPECIFICATION Spec
CONSTANTS
  Runs = {r1}
  ImageCounts = {1}
  StoryEnabled = FALSE
  OptionSets <- SharingRun
  Faults = {"crash"}
  MaxStarts = 6
  Overlapping = {}
  MaxOverlap = 0
CHECK_DEADLOCK FALSE
PROPERTIES
  RecordedShareIsNotRepeated
