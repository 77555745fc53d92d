SPECIFICATION Spec
CONSTANTS
  Runs = {r1, r2}
  ImageCounts = {0, 1, 2, 11}
  StoryEnabled = TRUE
  OptionSets <- PlainAndStrict
  Faults = {"crash", "write", "lost"}
  MaxStarts = 4
  Overlapping = {1}
  MaxOverlap = 2
CHECK_DEADLOCK FALSE
INVARIANTS
  TypeOK
  PublishedPostIsLive
  RecordedCarouselIsComplete
  PublishedLeavesNoImages
PROPERTIES
  PublishedIsFinal
  ImplementsLifecycle
