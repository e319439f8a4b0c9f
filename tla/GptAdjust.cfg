SPECIFICATION Spec
SYMMETRY SlotSymmetry
CONSTANTS
  s1 = s1
  s2 = s2
  s3 = s3
  Slots = {s1, s2, s3}
  Partitions <- SomePartitions
  SourceLast = 11
  TargetLasts = {9, 11, 13}
  EntrySectors = 1
  Faults = {"kill", "power", "write", "sync", "corrupt"}
  MaxRuns = 2
  MaxCrashes = 1
INVARIANTS TypeOK AdjustedConsistent RepeatableUnlessDropping DestinationFits CloneIsFound
PROPERTIES LayoutNeverLost
CHECK_DEADLOCK FALSE
