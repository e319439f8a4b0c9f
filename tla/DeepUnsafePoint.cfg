SPECIFICATION Spec
CONSTANTS
  Ranges <- TwoRanges
  Candidates <- Disk
  Chunk = 2
  Overlap = 1
  Sector = 2
  WorkerChoices = {2}
  Faults = {"kill"}
INVARIANTS ResumesAtSafePoint
CHECK_DEADLOCK FALSE
