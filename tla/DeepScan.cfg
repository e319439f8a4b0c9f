SPECIFICATION Spec
CONSTANTS
  Ranges <- TwoRanges
  Candidates <- Disk
  Chunk = 2
  Overlap = 1
  Sector = 2
  WorkerChoices = {1, 2}
  Faults = {"kill", "cancel", "write", "save"}
INVARIANTS TypeOK SessionSafe IndexComplete WriteErrorReported
PROPERTIES OffsetNeverBack
CHECK_DEADLOCK FALSE
