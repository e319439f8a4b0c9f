SPECIFICATION FairSpec
CONSTANTS
  Ranges <- OneRange
  Candidates <- OneCandidate
  Chunk = 2
  Overlap = 1
  Sector = 2
  WorkerChoices = {1, 2}
  Faults = {"cancel", "pause", "write", "save"}
PROPERTIES CancelEnds ScanEnds
CHECK_DEADLOCK FALSE
