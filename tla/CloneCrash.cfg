SPECIFICATION Spec
VIEW View
SYMMETRY DiskSymmetry
CONSTRAINT OneDiskLonger
CONSTANTS
  N = 3
  CheckpointEvery = 2
  Unreadable = {1}
  Flaky = {2}
  GptBlocks = {0}
  d1 = d1
  d2 = d2
  Disks = {d1, d2}
  Faults = {"kill", "power", "write", "save"}
  MaxSessions = 4
  MaxCrashes = 2
INVARIANTS TypeOK CloneFaithful ResumeNeverRefused AdjustedMeansAdjusted ContentsFaithful SavedStateSafe
PROPERTIES KeepsPromise
CHECK_DEADLOCK FALSE
