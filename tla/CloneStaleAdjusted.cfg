SPECIFICATION Spec
VIEW View
CONSTANTS
  N = 2
  CheckpointEvery = 1
  Unreadable = {}
  Flaky = {}
  GptBlocks = {0}
  d1 = d1
  d2 = d2
  Disks = {d1}
  Faults = {"kill"}
  MaxSessions = 4
  MaxCrashes = 2
INVARIANTS AdjustedIsTrue
CHECK_DEADLOCK FALSE
