SPECIFICATION FairSpec
CONSTRAINT LastAlone
CONSTANTS
  N = 3
  CheckpointEvery = 2
  Unreadable = {1}
  Flaky = {}
  GptBlocks = {0}
  d1 = d1
  d2 = d2
  Disks = {d1}
  Faults = {"kill", "power", "cancel", "pause", "write", "read", "sync", "manifest", "save", "report", "corrupt"}
  MaxSessions = 3
  MaxCrashes = 1
INVARIANTS VerifiedHere VerifiedKept
PROPERTIES CancelEnds SessionEnds
CHECK_DEADLOCK FALSE
