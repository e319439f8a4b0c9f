SPECIFICATION Spec
VIEW View
CONSTANTS
  N = 3
  CheckpointEvery = 2
  Unreadable = {1}
  Flaky = {}
  GptBlocks = {0}
  d1 = d1
  d2 = d2
  Disks = {d1}
  Faults = {"kill"}
  MaxSessions = 2
  MaxCrashes = 1
INVARIANTS VerifyRejectsOnlyDamage
CHECK_DEADLOCK FALSE
