SPECIFICATION Spec
CONSTANTS
  Machines <- AllMachines
  Source = "s"
  Others <- Spare
  Chunk = 5
  GptTail = 1
  Alignment = 2
  TailReserve = 3
  MinFree = 1
  ResizeBuffer = 1
  Broken = {1, 9}
  Faults <- Together
  MaxOps = 2
INVARIANTS TypeOK NothingLeftBehind RestorePlanKept
PROPERTIES WritesGuarded CompletionHonest ShrinkSafe
CHECK_DEADLOCK FALSE
