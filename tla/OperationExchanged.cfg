SPECIFICATION Spec
CONSTANTS
  Machines <- Secondary
  Source = "s"
  Others <- Spare
  Chunk = 5
  GptTail = 1
  Alignment = 2
  TailReserve = 3
  MinFree = 1
  ResizeBuffer = 1
  Broken = {1, 9}
  Faults <- Exchanges
  MaxOps = 1
PROPERTIES ConfirmedDisksOnly
CHECK_DEADLOCK FALSE
