SPECIFICATION Spec
CONSTANTS
  SourceSize = 16
  Sector = 2
  Prefix = TRUE
  BalancedBlock = 4
  FastBlock = 8
  BlockSize = 2
  MaxBlocks = 2
  RecordsPerChunk = 3
  Faults = {"kill", "power", "cancel", "write", "save", "sync"}
  MaxResumes = 2
  MaxCrashes = 2
  MaxHarm = 1
  SkipDuplicates = TRUE
  SaveEvery = 2
  ImageChunk = 8
  CancelPoints = {1, 2}
  QuickPoints = {1}
  Carved <- CarvedLengths
  Contents <- Letters
  MinFileSize = 2
  KindCount = 2
  RangeEnd = 16
  UnitBytes = 512
  CopyBuffer = 2
  MinSize = 1
  Sources <- AllSources
INVARIANTS TypeOK ImageFaithful MapOfThisCall IndexExact NothingMissed ReportComplete NoCopyTwice QuickFaithful QuickComplete
PROPERTIES NeverOverwritten
CHECK_DEADLOCK FALSE
