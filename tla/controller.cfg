CONSTANTS
  FieldBits = 4
  CellBits = 2
  MemBytes = 12
  MaxTimers = 2
  MaxCount = 3
  Builds = {"prototype", "legacy"}
  Clock <- MCClock
  Outcomes = {0, 128}
  Sessions <- MCSessions
  Directories <- MCDirectories
  PcStart = 16
  MaxInstructions = 60
SPECIFICATION Spec
INVARIANTS TypeOK  CountersAgree  LogShowsSource
  RunsAsAsked 
PROPERTIES BlocksSpec  StringsMatchReference
