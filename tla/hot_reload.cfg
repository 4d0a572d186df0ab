CONSTANTS
  Files <- MCFiles
  Environments <- CalmAndRough
SPECIFICATION FairSpec
INVARIANTS TypeOK StaleIsNoticed LostProgramIsRetried
PROPERTIES ScansGoOn UpdatesArrive
CHECK_DEADLOCK FALSE
