CONSTANTS
  MemWords = 6
  RegValues = 2
  Args <- MCArgs
  Images <- Programs
  Sites <- Directories
  MaxInstructions = 3
SPECIFICATION FairSpec
INVARIANTS TypeOK ScanIsShared OneScanAfterStop
PROPERTIES MismatchMeansChange OperandsMatch StopEndsRun
