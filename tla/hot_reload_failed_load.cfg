CONSTANTS
  Files <- MCFiles
  Environments <- OnlyCalm
SPECIFICATION FairSpec
INVARIANT FailureKeepsProgram
CHECK_DEADLOCK FALSE
