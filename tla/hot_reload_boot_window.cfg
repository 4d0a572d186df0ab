CONSTANTS
  Files <- MCFiles
  Environments <- OnlyEarly
SPECIFICATION FairSpec
PROPERTY Converges
CHECK_DEADLOCK FALSE
