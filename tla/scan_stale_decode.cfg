CONSTANTS
  MemWords = 6
  RegValues = 2
  Args <- MCArgs
  Images <- Programs
  Sites <- OnlyPatching
  MaxInstructions = 4
SPECIFICATION Spec
PROPERTY ExecutedIsFetched
