CONSTANTS
  Orders <- MainOnly
  Values = {0}
  MaxInits = 1
  MaxStarts = 1
  MaxTicks = 1
SPECIFICATION Spec
INVARIANTS AllTasksScheduled
