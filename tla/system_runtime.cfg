CONSTANTS
  Orders <- AllOrders
  Values = {0, 1}
  MaxInits = 2
  MaxStarts = 3
  MaxTicks = 3
SPECIFICATION Spec
INVARIANTS  NoMachineAfterStop 
