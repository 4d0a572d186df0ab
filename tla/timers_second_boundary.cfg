CONSTANTS
  Programs = {{"ton"}}
  MaxTimers = 1
  Presets = {3}
  MsPerSec = 4
  NsPerMs = 11
  Width32 = 32
  Width64 = 1024
  MaxTime = 10
SPECIFICATION Spec
PROPERTY TonDelay
CHECK_DEADLOCK FALSE
