CONSTANTS
  Programs = {{"ton"}, {"tof"}, {"tp"}, {"tonr"}, {"tofr"}}
  MaxTimers = 1
  Presets = {0, 2, 5}
  MsPerSec = 4
  NsPerMs = 11
  Width32 = 32
  Width64 = 1024
  MaxTime = 10
SPECIFICATION Spec
CHECK_DEADLOCK FALSE
INVARIANTS TypeOK TonrNeverOvercounts
PROPERTIES TonNeverEarly TonNeverLate TofHoldsOutput TofReleases
   TpPulseEnds TofrHoldsOutput
