CONSTANTS
  Keys <- MCKeys
  Vals <- MCVals
  Bindings <- MCBindings
  NoVal = NoVal
  NoKey = 0
  Hashes <- MCHashes
  MinSize = 2
  Width = 32
SPECIFICATION Spec
INVARIANT ActiveCounts
