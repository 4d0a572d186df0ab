CONSTANTS
  Keys <- MCKeys
  Vals <- MCVals
  Bindings <- MCBindings
  NoVal = NoVal
  NoKey = 0
  Hashes <- MCHashes
  MinSize = 2
  Width = 32
SPECIFICATION FairSpec
INVARIANTS TypeOK SearchesEnd OwnsWhatItHolds UsedIsBounded RecursionIsShallow
PROPERTIES IsDictionary ResizeEnds
