SPECIFICATION FairSpec
CONSTANTS
  NConn = 2
  Cap = 2
  Slices <- TwoBatches
  Lone <- None
  MayRunOut = TRUE
INVARIANTS SuccessMeansAllRows
