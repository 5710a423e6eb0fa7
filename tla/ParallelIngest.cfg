\* Three slices in two batches over a queue of two; the batch of one slice is a lone row.
SPECIFICATION FairSpec
CONSTANTS
  NConn = 3
  Cap = 2
  Slices <- Short
  Lone <- LoneFirst
  MayRunOut = FALSE
INVARIANTS SuccessMeansAllRows BlameIsNotCollateral EachSliceOnce FailedShareIsRolledBack BuffersLiveWithTheirSlices
PROPERTIES CallReturns
