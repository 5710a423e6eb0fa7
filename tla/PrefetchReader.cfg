SPECIFICATION FairSpec
CONSTANTS
  NSlots = 3
  RowsPerFetch = 2
  BatchSize = 4
  RepairFloor = 2
  MaxRows = 6
  ResultSets <- ReadableResultSets
  Drivers <- ScrollDrivers
INVARIANTS HandleHasOneOwner SlotHasOneOwner
PROPERTIES ImplementsRowStream CallsReturn
