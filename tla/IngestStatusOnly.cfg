SPECIFICATION Spec
CONSTANTS
  Streams <- SmallStreams
  MaxRows = 5
  GroupRows = 4
  ChunkRows = 3
  Servers <- StatusOnlyServers
INVARIANTS NoDuplicateRows
