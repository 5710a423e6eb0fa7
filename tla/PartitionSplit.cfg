SPECIFICATION Spec
CONSTANTS
  Half = 8
  PartMax = 4
  AutoMax = 3
  AutoBlocks = 2
  AutoRows = 3
  HashMax = 7
  Tables <- SomeTables
  Requests = {0, 1, 2, 3, 4, 5}
INVARIANTS RowIsReadOnce
