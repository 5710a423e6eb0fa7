SPECIFICATION Spec
CONSTANTS
  Patterns <- MCPatterns
  Names <- MCNames
  Servers <- MCServers
  Queries <- MCQueries
  QuestServers <- MCQuestServers
  Drivers <- MCDrivers
  TypeCap = 16
  Texts <- MCTexts
  WideUnits <- MCWideUnits
  RepairedTexts <- WideRepairs
  Caps <- MCCaps
  MostBytes = 32000
  Values <- MCValues
  Dicts <- MCDicts
  Quirks <- MCQuirks
  RowsBound = 2
  NarrowTexts = FALSE
  Infos <- MCInfos
  Fields <- MCFields
  Cells <- MCCells
  Options <- MCOptions
  Clients <- MCClients
  SomeAttributes <- MCAttributes
  Blocks <- MCBlocks
  Tunings <- MCTunings
  Failures <- MCFailures
  QwpValues <- MCQwpValues
  LongMax = 7
  SomeTargets <- MCTargets
  Int32Max = 7
  LongValue = 3
  MaxVarlen = 5
  TextRoom = 6
INVARIANTS RepairIsWhole
CHECK_DEADLOCK FALSE
