SPECIFICATION Spec
CONSTANTS
  Readers = {d1, d2}
  Runs = {r1, r2}
  d1 = d1
  d2 = d2
  r1 = r1
  r2 = r2
  Binds <- SmallBinds
  Data <- SmallData
  Errors = {"socket_error"}
  MaxBatches = 1
  MaxCalls = 2
  MaxFrames = 1
  ApplyPolls = 1
CHECK_DEADLOCK FALSE
INVARIANTS NothingLeaks RowsRunOnceInOrder CancelStopsRuns IngestIsVisible IngestSendsOnce CreateOwnsTable
PROPERTIES CallsReturn
