\* Rows and transactions of five rows, or two batch sizes (the default among them), a prefetch
\* value and both lengths of SQLLEN, set in any order on the database and on the connection,
\* before, between and after connects; a driver that takes autocommit back.
SPECIFICATION Spec
CONSTANTS
  Drivers <- SmallDrivers
  Batches = {1, 2}
  Prefetches = {1}
  Lengths = {TRUE, FALSE}
  MaxRows = 5
  MaxLeaks = 1
  RestoreRefused = FALSE
CONSTRAINT RowsOrOptions
INVARIANTS OptionsInForce RowsKeepTheirFate NoSessionLeft
CHECK_DEADLOCK FALSE
