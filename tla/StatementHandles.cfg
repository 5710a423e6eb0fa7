SPECIFICATION Spec
CONSTANTS
  Statements = {1}
  Streams = {t1, t2}
  Handles = {h1, h2, h3}
  t1 = t1
  t2 = t2
  h1 = h1
  h2 = h2
  h3 = h3
  Queries = {1}
  MaxEpoch = 1
  TxnCapable = TRUE
SYMMETRY Interchangeable
INVARIANTS RefsAreOwners PreparedIsCurrent StreamsKeepTheirResult RollbackIsNoticed
