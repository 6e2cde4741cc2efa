SPECIFICATION Spec
CONSTANTS
  NSinks = 2
  Payloads = {p1, p2}
  Cursors = {c1, c2}
  MaxRecords = 2
  MaxBatches = 2
  MaxRuns = 2
CHECK_DEADLOCK FALSE
INVARIANTS
  FailureUndoesAll
  ReplayReproduces
