\* Two runs one after another; the job write and the health read may fail.
SPECIFICATION Spec
CONSTANTS
  None = None
  a = a
  b = b
  Runs = {r1, r2}
  Ids = {a, b}
  Batches <- FewBatches
  Limits = {0}
  MaxTime = 3
  Overlap = FALSE
  Faulty = {"jobs", "readHealth"}
  Cancels = FALSE
  ClockSlips = FALSE
  LateWrites = {}
PROPERTY
  FailedWriteKeepsLastSuccess
\* Every run ends and none starts again: the system stops.
CHECK_DEADLOCK FALSE
