\* Three runs that overlap, all of an unreachable source, with a storage that never fails.
SPECIFICATION Spec
CONSTANTS
  None = None
  a = a
  b = b
  Runs = {r1, r2, r3}
  Ids = {a, b}
  Batches <- OutageOnly
  Limits = {0}
  MaxTime = 3
  Overlap = TRUE
  Faulty = {}
  Cancels = FALSE
  ClockSlips = FALSE
  LateWrites = {}
INVARIANT
  OutagesCounted
\* Every run ends and none starts again: the system stops.
CHECK_DEADLOCK FALSE
