\* Three runs one after another; the job writes may fail.
SPECIFICATION Spec
CONSTANTS
  None = None
  a = a
  b = b
  Runs = {r1, r2, r3}
  Ids = {a, b}
  Batches <- AllBatches
  Limits = {0}
  MaxTime = 3
  Overlap = FALSE
  Faulty = {"jobs"}
  Cancels = FALSE
  ClockSlips = FALSE
  LateWrites = {}
INVARIANTS
  SequentialInv
  CountsTrailingFailures
  FreshestContent
PROPERTIES
  HealthIsAtomic
\* Every run ends and none starts again: the system stops.
CHECK_DEADLOCK FALSE
