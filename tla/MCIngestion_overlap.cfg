\* Two runs that overlap, with every storage fault, cancellation and clock slip.  Failed job
\* and health writes may be carried out later, and so may any write of a cancelled run.
SPECIFICATION Spec
CONSTANTS
  None = None
  a = a
  b = b
  Runs = {r1, r2}
  Ids = {a, b}
  Batches <- MoreBatches
  Limits = {0, 1}
  MaxTime = 2
  Overlap = TRUE
  Faulty = {"jobs", "run", "snapshot", "readHealth", "health"}
  Cancels = TRUE
  ClockSlips = TRUE
  LateWrites = {"jobs", "health"}
SYMMETRY RunSymmetry
INVARIANTS
  StoreInv
  HealthInv
  TypeOK
  SnapshotIsStored
  SuccessIsStored
  NoPhantomSuccess
  StatsAddUp
  NoPhantomOutage
  HealthConsistent
\* Every run ends and none starts again: the system stops.
CHECK_DEADLOCK FALSE
