\* Two triggers, the first requests of the process.
SPECIFICATION Spec
CONSTANTS
  Requests = {r1, r2}
  Triggers = {r1, r2}
  Configured = FALSE
  None = None
INVARIANT
  OneRegistry
CHECK_DEADLOCK FALSE
