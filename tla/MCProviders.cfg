\* Two triggers and a reader, all of them the first requests of the process.
SPECIFICATION Spec
CONSTANTS
  Requests = {r1, r2, r3}
  Triggers = {r1, r2}
  Configured = TRUE
  None = None
PROPERTIES
  StorageSettles
  RegistrySettles
\* Every request is served once: the system stops.
CHECK_DEADLOCK FALSE
