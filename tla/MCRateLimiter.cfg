\* Three tasks on two permits, with jitter and cancellation.
SPECIFICATION FairSpec
CONSTANTS
  Tasks = {t1, t2, t3}
  MaxConcurrent = 2
  MinInterval = 3
  MaxJitter = 1
  Never = Never
INVARIANTS
  TypeOK
  PermitsConserved
  PacingInv
PROPERTIES
  ImplementsPacedAccess
  EveryoneIsServed
