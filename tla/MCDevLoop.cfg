\* Two attempts and two commits; one trouble: a failed call, after which a
\* station tries again, a failed rule action, a dropped dispatch or a restart.
SPECIFICATION Spec
CONSTANTS
  Budget = 2
  TransientCap = 0
  HandleAttempts = 2
  MaxLoops = 7
  MaxPatches = 2
  MaxErrors = 1
  MaxMishaps = 1
CHECK_DEADLOCK FALSE
INVARIANTS
  OneBaton
  SpendWithinBudget
  DeliveredIsProven
PROPERTIES
  WorkIsHandedOn
