\* One commit cannot be recorded; the run goes on.
SPECIFICATION Spec
CONSTANTS
  Budget = 1
  TransientCap = 0
  HandleAttempts = 3
  MaxLoops = 3
  MaxPatches = 2
  MaxErrors = 1
  MaxMishaps = 0
CHECK_DEADLOCK FALSE
INVARIANTS
  DeliveredIsVerified
