\* Two attempts and one provider fault; one call fails and its handler gives
\* up; no rule action or dispatch is lost.
SPECIFICATION FairSpec
CONSTANTS
  Budget = 2
  TransientCap = 1
  HandleAttempts = 1
  MaxLoops = 6
  MaxPatches = 1
  MaxErrors = 1
  MaxMishaps = 0
CHECK_DEADLOCK FALSE
PROPERTIES
  RunConcludes
