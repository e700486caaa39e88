\* A routing coordinator decides to develop; nothing fails.
SPECIFICATION Spec
CONSTANTS
  RouteActions = {"create_change", "dev_from_task"}
  HandleAttempts = 2
  MaxLoops = 6
  MaxFaults = 0
CHECK_DEADLOCK FALSE
INVARIANTS
  DevelopmentNeedsApproval
