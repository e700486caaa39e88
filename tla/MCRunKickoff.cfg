\* One issue; one fault of any kind.
SPECIFICATION Spec
CONSTANTS
  RouteActions = {"issue_intake", "create_change", "ask_human"}
  HandleAttempts = 2
  MaxLoops = 6
  MaxFaults = 1
CHECK_DEADLOCK FALSE
INVARIANTS
  TypeOK
  WorkedOnce
  FrozenIsValidated
  DevelopmentIsCleared
  QuietHasReason
PROPERTIES
  CheckoutKept
