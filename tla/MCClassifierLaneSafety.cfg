\* Two comments by permitted authors and one by a stranger, one loop
\* identity to spare, one upset: a failed action or write, a comment
\* delivered again or a loss of RULE_STATE.
SPECIFICATION Spec
CONSTANTS
  Messages = {m1, m2, m3}
  Permitted = {m1, m2}
  Fresh = {m1, m2, m3}
  Loops = {l1, l2, l3}
  NoMsg = NoMsg
  Budget = 2
  MaxRepeats = 1
  MaxFaults = 1
  MaxLosses = 1
SYMMETRY Interchangeable
CHECK_DEADLOCK FALSE
INVARIANTS
  TypeOK
  OneClassifierInFlight
  SpendWithinBudget
  DispatchableSlotIsWhole
  JudgedIsAttributed
PROPERTIES
  LedgerOnlyGrows
