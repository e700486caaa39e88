\* The window between the classifier's reading and the release of its slot.
SPECIFICATION Spec
CONSTANTS
  Messages = {m1, m2}
  Permitted = {m1, m2}
  Fresh = {m1, m2}
  Loops = {l1}
  NoMsg = NoMsg
  Budget = 3
  MaxRepeats = 0
  MaxFaults = 0
  MaxLosses = 0
CHECK_DEADLOCK FALSE
INVARIANTS
  LossIsSurfaced
