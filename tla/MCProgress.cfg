\* The bounds of each component are in the module.
SPECIFICATION FairSpec
CONSTANTS
  m1 = m1
  m2 = m2
  m3 = m3
  l1 = l1
  NoMsg = NoMsg
CHECK_DEADLOCK FALSE
PROPERTIES
  LaneReopens
  PendingNeverStuck
  GateIsHeard
