\* Commands, readings, retries, redeliveries and a park race for the decision.
SPECIFICATION FairSpec
CONSTANTS
  Approvals = {a1}
  Rejections = {}
  Allowed = {a1}
  Fresh = {a1}
  Authors = {alice, mallory}
  Admitted = {alice}
  NoAuthor = NoAuthor
  ApplyAttempts = 2
  MaxDeliver = 2
  MaxReadings = 2
  MaxFaults = 3
  MayPark = TRUE
CHECK_DEADLOCK FALSE
INVARIANTS
  TypeOK
  ThreadTellsDecision
PROPERTIES
  SettledOnceAsAsked
  DecidedGateIsLeft
  ApprovedRunStarts
