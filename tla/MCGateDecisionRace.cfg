\* Two exact commands race; nothing parks and nothing fails.
SPECIFICATION FairSpec
CONSTANTS
  Approvals = {a1}
  Rejections = {r1}
  Allowed = {a1, r1}
  Fresh = {a1, r1}
  Authors = {alice}
  Admitted = {alice}
  NoAuthor = NoAuthor
  ApplyAttempts = 2
  MaxDeliver = 2
  MaxReadings = 0
  MaxFaults = 0
  MayPark = FALSE
CHECK_DEADLOCK FALSE
PROPERTIES
  RaceNeverWedges
