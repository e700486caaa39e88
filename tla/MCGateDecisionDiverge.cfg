\* One announced stamp fails, then the exact opposite command arrives.
SPECIFICATION Spec
CONSTANTS
  Approvals = {}
  Rejections = {r1}
  Allowed = {r1}
  Fresh = {r1}
  Authors = {alice}
  Admitted = {alice}
  NoAuthor = NoAuthor
  ApplyAttempts = 2
  MaxDeliver = 2
  MaxReadings = 1
  MaxFaults = 1
  MayPark = FALSE
CHECK_DEADLOCK FALSE
INVARIANTS
  AnnouncementNeverDiverges
