SPECIFICATION FairSpec
CONSTANTS
  r1 = r1
  r2 = r2
  N = 1
  Runs = {r1, r2}
  NoRun = NoRun
  Orphan = Orphan
  Quiet = 1
  MaxWait = 1
  SweepAfter = 2
  DraftMode = TRUE
  MaxFaults = 2
  MaxStaff = 1
PROPERTIES
  EveryMessageIsTakenUp
CHECK_DEADLOCK FALSE
