SPECIFICATION Spec
CONSTANTS
  r1 = r1
  r2 = r2
  N = 2
  Runs = {r1, r2}
  NoRun = NoRun
  Orphan = Orphan
  Quiet = 1
  MaxWait = 1
  SweepAfter = 2
  DraftMode = FALSE
  MaxFaults = 1
  MaxStaff = 1
SYMMETRY Symmetry
INVARIANTS
  TypeOK
  TakenUpOnce
  NothingSkipped
  PendingIsCovered
PROPERTIES
  HoldEndsOnlyByStaff
  ImplementsTurnTaking
CHECK_DEADLOCK FALSE
