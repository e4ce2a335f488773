SPECIFICATION FairSpec
CONSTANTS
  m1 = m1
  m2 = m2
  Msgs = {m1, m2}
  MaxTries = 2
  MaxCrashes = 1
  Slow = {m2}
INVARIANTS
  TypeOK
  TranscriptIsReal
  FailureStaysHealable
PROPERTIES
  StatusOnlyClimbs
  NeverResent
  QueuedIsResolved
CHECK_DEADLOCK FALSE
