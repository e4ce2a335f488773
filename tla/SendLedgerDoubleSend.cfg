SPECIFICATION Spec
CONSTANTS
  m1 = m1
  Msgs = {m1}
  MaxTries = 2
  MaxCrashes = 0
  Slow = {}
INVARIANTS
  NeverDoubleSent
CHECK_DEADLOCK FALSE
