SPECIFICATION FairSpec
CONSTANTS
  pre = pre
  post = post
  post2 = post2
  win = win
  win2 = win2
  lead = lead
  b1 = b1
  b2 = b2
  g1 = g1
  g2 = g2
  w1 = w1
  w2 = w2
  k1 = k1
  k2 = k2
  Nobody = Nobody
  Sends = {pre}
  Bookings = {b1}
  Phones = {g1, g2}
  KindOf <- MCKindOf
  BookingOf <- MCBookingOf
  LeadOf <- MCLeadOf
  Old = {}
  Thanked = {}
  OptedIn = {g1}
  Writers = {}
  Updates <- MCUpdates
  Workers = {w1, w2}
  Sweeps = {w2}
  Ticks = {k1}
  WinbackCap = 1
  MaxEvents = 2
  MaxFaults = 1
  MaxOverruns = 0
CHECK_DEADLOCK FALSE
INVARIANTS
  TypeOK
PROPERTIES
  OutcomeIsFinal
  SilentAfterCancel
  DeadRowsEnd
  SweepHeals
