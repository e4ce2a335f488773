SPECIFICATION Spec
CONSTANTS
  pre = pre
  post = post
  post2 = post2
  win = win
  win2 = win2
  lead = lead
  b1 = b1
  b2 = b2
  g1 = g1
  g2 = g2
  w1 = w1
  w2 = w2
  k1 = k1
  k2 = k2
  Nobody = Nobody
  Sends = {post, post2, win, win2, lead}
  Bookings = {b1, b2}
  Phones = {g1}
  KindOf <- MCKindOf
  BookingOf <- MCBookingOf
  LeadOf <- MCLeadOf
  Old = {b1, b2}
  Thanked = {post, post2}
  OptedIn = {}
  Writers = {g1}
  Updates = {}
  Workers = {}
  Sweeps = {}
  Ticks = {k1, k2}
  WinbackCap = 1
  MaxEvents = 1
  MaxFaults = 1
  MaxOverruns = 1
CHECK_DEADLOCK FALSE
SYMMETRY Symmetry
INVARIANTS
  CapHolds
PROPERTIES
  StopIsFinal
  ImplementsOutbox
