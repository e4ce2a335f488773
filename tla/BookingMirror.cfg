SPECIFICATION FairSpec
CONSTANTS
  b1 = b1
  b2 = b2
  d1 = d1
  d2 = d2
  Nothing = Nothing
  Bookings = {b1}
  Rooms <- MCRooms
  Days = {d1, d2}
  MaxChanges = 3
  MaxFaults = 1
CHECK_DEADLOCK FALSE
INVARIANTS
  TypeOK
  DivergenceIsTold
  NoTaskForTheDead
PROPERTIES
  EveryEventIsNews
  EveryItemIsAcked
