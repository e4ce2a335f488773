\* As Memory.cfg, with one handler: an import that dies is enough.
SPECIFICATION Spec
CONSTANTS
  c1 = c1
  c2 = c2
  s1 = s1
  s2 = s2
  Past = 2
  Places = 4
  Chunks = {c1, c2}
  PlacesOf <- MCPlacesOf
  NoChunk = NoChunk
  Slots = {s1}
  Window = 2
  MinUnsummarised = 1
  MaxRun = 2
  MaxAttempts = 2
  MaxFaults = 1
INVARIANT RetriesRewind
CHECK_DEADLOCK FALSE
