SPECIFICATION FairSpec
CONSTANTS
  s1 = s1
  s2 = s2
  e1 = e1
  m2 = m2
  k1 = k1
  k2 = k2
  Nobody = Nobody
  Tasks = {s1, e1, m2}
  Agendas <- LiveAgendas
  Batch <- MCBatch
  Ask <- MCAsk
  NBatches = 2
  MaxOpen = 1
  MaxCalls = 2
  Ticks = {k1}
  MaxFaults = 1
PROPERTIES
  EveryOpenTaskIsChased
