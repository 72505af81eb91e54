SPECIFICATION Spec
CONSTANTS
  Sites = {s1, s2}
  FatalSites = {s1}
  NoSite = NoSite
  Callers = {e, t}
  Owner = e
  Streams = {f}
  Fence = f
  IdleGate = TRUE
  Faults = {}
  MaxSeq = 4
  MaxKernels = 1
  MaxHits = 1
  MaxSuspends = 0
  MaxLives = 1
INVARIANTS ParkedMeansReported NoLostWakeup
