SPECIFICATION Spec
CONSTANTS
  Sites = {s1}
  FatalSites = {s1}
  NoSite = NoSite
  Callers = {e}
  Owner = e
  Streams = {f}
  Fence = f
  IdleGate = TRUE
  Faults = {"read"}
  MaxSeq = 2
  MaxKernels = 1
  MaxHits = 1
  MaxSuspends = 0
  MaxLives = 1
INVARIANTS WaitIdleMeansReported
