SPECIFICATION Spec
CONSTANTS
  Sites = {s1}
  FatalSites = {s1}
  NoSite = NoSite
  Callers = {e}
  Owner = e
  Streams = {f}
  Fence = f
  IdleGate = TRUE
  Faults = {"read", "record", "query", "drain"}
  MaxSeq = 2
  MaxKernels = 1
  MaxHits = 1
  MaxSuspends = 1
  MaxLives = 2
INVARIANTS IInv FatalEvidenceStopsRank DrainedMeansReported ParkedLeavesNoCopy
PROPERTIES SettledReportIsCoherent SuspendAckIsFinal NoReadWhileAsleep
