SPECIFICATION FairSpec
CONSTANTS
  Sites = {s1}
  FatalSites = {s1}
  NoSite = NoSite
  Callers = {e}
  Owner = e
  Streams = {f}
  Fence = f
  IdleGate = TRUE
  Faults = {}
  MaxSeq = 2
  MaxKernels = 1
  MaxHits = 1
  MaxSuspends = 1
  MaxLives = 1
PROPERTIES HitsGetReported IdleReaderParks StopEndsReader
