SPECIFICATION Spec
CONSTANTS
  Sites = {s1}
  FatalSites = {s1}
  NoSite = NoSite
  Callers = {e}
  Owner = e
  Streams = {f, x}
  Fence = f
  IdleGate = TRUE
  Faults = {"read"}
  MaxSeq = 2
  MaxKernels = 1
  MaxHits = 2
  MaxSuspends = 0
  MaxLives = 1
PROPERTIES ContractSpec
