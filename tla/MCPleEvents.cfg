SPECIFICATION LifeSpec
CONSTANTS
  DPSize = 1
  TPSize = 1
  NumLayers = 1
  MaxSteps = 3
  MaxConcurrentBatches = 2
  Faults = {}
INVARIANTS NeverFails
CHECK_DEADLOCK FALSE
