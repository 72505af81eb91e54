SPECIFICATION FairSpec
CONSTANTS
  DPSize = 1
  TPSize = 2
  NumLayers = 1
  MaxSteps = 2
  MaxConcurrentBatches = 2
  Faults = {"weights", "serve", "hang", "worker", "timeout", "signal"}
INVARIANTS ReadsOwnStep NoDuplicate ReadyMeansRegistered NeverStuck IInv
PROPERTIES BufferHeld InputsHeld CloseReaps EveryStepServed
CHECK_DEADLOCK FALSE
