SPECIFICATION Spec
CONSTANTS
  Kernel = 2
  Dilation = 2
  NumSpec = 2
  CompressRatio = 2
  NumRequests = 2
  NullSlot = NullSlot
  Slots = {s1, s2}
  Chunks = {2}
  DraftlessSteps = FALSE
  Prompt <- MCPrompt
  Limit <- MCLimit
SYMMETRY SlotsSymmetry
INVARIANTS TypeOK ConvSeesOwnHistory GroupsPoolOwnKeys
CHECK_DEADLOCK FALSE
