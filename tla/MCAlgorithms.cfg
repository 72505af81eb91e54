SPECIFICATION Spec
CONSTANTS
  NgramSize = 3
  EOS = EOS
  MaxTotalTokens = 8
INVARIANTS NGramKeys TableHoldsCheckpoint HeadsAreDisjoint DelayedCombine CaptureOwnTokens SelectionIsCausal CalibrationIsSafe RunnerIsComplete
CHECK_DEADLOCK FALSE
