SPECIFICATION FairSpec
CONSTANTS
  Launches <- AllLaunches
  Faults = {"mktemp", "python", "thread", "nvml", "error", "write", "print", "timeout", "watchdog", "format", "source"}
INVARIANTS TypeOK OrderIsBest LaneIsTheCallers BoundToItsGpus NoTraceOfFailure StrictNeverGuesses
PROPERTIES NeverBlocks
