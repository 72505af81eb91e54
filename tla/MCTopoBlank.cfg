SPECIFICATION Spec
CONSTANTS
  Launches <- OffLaunches
  Faults = {}
INVARIANTS BlankIsUnset
