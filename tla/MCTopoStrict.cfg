SPECIFICATION Spec
CONSTANTS
  Launches <- StrictLaunches
  Faults = {}
INVARIANTS StrictRefuses
