CONSTANTS
  MaxQueue = 2
  MaxCrashes = 2
SPECIFICATION Spec
INVARIANT RestartKeepsMode
