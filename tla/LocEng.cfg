CONSTANTS
  MaxQueue = 3
  MaxCrashes = 2
SPECIFICATION Spec
INVARIANTS SessionAnnounced SessionSettles
