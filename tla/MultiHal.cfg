CONSTANTS
  NoEvent = NoEvent
  mCapacity = 2
  ModuleCount = 2
  SensorList <- MCSensorList
  OpenMayFail = FALSE
  EventKinds <- GoodKinds
  Serials = 3
  maxReads = 2
SPECIFICATION Spec
INVARIANTS RegionSafe ReadableInitialised NoMissedData NoMissedSpace
PROPERTY StreamsImplemented
