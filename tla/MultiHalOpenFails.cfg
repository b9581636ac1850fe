CONSTANTS
  NoEvent = NoEvent
  mCapacity = 1
  ModuleCount = 2
  SensorList <- MCSensorList
  OpenMayFail = TRUE
  EventKinds <- GoodKinds
  Serials = 3
  maxReads = 2
SPECIFICATION Spec
INVARIANT DeliveredByOwner
