CONSTANTS
  NoEvent = NoEvent
  mCapacity = 1
  ModuleCount = 2
  SensorList <- MCSensorList
  OpenMayFail = FALSE
  EventKinds <- AllKinds
  Serials = 2
  maxReads = 1
SPECIFICATION FairSpec
PROPERTY EveryEventTaken
