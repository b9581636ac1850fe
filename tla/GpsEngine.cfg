CONSTANTS
  Clients = {c1, c2}
  Kind = "DS"
  StartResults = {"SUCCESS", "BUSY", "UNSUPPORTED", "ERROR", "OTHER"}
  TimersMayFail = TRUE
  MaxRetryChains = 2
  MaxGiveUps = 3
  Conns = {"c1", "c2"}
  RouteQueue = 2
  RouteRestarts = 1
  HalDevices <- MCDevices
  HalQueue = 2
  HalCrashes = 1
  HalUpdates = 2
  BaseAdapters = {"a", "b", "c"}
  BaseEvents <- MCEvents
  BaseSlots = 2
  BaseQueue = 2
  BaseCrashes = 1
  BaseCalls = 1
SPECIFICATION MCSpec
INVARIANTS DataCallSound AdaptersServed ModemInformed ConnInOneMachine
  ConfigAsWritten SentencesCoherent
