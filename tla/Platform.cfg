CONSTANTS
    Fds = {"f", "g"}
    Whats = {1, 2}
    Timeouts <- MCTimeouts
    MaxTime = 1
    Quotas <- MCQuotas
    Objects = {"a", "b"}
    Handles = {1, 2}
    Sizes = {"s", "t"}
    MaxHandles = 2
    Sensors <- MCSensors
    WakeUpTypes = {8, 17}
    MaxLives = 3
    NumCameras = 1
    IsoValues = {100, 200}
    ShutterSpeeds = {30}
    CapabilitySets <- MCCapabilitySets
    Threads = {"t", "u"}
    Colours <- MCColours
    Flashes <- MCFlashes
    MaxBrightness = 100
    LCD_BRIGHTNESS_MIN = 10
    MaxLosses = 1
SPECIFICATION Spec
INVARIANTS
    VectorsSound
    NothingSleptOver
    BuffersAccounted
    DeathIsNoticed
    CameraFaithful
    ShowsLastRequest
PROPERTIES
    DeliversEarliest
CHECK_DEADLOCK FALSE
