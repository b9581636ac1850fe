SPECIFICATION MCSpec
CONSTANTS
    Types = {"A", "M", "O"}
    Delays <- MCDelays
    Faulty = {"M"}
    MaxCmds = 1
    MaxData = 1
    MaxAge = 200
    Readings <- MCReadings
    AxisFiles <- MCAxisFiles
    Pids = {1, 2}
    Profiles = {"p"}
INVARIANTS HardwareFollows RatesServed WokenWhenNeeded SamplesFaithful StartsClean
PROPERTY DaemonAnswers
