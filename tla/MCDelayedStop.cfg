SPECIFICATION Spec
CONSTANTS
    Cap = 6
    PulseMax = 1
    OutageCeiling = 1
    QuietPulses = FALSE
    Steps = {1, 2}
    Powers = {0, 1, 2}
    AntiWrinkle = FALSE
    DelayDetect = TRUE
    Dishwasher = TRUE
    StartDuration = 1
    PauseAfter = 1
    EndAfter = 2
    OffDelay = 3
    HardQuiet = 3
    SmartDebounce = 2
    DropAfter = 3
    OrphanWait = 3
    SpikeAfter = 2
    MaxCycle = 5
    MinComplete = 1
    Preroll = 1
    BandConfirm = 1
    DelayTimeout = 3
    TrueOffLimit = 1
    PausedOffLimit = 1
    LockRelease = 2
    BurstLimit = 1
    FloorBurst = 2
    AWIdle = 2
    AWMax = 3
PROPERTY WaitRecordsNothing
