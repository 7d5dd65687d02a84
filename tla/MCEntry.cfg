SPECIFICATION EntrySpec
CONSTANTS
    Entries = {e1, e2}
    entry = e1
    Kinds = {"plain", "training", "recheck", "replay", "detail"}
    Commands = {c1}
    MaxTasks = 2
    MaxFinished = 1
    MaxGen = 2
    Oldest = 7
    Late = 3
    Gaps = {1, 3}
    SilenceBudget = 3
    PausedBudget = 5
    Expected = 3
    Leeway = 1
    ActiveTimeout = 2
    QuietWait = 3
    HighLimit = 3
    IdleCeiling = 4
    Zombie = 6
    GhostAge = 3
    GhostSilence = 2
    CycleLimit = 6
    FreshSave = 2
    HighSave = 4
    External = FALSE
INVARIANTS TaskWriterExclusion TaskWritesLiveManager OneReplayAlive StaleIsSilent SilenceKnown
PROPERTIES CancelSettles UnloadEnds RegistrySpec DeadSensorEnds
CHECK_DEADLOCK FALSE
