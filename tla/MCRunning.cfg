SPECIFICATION PartsSpec
CONSTANTS
    HoursPerDay = 3
    Windows <- WindowsDef
    MaxCycles = 2
    MaxTold = 2
    MaxStops = 1
    cotton = cotton
    quick = quick
    Programs = {cotton, quick}
    MaxMinutes = 2
    MaxPercent = 1
    MaxPhases = 2
    None = None
    Estimates <- EstimatesDef
    GiveUp = 3
    MaxBurst = 1
    MaxFinishes = 3
    MaxRunsEver = 2
    MaxTokens = 2
    MaxScans = 2
    MaxApplies = 2
    Room = 1
    RowsInFile <- RowsInFileDef
    Readings <- ReadingsDef
    MaxRead = 3
    MaxRows = 4
    MaxReadings = 4
    Quiet = 2
    Active = 4
    Limit = 6
    Bridge = 3
    EdgeGap = 4
    MinSamples = 2
    MaxStep = 4
    MaxSpan = 12
    DenseStep = 2
INVARIANTS HeldAndSentOnce HeardAsShown TumbledOnce ImportedAsReviewed RunsOfOneAppliance
PROPERTY DeliveredInTime
SYMMETRY Interchangeable
CHECK_DEADLOCK FALSE
