SPECIFICATION PartsSpec
CONSTANTS
    Entries = {e1, e2}
    Kinds = {"plain", "detail"}
    MaxTasks = 3
    MaxFinished = 1
    None = None
    cotton = cotton
    quick = quick
    wool = wool
    Names = {cotton, quick, wool}
    Cycles = {1, 2, 3, 4, 5, 6}
    Short = {5}
    Blank = {6}
    Groups = {g, h}
    Coroutines = {j, k}
    StartNames = {cotton, quick}
    StartList <- StartListDef
    StartLabel <- StartLabelDef
    MaxRev = 1
    MaxEdits = 2
    MaxBegun = 2
    MaxBoots = 3
    Filers = {x, y}
    SaveEvery = 1
    MaxRuns = 2
    MaxSamples = 1
    MaxSetups = 2
    Profiles = {cotton, quick}
    Timed = {cotton}
    NoName = NoName
    Scores = {3, 9}
    Threshold = 4
    Decisive = 6
    Lead = 2
    Persistence = 3
    Judged = 1
    Trend = 2
INVARIANTS RunningIsReachable SampleIsOwn EnvelopeFresh FiledAndKept OdometerExact RunStoredOnce EtaIsOwn
PROPERTIES CancelledWins ShownIsEarned SteadyIsShown
SYMMETRY Interchangeable
CHECK_DEADLOCK FALSE
