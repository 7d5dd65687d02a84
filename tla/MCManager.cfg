SPECIFICATION PartsSpec
CONSTANTS
    Statuses = {"completed"}
    Nothing = "none"
    Programs = {p1}
    None = None
    MaxStarts = 2
    Readers = {r1, r2}
    Writer = Writer
    Nobody = Nobody
    Enough = 1
    MaxConfirms = 1
    MaxIndexes = 2
    MaxReads = 2
    MaxWrites = 2
INVARIANTS OpenCycleIntact MatchOfItsCycle LabelIsOwn AnnouncedEndsOnce EndExpires UserPauseHolds ReadsShowWrites
PROPERTY SnapshotKept
SYMMETRY Interchangeable
