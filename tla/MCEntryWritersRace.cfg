SPECIFICATION Spec
CONSTANTS
    Entries = {e1, e2}
    entry = e1
    Kinds = {"plain", "training", "recheck", "replay", "detail"}
    Commands = {c1}
    MaxTasks = 1
    MaxFinished = 1
    MaxGen = 2
INVARIANT CommandTaskExclusion
CHECK_DEADLOCK FALSE
