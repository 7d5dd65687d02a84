SPECIFICATION Spec
CONSTANTS
    Statuses = {"completed"}
    Nothing = "none"
    Programs = {p1, p2}
    None = None
    MaxStarts = 1
INVARIANT PickIsKept
