SPECIFICATION Spec
CONSTANTS
    Statuses = {"completed"}
    Nothing = "none"
    Programs = {p1}
    None = None
    MaxStarts = 1
PROPERTY UserPauseStays
