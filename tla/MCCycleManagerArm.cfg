SPECIFICATION Spec
CONSTANTS
    Statuses = {"completed"}
    Nothing = "none"
    Programs = {p1}
    None = None
    MaxStarts = 2
PROPERTY ArmWaits
