CONSTANTS
    Page = {"users", "devices", "schedules", "regions"}
    Row = {x, y}
    Value = {v, w}
    None = None
    Keep = Keep
    MaxCalls = 2
    MaxOthers = 1
SYMMETRY Symmetry
SPECIFICATION Spec
INVARIANTS FormInv ListFollows
PROPERTIES SavedAsShown OthersEditsSurvive NotMadeTwice
CHECK_DEADLOCK FALSE
