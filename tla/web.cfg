CONSTANTS
    Token = {t1, t2}
    User = {u1}
    Page = {p1, p2}
    Request <- Slots
    None = None
    MaxServed = 1
    MaxCalls = 2
SYMMETRY Symmetry
SPECIFICATION WebSpec
INVARIANTS WebInv CleanPageKeepsSession
CHECK_DEADLOCK FALSE
