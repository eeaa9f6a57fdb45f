CONSTANTS
    User = {u1, u2}
    Region = {r1, r2}
    Named = {r1}
    Slot = {q1, q2}
    Session = {s1}
    None = None
    Keep = Keep
SYMMETRY Symmetry
SPECIFICATION Spec
INVARIANTS IInv InStep
PROPERTIES RegionlessAdmins AdminLeft
CHECK_DEADLOCK FALSE
