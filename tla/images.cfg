CONSTANTS
    Region = {r1}
    Request = {q1, q2, q3}
    MaxMs = 2
    None = None
SYMMETRY Symmetry
SPECIFICATION Spec
INVARIANTS ImageInv ImageIsThere NothingLeftBehind
CHECK_DEADLOCK FALSE
