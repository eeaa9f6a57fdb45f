CONSTANTS
    Attempt = {a1, a2, a3, a4, a5}
    Request = {q1, q2, q3}
    LIMIT = 2
    WINDOW = 2
    MaxTime = 4
SPECIFICATION ThrottleSpec
INVARIANTS ThrottleInv GuessesBounded
SYMMETRY Symmetry
CHECK_DEADLOCK FALSE
