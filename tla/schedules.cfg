CONSTANTS
    d1 = d1
    Schedule = {s1, s2}
    Device = {d1}
    DeviceOf <- OneDevice
    Time = {m1}
    Request = {q1, q2}
    Null = Null
    Keep = Keep
SYMMETRY Symmetry
SPECIFICATION Spec
INVARIANTS FieldInv LastAskedWins CheckInv
PROPERTIES TimeRequired TogglesTurn
CHECK_DEADLOCK FALSE
