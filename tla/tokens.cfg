CONSTANTS
    Token = {t1, t2, t3}
    User = {u1, u2}
    Request = {q1, q2}
    None = None
SYMMETRY Symmetry
SPECIFICATION Spec
INVARIANTS IInv SpentBeforeIssue LiveHasUser
PROPERTY OverIsFinal
CHECK_DEADLOCK FALSE
