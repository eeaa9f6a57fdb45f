CONSTANTS
    Token = {t1, t2}
    User = {u1}
    Page = {p1}
    Request <- Slots
    None = None
    MaxServed = 2
    MaxCalls = 5
SPECIFICATION FairWebSpec
INVARIANT CleanPageKeepsSession
PROPERTIES PageNoticesEnd LogoutEndsSession
CHECK_DEADLOCK FALSE
