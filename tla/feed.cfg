CONSTANTS
    d1 = d1
    Schedule = {s1}
    Device = {d1}
    DeviceOf <- OneDevice
    Day = 2
    OFFSET = 1
    LastDay = 1
    Rows <- SomeRows
    Null = Null
    Run = {n1, n2}
    Client = {c1}
SPECIFICATION FairFeedSpec
INVARIANT FeedInv
PROPERTIES PagesCatchUp TakesWhatIsDue
CHECK_DEADLOCK FALSE
