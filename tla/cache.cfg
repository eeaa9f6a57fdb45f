CONSTANTS
    r1 = r1
    Region = {r1, r2}
    Device = {d1}
    RegionOf <- InFirst
    Home = r1
    Slot = {m1, m2}
    MaxAcross = 1
    None = None
    Asked = Asked
SYMMETRY Symmetry
SPECIFICATION Spec
INVARIANT CacheInv
CHECK_DEADLOCK FALSE
