SPECIFICATION Spec
CONSTANTS
    c1 = c1
    a1 = a1
    a2 = a2
    Call = {c1}
    Admin = {a1, a2}
    MaxJobs = 0
    IoSizes = {1, 2}
    LaneSizes = {1}
    MaxQueue = 1
    MaxUpdates = 1
INVARIANT SlotsExact
PROPERTY SlotsFollowSize
