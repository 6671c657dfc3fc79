SPECIFICATION LiveSpec
CONSTANTS
    c1 = c1
    a1 = a1
    a2 = a2
    Call = {}
    Admin = {}
    MaxJobs = 3
    IoSizes = {1}
    LaneSizes = {1}
    MaxQueue = 1
    MaxUpdates = 0
INVARIANT SlotsExact
PROPERTIES QueueRespectsCapacity JobsLiveOnce JobsEnd CloseReturns
