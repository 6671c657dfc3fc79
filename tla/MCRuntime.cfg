SPECIFICATION FairSpec
CONSTANTS
    k1 = k1
    k2 = k2
    u = u
    Session = {s1}
    UserOf <- MCUserOf
    Configs <- MCConfigs
    Conn = {k1, k2}
    User = {u}
    MaxRetiring = 2
    MaxRev = 3
    MaxFail = 1
INVARIANTS
    ConnectionsCounted
    LeasedAppsServe
    ClosedMeansReleased
    SettingsFollowCurrent
PROPERTIES
    SessionsOutliveReloads
    RevisionsApply
CHECK_DEADLOCK FALSE
