SPECIFICATION FairSpec
CONSTANTS
    Node = {n1, n2}
    Batch = {b1}
    Item = {i1}
    Run = {1, 2, 3}
    None = None
    Attempts = 2
    MoveTries = 2
    Parallel = 1
    MaxOpen = 1
    MaxFaults = 2
INVARIANT AttemptsCountRuns
PROPERTY BatchesEnd
CHECK_DEADLOCK FALSE
