SPECIFICATION Spec
CONSTANTS
    Node = {n1, n2}
    Batch = {b1}
    Item = {i1, i2}
    Run = {1, 2}
    None = None
    Attempts = 2
    MoveTries = 2
    Parallel = 2
    MaxOpen = 1
    MaxFaults = 2
INVARIANT ReplacedRunsStayOut
CHECK_DEADLOCK FALSE
