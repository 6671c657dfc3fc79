SPECIFICATION Spec
CONSTANTS
    None = None
    r1 = r1
    r2 = r2
    w1 = w1
    s1 = s1
    s2 = s2
    Reader = {r1, r2}
    Writer = {w1}
    Replication = {TRUE, FALSE}
    Session = {s1, s2}
    Scope = {g}
    Registries <- Served
    MaxCalls <- Calls
SYMMETRY Symmetry
INVARIANTS CacheFresh CanceledAlone
PROPERTIES FlightsFresh OwnWritesSeen
