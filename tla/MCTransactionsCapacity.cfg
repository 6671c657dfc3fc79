SPECIFICATION Spec
CONSTANTS
    None = None
    Call = {c1, c2}
    Token = {t1, t2}
    Session = {s1}
    Scope = {a}
    Conn = {k}
    Target = {x}
    Ops = {"rollback"}
    Limit = {1, 2}
    MaxTombstones = 1
SYMMETRY Symmetry
INVARIANTS
    NothingOpenAfterClose
    CountersCountHandles
PROPERTY
    CapacityRespected
