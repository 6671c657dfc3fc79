SPECIFICATION Spec
CONSTANTS
    None = None
    Call = {c1, c2}
    Token = {t1}
    Session = {s1, s2}
    Scope = {a}
    Conn = {k}
    Target = {x}
    Ops = {"commit", "rollback", "read", "write"}
    Limit = {1}
    MaxTombstones = 1
SYMMETRY Symmetry
INVARIANTS
    TombstonesTellTheTruth
    AnswersAreFinal
    NoOrphans
    CommitReturnsWrites
PROPERTY
    ImplementsLife
