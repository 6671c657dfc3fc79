SPECIFICATION WSpec
CONSTANTS
    None = None
    Cli = Cli
    User = {u}
    Proc = {p, q}
    Ref = {r}
    Value = {v0, v1, v2}
    Payload <- Contents
    Author <- Authors
    History <- Histories
    Attempts = 2
    MaxId = 3
    MaxVersion = 3
    MaxOps = 3
SYMMETRY Symmetry
CHECK_DEADLOCK FALSE
INVARIANTS
    TypeOK
    OnePublished
    PublishedChangesSurface
    CheckpointHolds
    NoStrayDrafts
PROPERTIES
    PublishesBuildOn
    NothingOverwritten
    BasesMoveForward
