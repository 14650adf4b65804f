SPECIFICATION Spec
CONSTANTS
    w1 = w1
    w2 = w2
    c1 = c1
    Workers = {w1, w2}
    Clients = {c1}
    Kinds = {"good"}
    Ops = {"upload", "replace_stop", "delete"}
    MaxDeploys = 2
    MaxIds = 1
    MaxPids = 2
    MaxCrashes = 1
    KEEP_VERSIONS = 1
    RESTARTS_BEFORE_GIVING_UP = 1
    MEMORY_STRIKES_BEFORE_RESTART = 1
    MayDie = FALSE
    MayGrow = FALSE
    PidReuse = FALSE
    IS_WINDOWS = TRUE
    Serial = FALSE
SYMMETRY Symmetry
INVARIANTS
    TypeOK
    UnfinishedHasOwner
PROPERTIES
    ImplementsRecord
CHECK_DEADLOCK FALSE
