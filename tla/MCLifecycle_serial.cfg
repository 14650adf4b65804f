SPECIFICATION Spec
CONSTANTS
    w1 = w1
    c1 = c1
    Workers = {w1}
    Clients = {c1}
    Kinds = {"good", "wants", "garbled", "empty", "unbuildable", "dies"}
    Ops = {"upload", "replace_stop", "rollback", "stop", "start", "save", "remove", "delete", "restart_all"}
    MaxDeploys = 3
    MaxIds = 2
    MaxPids = 3
    MaxCrashes = 0
    KEEP_VERSIONS = 1
    RESTARTS_BEFORE_GIVING_UP = 1
    MEMORY_STRIKES_BEFORE_RESTART = 1
    MayDie = TRUE
    MayGrow = FALSE
    PidReuse = FALSE
    IS_WINDOWS = TRUE
    Serial = TRUE
INVARIANTS
    NothingForgotten
    StoppedIsDown
    NewestServes
    NeverHalfConfigured
PROPERTIES
    LiveIsItsOwn
CHECK_DEADLOCK FALSE
