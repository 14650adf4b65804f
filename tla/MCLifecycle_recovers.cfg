SPECIFICATION FairSpec
CONSTANTS
    w1 = w1
    c1 = c1
    Workers = {w1}
    Clients = {c1}
    Kinds = {"good", "wants", "dies"}
    Ops = {"upload", "restart_all"}
    MaxDeploys = 1
    MaxIds = 1
    MaxPids = 4
    MaxCrashes = 1
    KEEP_VERSIONS = 1
    RESTARTS_BEFORE_GIVING_UP = 1
    MEMORY_STRIKES_BEFORE_RESTART = 2
    MayDie = TRUE
    MayGrow = TRUE
    PidReuse = TRUE
    IS_WINDOWS = FALSE
    Serial = FALSE
INVARIANTS
    AtMostOneCopy
PROPERTIES
    DeployEnds
    DeadIsNoticed
CHECK_DEADLOCK FALSE
