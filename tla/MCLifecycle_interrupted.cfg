SPECIFICATION Spec
CONSTANTS
    w1 = w1
    Workers = {w1}
    Clients = {}
    Kinds = {"good"}
    Ops = {"upload"}
    MaxDeploys = 1
    MaxIds = 1
    MaxPids = 2
    MaxCrashes = 1
    KEEP_VERSIONS = 1
    RESTARTS_BEFORE_GIVING_UP = 1
    MEMORY_STRIKES_BEFORE_RESTART = 1
    MayDie = FALSE
    MayGrow = FALSE
    PidReuse = FALSE
    IS_WINDOWS = FALSE
    Serial = FALSE
INVARIANTS
    BuildingHasWorker
CHECK_DEADLOCK FALSE
