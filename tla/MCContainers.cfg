SPECIFICATION Spec
CONSTANTS
    w1 = w1
    c1 = c1
    Workers = {w1}
    Clients = {c1}
    Kinds = {"good", "wants", "refused", "dies", "unbuildable"}
    Ops = {"upload", "replace_stop", "stop", "start", "save", "remove", "delete"}
    MaxDeploys = 2
    MaxIds = 2
    MaxCrashes = 1
    MaxOutages = 1
    OutageAnyTime = FALSE
INVARIANTS
    NameIsFree
    OnlyACrashForgets
    LiveHasContainer
    StoppedStaysDown
CHECK_DEADLOCK FALSE
