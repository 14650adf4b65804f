SPECIFICATION Spec
CONSTANTS
    w1 = w1
    c1 = c1
    Workers = {w1}
    Clients = {c1}
    Kinds = {"good", "wants"}
    Ops = {"upload", "save"}
    MaxDeploys = 2
    MaxIds = 1
    MaxCrashes = 0
    MaxOutages = 0
    OutageAnyTime = FALSE
PROPERTIES
    LiveIsItsOwn
CHECK_DEADLOCK FALSE
