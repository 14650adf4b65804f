SPECIFICATION Spec
CONSTANTS
    r1 = r1
    r2 = r2
    w1 = w1
    Requests = {r1, r2}
    Workers = {w1}
    MaxUploads = 2
    MaxDeploys = 3
    MaxIds = 2
    MaxTime = 2
    MaxFaults = 1
    KEEP_VERSIONS = 1
    FallsBack = FALSE
SYMMETRY Symmetry
INVARIANTS
    ReadsItsOwnUpload
    LostOnlyToNewer
    NoStrayFiles
CHECK_DEADLOCK FALSE
