SPECIFICATION Spec
CONSTANTS
    Manifests <- MCManifests
    Zips <- MCZips
    MAX_ARCHIVE_ENTRIES = 12
    MAX_EXTRACTED = 9
    DataNames = {"rows", "notes"}
    IS_WINDOWS = TRUE
    FollowsLinks = TRUE
    Lingering = FALSE
    MakesDirs = TRUE
    MayOverlap = FALSE
    MaxUploads = 3
    MaxCrashes = 1
INVARIANTS
    TypeOK
    WrittenIsKept
    DataLeadsToStore
    SameAppHoweverZipped
    
CHECK_DEADLOCK FALSE
