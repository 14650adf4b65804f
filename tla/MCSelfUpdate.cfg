SPECIFICATION FairSpec
CONSTANTS
    Versions = {"first", "better", "crashing", "slow"}
    Installed = "first"
    Files <- MCFiles
    Carries <- MCCarries
    Kind <- MCKind
    MaxUpdates = 2
    MaxReboots = 2
    MaxFailures = 2
    FailsAt = {"back_up", "apply", "hand_over", "restore"}
    Overlap = FALSE
    PortInUrl = TRUE
    MixtureStarts = TRUE
INVARIANTS
    TypeOK
    InstallIsWhole
    WorkingCopyKept
    RunsWhatIsInstalled
    GoodUpdateStays
PROPERTIES
    HelperStartsWhole
    LauncherComesBack
    BadUploadIsUndone
CHECK_DEADLOCK FALSE
