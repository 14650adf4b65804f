SPECIFICATION FairSpec
CONSTANTS
    Apps = {1, 2}
    RESTARTS_BEFORE_GIVING_UP = 2
    MEMORY_STRIKES_BEFORE_RESTART = 2
    MaxDeploys = 1
INVARIANTS
    UnreplacedStrikesAreEarned
PROPERTIES
    GivenUpAfterRetries
    EveryAppHasItsTurn
