SPECIFICATION Spec
CONSTANTS
    Sources <- MCSources
    Catalogs <- MCCatalogs
    Attempts <- MCAttempts
    Hash <- MCHash
    None = None
    AbsentRetention = 1
    MaxRuns <- MCRuns
    MaxDay = 2
INVARIANTS
    TypeOK
    GroupsAreLinked
    OneFeedPerSource
PROPERTIES
    IdsFollowMembers
    RerunKeepsIds
    UndisturbedGroupReturns
CHECK_DEADLOCK FALSE
