SPECIFICATION Spec
CONSTANTS
    Sources <- MCSources
    Catalogs <- MCCatalogs
    Attempts <- MCAttempts
    Hash <- MCHash
    None = None
    AbsentRetention = 1
    MaxRuns <- MCRuns
    MaxDay = 2
PROPERTY GroupReturns
CHECK_DEADLOCK FALSE
