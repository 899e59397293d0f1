SPECIFICATION Spec
CONSTANTS
    s = s
    t = t
    u = u
    v = v
    Sources <- MCSources
    Urls <- MCUrls
    Catalogs <- MCCatalogs
    Nameless = {}
    None = None
    StateRetention = 2
    AbsentRetention = 1
    NoindexAfter = 1
    MaxRuns = 3
    MaxDay = 5
INVARIANTS
    TypeOK
    StateIsThatOfTheLog
    RowsAreTheChanges
    StatusIsTrue
    LinksArePresent
CHECK_DEADLOCK FALSE
