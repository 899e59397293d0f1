SPECIFICATION Spec
CONSTANTS
    s1 = s1
    s2 = s2
    u1 = u1
    u2 = u2
    Sources <- MCSources
    Urls <- MCUrls
    None = None
    Before = 2
    MaxRuns = 4
SYMMETRY Symmetry
INVARIANTS
    TypeOK
    HistoryIsCoherent
    StreakIsDated
PROPERTIES
    ForthAndBack
    BackAndForth
