SPECIFICATION Spec
CONSTANTS
    Feeds = {f, g}
    Texts = {text, untitled}
    Nameless = {untitled}
    None = None
    NoindexAfter = 0
    MaxRuns = 3
    MaxDay = 1
    FailingRuns <- Second
SYMMETRY Symmetry
INVARIANTS
    TypeOK
    PagesMatchIndex
    SitemapMatchesRobots
    StaleOnlyAfterDeath
CHECK_DEADLOCK FALSE
