SPECIFICATION Spec
CONSTANTS
    Payloads = {up, down}
    None = None
    MaxRuns = 4
    MaxDay = 6
    DailyDays = 1
    WeeklyDays = 3
    WeekOf <- MCWeekOf
    MonthOf <- MCMonthOf
    OverlappingRuns <- NoRuns
    FailingRuns <- Second
INVARIANTS
    TypeOK
    DamageIsLocal
    Thinned
    QuietRunWritesNothing
PROPERTIES
    ManifestAdvertisesWhatIsUp
    PruneKeepsOlder
CHECK_DEADLOCK FALSE
