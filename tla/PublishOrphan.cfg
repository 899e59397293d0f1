SPECIFICATION Spec
CONSTANTS
    Payloads = {up, down}
    None = None
    MaxRuns = 2
    MaxDay = 1
    DailyDays = 1
    WeeklyDays = 1
    WeekOf <- MCWeekOf
    MonthOf <- MCMonthOf
    OverlappingRuns <- NoRuns
    FailingRuns <- AllButLast
INVARIANT SnapshotsAreTheListedOnes
CHECK_DEADLOCK FALSE
