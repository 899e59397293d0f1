SPECIFICATION FairSpec
CONSTANTS
    Payloads = {up, down}
    None = None
    MaxRuns = 3
    MaxDay = 1
    DailyDays = 0
    WeeklyDays = 1
    WeekOf <- MCWeekOf
    MonthOf <- MCMonthOf
    OverlappingRuns <- Second
    FailingRuns <- AllButLast
PROPERTY Recovers
CHECK_DEADLOCK FALSE
