SPECIFICATION Spec
CONSTANTS
    Levels = {"debug", "error"}
    Window <- LevelWindows
    Months <- ThreeMonths
    First <- MonthStarts
    HoursPerDay = 2
    RetentionHour = 1
    ReadingsKept = 3
    HourlyKept = 6
    MaxHour = 9
    MaxEvents = 2
    MaxOutage = 2
CONSTRAINT Bounded
INVARIANTS
    TypeOK
    RowsAreExact
    MonthsAreCounted
    DailyNearlyWhole
