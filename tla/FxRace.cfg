SPECIFICATION Spec
CONSTANTS
    Currencies = {eur, isk}
    Official = {eur}
    None = None
    Backfills = {b1}
    MonthLength = 2
    HISTORY_DAYS = 1
    STALE_AFTER_DAYS = 1
    BACKFILL_ATTEMPTS = 1
    MaxDay = 3
    MaxRuns = 2
    MaxFaults = 0
INVARIANTS RaceRemoved
\* After the last day and the last run nothing happens any more.
CHECK_DEADLOCK FALSE
