SPECIFICATION ProbeSpec
CONSTANTS
    Engines = {e1, e2}
    Concurrent = FALSE
    MaxRuns = 5
    MaxBrk = 2
    MaxKills = 3
INVARIANTS
    OwnBrk
    OneWrongRunPerKill
CHECK_DEADLOCK FALSE
