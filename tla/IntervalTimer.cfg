SPECIFICATION FairSpec
CONSTANTS
    Interval = 3
    MaxRan = 8
    MaxChk = 3
    MaxIter = 3
INVARIANTS
    EveryInterval
    OnlyPauses
    InterruptComes
PROPERTIES
    ControlGivenBack
CHECK_DEADLOCK FALSE
