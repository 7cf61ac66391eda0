CONSTANTS
    Chk <- Three
    MaxProcs = 2
    NumArgs = {2}
    ForceArgs = {FALSE}
    MaxSessions = 2
    MaxLen = 24
SPECIFICATION FairSpec
INVARIANTS
    NoneLostNoneTwice
    CountersExact
    FinishedMeansDone
    NeverMoreThanNeeded
    ExactSelection
    EvenSelection
PROPERTIES
    SettledStays
    IsCampaign
    SessionEnds
CHECK_DEADLOCK FALSE
