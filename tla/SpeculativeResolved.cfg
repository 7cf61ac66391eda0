CONSTANTS
    Configs <- Several
    NumEntries = 3
    SquashWidth = 1
    WBWidth = 1
    CommitWidth = 1
    RunaheadThreshold = 1
    MaxInsts = 4
    MaxTraps = 1
SPECIFICATION Spec
INVARIANT
    ClearedIsResolved
