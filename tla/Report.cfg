SPECIFICATION Spec
CONSTANTS
    Benchmarks = {b1, b2}
    Modes = {m1, m2}
    MaxCheckpoints = 2
    MaxSummaries = 3
SYMMETRY Symmetry
INVARIANTS
    Comparable
    
CHECK_DEADLOCK FALSE
