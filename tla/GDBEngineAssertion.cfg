CONSTANTS
    MaxChk = 2
    MaxRuns = 1
    MaxIter = 2
    Options <- DefaultOptions
SPECIFICATION Spec
INVARIANT
    ConverterAssertion
CHECK_DEADLOCK FALSE
