SPECIFICATION Spec
CONSTANTS
    Warmups = {1, 3}
    Reals <- MCReals
    MaxSlice = 2
    MaxTicks = 5
INVARIANTS
    SampleIsWindow
    SampleSize
    MeasuredIsReported
CHECK_DEADLOCK FALSE
