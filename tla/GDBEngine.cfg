CONSTANTS
    MaxChk = 2
    MaxRuns = 2
    MaxIter = 2
    Options <- AllOptions
SPECIFICATION FairSpec
INVARIANTS
    
    NeverCompressedWhileConverted
    CompressOrdersConversion
    JoinedAtReturn
PROPERTIES
    ConvertedOnce
    GzippedIsConverted
    
CHECK_DEADLOCK FALSE
