SPECIFICATION Spec
CONSTANTS
    MaxPage = 4
    MaxSize = 2
    Layouts <- UpToThreeRegions
    VPages <- SomePages
    M5OpFirst = 7
    M5OpLast = 8
    Growth <- UpToOne
INVARIANTS
    NoAlias
    InMemory
    ImageFaithful
PROPERTIES
    IsAddressSpace
CHECK_DEADLOCK FALSE
