SPECIFICATION RegSpec
CONSTANTS
    Files = {"int", "misc"}
INVARIANTS
    Restored
    Accepted
CHECK_DEADLOCK FALSE
