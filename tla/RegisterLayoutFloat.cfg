SPECIFICATION RegSpec
CONSTANTS
    Files = {"float"}
INVARIANTS
    Restored
CHECK_DEADLOCK FALSE
