SPECIFICATION NestedSpec
CONSTANTS
    NumLevels = 3
    MaxDepth = 3
    PIDev = "PI"
    APRDev = "APR"
    Devices = {"PI", "APR"}
    ConoPI <- MCConoPI
INVARIANT
    OnlyMoreUrgentInterrupts
CHECK_DEADLOCK FALSE
