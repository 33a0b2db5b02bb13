SPECIFICATION PIFairSpec
CONSTANTS
    NumLevels = 3
    PIDev = "PI"
    APRDev = "APR"
    Devices = {"PI", "APR"}
    ConoPI <- MCConoPI
INVARIANTS
    ServiceAgrees
    PendingPRWasRequested
PROPERTIES
    ArbiterSpec
    NoIdleRequest
CHECK_DEADLOCK FALSE
