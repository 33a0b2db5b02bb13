SPECIFICATION SweepSpec
CONSTANTS
    NumLevels = 1
    PIDev = "PI"
    APRDev = "APR"
    Devices = {"PI", "APR"}
    APRFlag = {0, 1, 2}
    SweepTicks = 10
    ConoAPR <- MCConoAPR
INVARIANTS
    BusyWhileCounting
    APRMirrorsLine
PROPERTIES
    RequestHasCause
    SweepEndIsReported
