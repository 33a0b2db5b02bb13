SPECIFICATION EmuSpec
CONSTANTS
    NumLevels = 1
    PIDev = "PI"
    APRDev = "APR"
    Devices = {"PI", "APR"}
    APRFlag = {0}
    SweepTicks = 2
    ConoPI <- MCConoPI
    ConoAPR <- MCConoAPR
    AddrSpace = 3
    Code <- MCCode
    LinkWords <- MCLinks
    InitLinks <- MCInitLinks
    VectorBase = 0
    Trap1Vec = 1
    Trap2Vec = 1
    LUUOVec = 1
    MUUOPC = 0
    MUUOLink = "link"
    MaxSteps = 0
INVARIANTS
    PCTracksFetch
PROPERTIES
    UserModeIsKept
    PISpec
    SweepSpec
