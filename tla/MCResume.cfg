SPECIFICATION ResumeFairSpec
CONSTANTS
    NumLevels = 1
    PIDev = "PI"
    APRDev = "APR"
    Devices = {"PI", "APR"}
    APRFlag = {0}
    SweepTicks = 3
    ConoPI <- MCConoPI
    ConoAPR <- MCConoAPR
    AddrSpace = 13
    Code <- MCCode
    LinkWords <- MCLinks
    InitLinks <- MCInitLinks
    VectorBase = 6
    Trap1Vec = 7
    Trap2Vec = 7
    LUUOVec = 5
    MUUOPC = 0
    MUUOLink = "luuo"
    MaxSteps = 1
    Main <- MCMain
    Remote <- MCRemote
    LUUOHandler <- MCLUUOHandler
    TrapHandler <- MCTrapHandler
    PIHandler <- MCPIHandler
    LUUOLink = "luuo"
    TrapLink = "trap"
    PILink = "pi"
    PILevel = 1
INVARIANT
    NoInstructionLost
PROPERTIES
    WantedIsEntered
    InterruptIsTransparent
    TrapIsCleared
