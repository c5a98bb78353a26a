SPECIFICATION ProgramsSpec
CONSTANTS
    NPages = 4
    MaxClients = 2
    ConfigWords = 3
    TestPages = 4
    Adds = 30
    First = 5
INVARIANTS NoMisread PhasesApart ClientReachesFile NoIncrementLost
PROPERTY ProgramsFinish
CHECK_DEADLOCK FALSE
