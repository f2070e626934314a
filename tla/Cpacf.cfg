CONSTANTS
    c1 = c1
    c2 = c2
    Cpu = {c1, c2}
    CpuMf = {"AES_FUNCTIONS"}
    OpenFails = FALSE
    StartupHotplug = FALSE
    MaxHotplug = 2
    Order <- MCOrder
    NumPai <- MCNumPai
    Queries <- MCQueries
    MaxRequests = 2
SPECIFICATION FairClientSpec
INVARIANTS
    FdsFollowState
    EnabledCovered
    CpusCountedOnce
    
PROPERTIES
    HotplugReported
    StopOnlyWaitsForInput
CHECK_DEADLOCK FALSE
