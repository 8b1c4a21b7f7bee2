SPECIFICATION Spec
CONSTANTS
    NFrames = 7
    BootMaps <- MCBootMaps
    Pinned = {0}
    FwTypes = {"BsData"}
    GrantSizes <- MCGrantSizes
    Extra = 1
    BiCap = 6
    ExitAttempts = 5
INVARIANTS
    HandoffMapFresh
    HandoffMapped
    HandoffIntact
    NoBadFree
    ReturnReleases
PROPERTIES
    ServicesFrozen
    Termination
    ExitedHandsOff
