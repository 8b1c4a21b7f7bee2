SPECIFICATION Spec
CONSTANTS
    Addr = {1, 2, 3, 4, 5, 6}
    NULL = NULL
    Section = {"text", "data"}
    SectionLists <- MCSectionLists
INVARIANTS
    BuiltWhole
    FailedReleases
    PoolSafe
