SPECIFICATION Spec
CONSTANTS
    Entries = 2
    Requests <- MCRequests
    Frame = {0, 1, 2, 3, 4, 5, 6}
    Root = 0
    Junk <- MCJunk
    MaxCalls = 2
INVARIANTS
    TreeOK
    NoBadAccess
    FreedAll
PROPERTIES
    CallsReturn
    ImplementsAddressSpace
