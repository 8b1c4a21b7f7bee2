SPECIFICATION Spec
CONSTANTS
    PageSize = 2
    Word = 64
    NFrames = 8
    Files <- MCFiles
INVARIANTS
    LoadedFaithful
    NoBadFree
    FailureReleases
    DiscontigReleased
