SPECIFICATION StagesSpec
CONSTANTS
    g1 = g1
    g2 = g2
    p1 = p1
    p2 = p2
    NullGuid = NullGuid
    NoPath = NoPath
    Guids = {g1, g2}
    Paths = {p1, p2}
    Configs <- MCConfigs
    Volumes <- MCVolumes
    HasFile = {2, 3}
INVARIANTS
    BootsWhatIsNamed
    BootPartition
    ClosedOnce
    SearchesClean
PROPERTIES
    ChainEnds
