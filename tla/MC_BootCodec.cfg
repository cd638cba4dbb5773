CONSTANTS
    FsFlags <- MCFsFlags
    BpsValues = {512}
    SpcValues <- MCSpc
    RootCnts = {16, 512}
    SectorCounts <- MCSectors
    Labels <- MCLabels
    NoLabel = MCNoLabel
    MCNoLabel = MCNoLabel
    MbrModes <- MCMbrModes
    Serial = 305419896
    RootCluster = 2
    DataClusterEnd = 3
    Garbage = MCGarbage
    MCGarbage = MCGarbage
SPECIFICATION BootSpec
INVARIANT
    BootRecordSound
