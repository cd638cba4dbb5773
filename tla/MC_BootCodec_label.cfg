CONSTANTS
    FsFlags = {"FAT32"}
    BpsValues = {512}
    SpcValues = {1}
    RootCnts = {16}
    SectorCounts = {67200}
    Labels <- MCShortLabel
    NoLabel = MCNoLabel
    MCNoLabel = MCNoLabel
    MbrModes = {"none"}
    Serial = 305419896
    RootCluster = 2
    DataClusterEnd = 3
    Garbage = MCGarbage
    MCGarbage = MCGarbage
SPECIFICATION BootSpec
INVARIANT
    BootRecordSound
