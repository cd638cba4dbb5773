CONSTANTS
    FsFlags = {"FAT12"}
    BpsValues = {512}
    SpcValues = {2}
    RootCnts = {16}
    SectorCounts = {720}
    Labels <- MCNone
    NoLabel = MCNoLabel
    MCNoLabel = MCNoLabel
    MbrModes = {"none"}
    Serial = 305419896
    RootCluster = 2
    DataClusterEnd = 3
    Garbage = MCGarbage
    MCGarbage = MCGarbage
SPECIFICATION BootSpec
INVARIANT
    BootRecordSound
