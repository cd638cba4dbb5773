CONSTANTS
    FsFlags = {"FAT16"}
    BpsValues = {1024}
    SpcValues = {1}
    RootCnts = {512}
    SectorCounts = {4300}
    Labels <- MCNone
    NoLabel = MCNoLabel
    MCNoLabel = MCNoLabel
    MbrModes = {"none"}
    Serial = 305419896
    RootCluster = 2
    DataClusterEnd = 3
    Garbage = MCGarbage
    MCGarbage = MCGarbage
SPECIFICATION BootSpec
INVARIANT
    BootRecordSound
