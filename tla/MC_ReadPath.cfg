CONSTANTS
    Garbage = MCGarbage
    MCGarbage = MCGarbage
    FsTypes <- MCFat1632
    BpsValues <- MCBps
    Layouts <- MCLayouts
    MaxEmpty = 0
    MaxCnt = 0
    MbrValues <- MCMbr
    SpcValues <- MCSpc
    Reserved = 1
    RootSecs = 1
    MaxSecs = 3
    ByteCounts <- MCByteCounts
SPECIFICATION Spec
INVARIANTS
    ReadSectorsMatchImage
    ReadBytesMatchImage
