CONSTANTS
    Garbage = MCGarbage
    MCGarbage = MCGarbage
    FsTypes <- MCFatAll
    BpsValues <- MCBps
    Layouts <- MCLayouts
    MaxEmpty = 1
    MaxCnt = 0
    MbrValues <- MCMbr
    SpcValues <- MCSpc
    Reserved = 1
    RootSecs = 1
    MaxSecs = 3
    ByteCounts <- MCByteCounts
SPECIFICATION Spec
INVARIANT
    ReadBytesMatchSpec
