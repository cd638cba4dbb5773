CONSTANTS
    Garbage = MCGarbage
    MCGarbage = MCGarbage
    FsTypes <- MCFat1632
    BpsValues <- MCBps
    Layouts <- MCLayouts
    MaxEmpty = 1
    MaxCnt = 2
SPECIFICATION Spec
INVARIANT
    FatSectorsMatchChains
