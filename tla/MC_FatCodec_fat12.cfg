CONSTANTS
    Garbage = MCGarbage
    MCGarbage = MCGarbage
    FsTypes <- MCFat12
    BpsValues <- MCBps
    Layouts <- MCLayouts
    MaxEmpty = 0
    MaxCnt = 2
SPECIFICATION Spec
INVARIANT
    FatSectorsMatchChains
