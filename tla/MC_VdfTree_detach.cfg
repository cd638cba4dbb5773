CONSTANTS
    r = r
    f1 = f1
    f2 = f2
    Nodes <- MCNodes
    Root = r
    NoNode = NoNode
    NoRanges = NoRanges
    Names <- MCTwoNames
    ShortNames <- MCShortNames
    VirtSizes <- MCVirtSizes
    RealSizes <- MCRealSizes
    AttrInputs <- MCAttrInputs
    FsType = "FAT16"
    RootDirCnt = 1
    VFAT = TRUE
    BPC = 512
    SPC = 1
    DataStart = 8
    Sectors = 12
    SizeWrap = 65536
    MaxLock = 2
    Ops <- MCAddDeleteMove
    Recreates <- MCNoRecreate
SPECIFICATION Spec
INVARIANTS
    TreeConnected
