CONSTANTS
    a = a
    b = b
    c = c
    d = d
    e = e
    Items <- MCItems
    Entries = Entries
    Null = Null
    NameLen <- MCNameLen12
    LongNamed <- MCLongNamed
    VFAT = TRUE
    Label = TRUE
    DpsValues <- MCDps
    MaxSector = 8
    MaxScnt = 2
SPECIFICATION Spec
INVARIANT
    DirSectorsMatchSpec
