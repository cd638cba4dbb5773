CONSTANTS
    a = a
    b = b
    c = c
    d = d
    e = e
    Items <- MCItems
    Entries = Entries
    Null = Null
    NameLen <- MCNameLen
    LongNamed <- MCLongNamed
    VFAT = TRUE
    Label = FALSE
    DpsValues <- MCDps
    MaxSector = 8
    MaxScnt = 2
SPECIFICATION ReorderSpec
PROPERTIES
    EntryOrderRefined
