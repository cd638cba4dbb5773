CONSTANTS
    c1 = c1
    c2 = c2
    Clients <- MCClients
    NoClient = NoClient
    Build = "win32"
    Cmds <- MCOutOfRange
    MaxReq = 1
    StartFails = TRUE
    MaxLock = 1
SPECIFICATION Spec
CHECK_DEADLOCK FALSE
PROPERTY
    RequestAnswered
