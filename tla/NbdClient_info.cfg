CONSTANTS
    Cmds = {"read", "read_oob", "write", "flush", "disc"}
    MaxReq = 2
    StartFails = FALSE
    PeerCloses = FALSE
    NonBlockArgs = {FALSE, TRUE}
    MaxLock = 2
    DumpOutcomes = {"ok"}
    HasLabel = FALSE
    Others = {}
    OtherStartFails = FALSE
    PerTransportCalls = TRUE
SPECIFICATION Spec
PROPERTY
    ClientTransportSound
CHECK_DEADLOCK FALSE
