CONSTANTS
    Cmds = {"read", "read_oob", "write", "flush", "disc"}
    MaxReq = 2
    StartFails = FALSE
    PeerCloses = TRUE
    NonBlockArgs = {FALSE, TRUE}
    MaxLock = 2
    DumpOutcomes = {"ok", "lockfail", "openfail", "ioerr"}
    HasLabel = TRUE
    Others = {}
    OtherStartFails = FALSE
    PerTransportCalls = TRUE
SPECIFICATION Spec
PROPERTY
    ClientTransportSound
CHECK_DEADLOCK FALSE
