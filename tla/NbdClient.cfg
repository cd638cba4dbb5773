CONSTANTS
    Cmds = {"read", "read_oob", "write", "flush", "disc"}
    MaxReq = 2
    StartFails = TRUE
    PeerCloses = TRUE
    NonBlockArgs = {FALSE, TRUE}
    MaxLock = 3
    DumpOutcomes = {"ok", "lockfail", "nomem", "openfail", "ioerr"}
    HasLabel = TRUE
    Others = {s1}
    OtherStartFails = TRUE
    PerTransportCalls = TRUE
SPECIFICATION Spec
PROPERTY
    ClientTransportSound
CHECK_DEADLOCK FALSE
