CONSTANTS
    Cmds = {"read", "flush"}
    MaxReq = 2
    StartFails = FALSE
    PeerCloses = FALSE
    NonBlockArgs = {FALSE}
    MaxLock = 2
    DumpOutcomes = {"ok", "lockfail", "openfail", "ioerr"}
    HasLabel = TRUE
    Others = {}
    OtherStartFails = FALSE
    PerTransportCalls = TRUE
SPECIFICATION Spec
PROPERTY
    ClientTransportSound
CHECK_DEADLOCK FALSE
