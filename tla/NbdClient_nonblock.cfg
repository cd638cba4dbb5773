CONSTANTS
    Cmds = {"read", "flush"}
    MaxReq = 2
    StartFails = FALSE
    PeerCloses = FALSE
    NonBlockArgs = {TRUE}
    MaxLock = 2
    DumpOutcomes = {"ok", "lockfail", "openfail", "ioerr"}
    HasLabel = TRUE
    Others = {}
    OtherStartFails = FALSE
    PerTransportCalls = TRUE
SPECIFICATION Spec
INVARIANT
    NoSpuriousError
CHECK_DEADLOCK FALSE
