CONSTANTS
    Cmds = {"disc"}
    MaxReq = 2
    StartFails = FALSE
    PeerCloses = FALSE
    NonBlockArgs = {FALSE}
    MaxLock = 3
    DumpOutcomes = {"ok"}
    HasLabel = TRUE
    Others = {s1}
    OtherStartFails = FALSE
    PerTransportCalls = FALSE
SPECIFICATION Spec
PROPERTY
    ClientTransportSound
CHECK_DEADLOCK FALSE
