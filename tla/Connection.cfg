SPECIFICATION Spec
CONSTANTS
    Peers = {"client", "server"}
    First = "client"
    AckDelay = 2
    Keepalive = 5
    Idle = 10
    LossDelay = 2
    ReorderThreshold = 3
    ProbeBase = 3
    MaxBackoff = 2
    ProbePackets = 2
    CloseSends = 3
    Wait = 1
    Delay = 1
    MaxLoss = 1
    MaxCalls = 2
    MaxTime = 11
INVARIANTS
    AckWithinDelay
    EndsOnce
    NoFalseTimeout
    ComesToRest
PROPERTIES
    BareAcksSpaced
\* The clock is bounded.
CHECK_DEADLOCK FALSE
