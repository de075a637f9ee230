SPECIFICATION Spec
CONSTANTS
    Modes <- PortableServer
    CloseSends = 2
    RecvLimit = 2
    MaxQueue = 3
INVARIANTS
    StopHeeded
