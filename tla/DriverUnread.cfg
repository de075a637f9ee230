SPECIFICATION Spec
CONSTANTS
    Backends = {"linux"}
    RecvBatch = 2
    RecvRounds = 2
    SendBatch = 2
    Conns = {c}
    MaxArrivals = 4
    MaxSteps = 1
INVARIANTS
    UnreadResumes
CHECK_DEADLOCK FALSE
