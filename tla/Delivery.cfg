SPECIFICATION Spec
CONSTANTS
    N = 4
    ReorderThreshold = 3
    AckBits = 2
    MaxSeq = 5
    MaxTime = 2
    Skew = 1
    MaxBackoff = 1
    Delays = {1, 2}
INVARIANTS
    TailWatched
    FlightCounted
    ResolvedOnce
    CountRule
PROPERTIES
    StopsAtTheRightPacket
