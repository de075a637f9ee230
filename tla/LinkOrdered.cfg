SPECIFICATION Spec
CONSTANTS
    N = 2
    ReorderThreshold = 2
    AckBits = 2
    Half = 8
    Chan = {0}
    Kind <- OneOrdered
    Blocks <- OneBlock
    MaxPending = 2
    MaxHeld = 3
    ArenaBlocks = 3
    MaxPerPacket = 2
    SeenWindow = 4
    IdHalf = 6
    Window = 3
    ProbePackets = 2
    ProbeMessages = 1
    MaxSeq = 4
    MaxMessages = 7
INVARIANTS
    NoStranded
    AckIsTrue
    IdsResolve
    NothingLost
PROPERTIES
    KeepsPromise
