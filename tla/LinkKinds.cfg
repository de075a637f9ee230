SPECIFICATION FairSpec
CONSTANTS
    N = 2
    ReorderThreshold = 2
    AckBits = 1
    Half = 8
    Chan = {0, 1, 2, 3}
    Kind <- AllKinds
    Blocks <- OneBlockEach
    MaxPending = 2
    MaxHeld = 1
    ArenaBlocks = 3
    MaxPerPacket = 1
    SeenWindow = 4
    IdHalf = 8
    Window = 2
    ProbePackets = 2
    ProbeMessages = 1
    MaxSeq = 3
    MaxMessages = 3
INVARIANTS
    LossAccounted
PROPERTIES
    KeepsPromise
    Drains
