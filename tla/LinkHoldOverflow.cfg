SPECIFICATION Spec
CONSTANTS
    N = 4
    ReorderThreshold = 3
    AckBits = 2
    Half = 8
    Chan = {0}
    Kind <- OneOrdered
    Blocks <- OneBlock
    MaxPending = 2
    MaxHeld = 2
    ArenaBlocks = 2
    MaxPerPacket = 1
    SeenWindow = 4
    IdHalf = 8
    Window = 4
    ProbePackets = 1
    ProbeMessages = 1
    MaxSeq = 4
    MaxMessages = 4
INVARIANTS
    NothingLost
