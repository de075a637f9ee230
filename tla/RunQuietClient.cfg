SPECIFICATION FairSpec
CONSTANTS
    Modes <- QuietClient
    CloseSends = 2
    RecvLimit = 2
    MaxQueue = 3
PROPERTIES
    CloseEnds
