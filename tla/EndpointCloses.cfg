SPECIFICATION FairSpec
CONSTANTS
    Slots = {a, b}
    Tickets = {1, 2}
    Players = {p}
    CookieLife = 1
    Grace = 1
    ResumeLife = 1
    BackendLives = {1}
    ReapBatch = 1
    CloseSends = 2
    Lag = 0
    Lead = 0
    Shards = FALSE
    MaxTime = 0
    MaxSessions = 2
    MaxUses = 1
PROPERTIES
    ClosesComplete
