SPECIFICATION Spec
CONSTANTS
    Slots = {a, b}
    Tickets = {1, 2}
    Players = {p}
    CookieLife = 1
    Grace = 1
    ResumeLife = 1
    BackendLives = {1}
    ReapBatch = 1
    CloseSends = 1
    Lag = 1
    Lead = 0
    Shards = FALSE
    MaxTime = 2
    MaxSessions = 2
    MaxUses = 2
INVARIANTS
    TicketOnce
