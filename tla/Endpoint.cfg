SPECIFICATION Spec
CONSTANTS
    Slots = {a, b}
    Tickets = {1, 2}
    Players = {p, q}
    CookieLife = 1
    Grace = 1
    ResumeLife = 0
    BackendLives = {1}
    ReapBatch = 1
    CloseSends = 1
    Lag = 0
    Lead = 1
    Shards = TRUE
    MaxTime = 1
    MaxSessions = 2
    MaxUses = 2
SYMMETRY EndpointSymmetry
INVARIANTS
    Scheduled
    SessionsAgree
    SuspensionsExpire
    EveryArrivalDeparts
    TicketOnce
PROPERTIES
    NoResurrection
    PlaceHeld
