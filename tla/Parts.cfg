SPECIFICATION Spec
CONSTANT None = None
INVARIANTS
    Intact
    ReadyIsExact
    KeysUsedOnce
    SurvivesLoss
    LimitIsExact
    StepFinishes
    OneHome
PROPERTIES
    KeepsDeadlines
    KeepsItems
    Recovers
    FollowsClient
    StopReturns
    CloseEnds
    LingerReturns
\* The attempts of Handshake, the clock of Limiter, the steps of Driver and
\* the slots' uses of Shards are bounded.
CHECK_DEADLOCK FALSE
