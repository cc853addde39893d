CONSTANTS
    m1 = m1
    m2 = m2
    m3 = m3
    Senders <- MCSenders
    Stoppers = {t1}
    MaxRounds = 2
    MayPanic = TRUE
SPECIFICATION FairSpec
CONSTRAINT EnterInOrder
INVARIANTS
    OneTurn
    OrderKept
    NothingDoubled
    InjectedGetSeen
PROPERTIES
    NoSendAfterStop
    StopEndsTurn
    QueuedGetsSent
