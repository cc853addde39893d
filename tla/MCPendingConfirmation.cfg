CONSTANTS
    w1 = w1
    w2 = w2
    k1 = k1
    Waiters = {w1, w2}
    Calls = {c1, c2}
    Decisions = {approve, deny}
    NoEntry = NoEntry
    NoDecision = NoDecision
    Keys = {k1}
    KeyOf <- SharedKey
SPECIFICATION FairSpec
INVARIANTS
    EveryWaitReachable
    NoOrphanIndicator
PROPERTIES
    LateAnswerRejected
    ImplementsConfirmation
    EveryWaitEnds
