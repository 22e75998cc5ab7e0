CONSTANTS
    ws = ws
    p1 = p1
    p2 = p2
    Endpoints = {ws, p1, p2}
    Ws = ws
    Failed = Failed
    Unanswered = Unanswered
    Liars = {p2}
SPECIFICATION FairSpec
INVARIANTS
    VerdictIsTrue
    PoolIsOnChain
    StaleNonceIsUnheard
    ViewIsTrustworthy
    NothingIsOverlooked
PROPERTIES
    AckIsReported
    ReadEnds
CHECK_DEADLOCK FALSE
