SPECIFICATION FairSpec
CONSTANTS
    a = a
    b = b
    Bots = {a, b}
    NoBot = NoBot
    Strategy <- RefreshStrategy
    MaxLag = 1
    MaxAttempts <- ThreeAndOne
    MaxStarts <- OneAndTwo
INVARIANTS
    OneAtATime
    FreshNonceUnused
    RetryTakesNewNonce
PROPERTIES
    ImplementsTurns
    WaiterIsServed
CHECK_DEADLOCK FALSE
