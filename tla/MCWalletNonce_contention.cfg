SPECIFICATION Spec
CONSTANTS
    a = a
    b = b
    Bots = {a, b}
    NoBot = NoBot
    Strategy <- PreloadStrategy
    MaxLag = 1
    MaxAttempts <- ThreeEach
    MaxStarts <- OneEach
INVARIANTS
    ContentionForcesFreshNonce
CHECK_DEADLOCK FALSE
