SPECIFICATION FairSpec
CONSTANTS
    Configs <- AllConfigs
    MaxSends = 3
INVARIANTS
    TypeOK
    OneOutstanding
    LockHeldExactly
    SignsOnHealthyFields
PROPERTIES
    TakesTurns
    KeepsOneShot
    HeardSignalStops
