SPECIFICATION FairSpec
CONSTANTS
    Confirmations = 2
    MaxHeight = 6
    MaxEvents = 2
    MaxReorgs = 1
    MaxDrops = 2
    MaxFails = 1
INVARIANTS
    ActsOnConfirmedEvent
PROPERTIES
    DiscardsOnlyNonCanonical
    KeptEventTriggers
