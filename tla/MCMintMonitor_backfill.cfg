SPECIFICATION Spec
CONSTANTS
    Configs <- DirectEvents
    MaxSends = 3
INVARIANTS
    ClosedRevertIsRetried
