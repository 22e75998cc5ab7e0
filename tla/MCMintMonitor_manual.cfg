SPECIFICATION Spec
CONSTANTS
    Configs <- DirectManual
    MaxSends = 1
INVARIANTS
    ManualStaysArmed
