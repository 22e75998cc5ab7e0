SPECIFICATION Spec
CONSTANTS
    Configs <- DirectBlocks
    MaxSends = 1
INVARIANTS
    InterruptPreventsSubmission
