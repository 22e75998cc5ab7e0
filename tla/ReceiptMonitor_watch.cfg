SPECIFICATION FairSpec
CONSTANTS
    Direct = TRUE
    Confirmations = 2
    MaxAttempts = 2
    AfterBlocks = 1
    Num = 5
    Den = 4
    FirstFee = 3
    FeeCap = 5
    MaxBlock = 5
    MaxReorgs = 1
INVARIANTS
    TypeOK
    ReplacementsStayInBudget
    ConfirmedIsTrue
PROPERTIES
    MinedEndsWatch
    InterruptEndsWatch
