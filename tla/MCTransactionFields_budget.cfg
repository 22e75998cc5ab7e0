SPECIFICATION Spec
CONSTANTS
    Configs <- AllConfigs
    Estimates <- TwoEstimates
    GasEstimates = {1, 2}
    Balances = {7, 8, 9, 11}
    Values = {0, 2, 3}
    Reserves = {0, 1}
    Num = 3
    Den = 2
    BumpNum = 5
    BumpDen = 4
    MaxReplacements = 2
    MaxReads = 3
    MaxSends = 2
INVARIANTS
    PreparedPassesPolicy
    FeesMatchBalance
    SignedWithinLimits
    ArmedCanPay
CHECK_DEADLOCK FALSE
