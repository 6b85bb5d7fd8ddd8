SPECIFICATION FairSpec
CONSTANTS
    Opportunities <- MCOneOpportunity
    WalletBalances <- MCWalletBalances
    Results <- MCResults
    MaxLoss = 0
    MinProfits <- MCMinProfits
    Exposures <- MCExposures
    Slippages <- MCSlippages
    LossLimits <- MCLossLimits
    MaxLossLimit = 1
    MaxDay = 1
    Deployments <- MCRelay
    InitialLots <- MCStock
    MaxCalls = 2
    Transports <- MCEither
    IdleRebalance = TRUE
    MaxRestarts = 1
INVARIANTS
    TypeOK
    ApprovedAndRunning
    ArmedByOperator
    StatusIsCurrent
PROPERTIES
    NoTradeStartsStopped
    LoopSurvives
