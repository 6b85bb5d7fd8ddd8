SPECIFICATION Spec
CONSTANTS
    Opportunities <- MCOpportunities
    WalletBalances <- MCWalletBalances
    Results <- MCResults
    MaxLoss = 3
    MinProfits <- MCMinProfits
    Exposures <- MCExposures
    Slippages <- MCSlippages
    LossLimits <- MCLossLimits
    MaxLossLimit = 4
    MaxDay = 2
INVARIANTS
    TypeOK
    CounterCoversToday
    OvershootBounded
    LateLossBounded
PROPERTIES
    BudgetHolds
