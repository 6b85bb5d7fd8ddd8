SPECIFICATION Spec
CONSTANTS
    Opportunities <- MCOneOpportunity
    WalletBalances <- MCRichWallet
    Results <- MCResults
    MaxLoss = 0
    MinProfits <- MCMinProfits
    Exposures <- MCExposures
    Slippages <- MCSlippages
    LossLimits <- MCLossLimit
    MaxLossLimit = 1
    MaxDay = 0
    Deployments <- MCLive
    InitialLots <- MCStock
    MaxCalls = 2
    Transports <- MCAlways
    IdleRebalance = FALSE
    MaxRestarts = 0
PROPERTIES
    LossesHalt
