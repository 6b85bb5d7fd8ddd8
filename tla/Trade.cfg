SPECIFICATION TradeSpec
CONSTANTS
    PoolStates <- MCPoolStates
    Buy <- MCBuy
    Sell <- MCSell
    MaxAmount = 12
    WalletBalances <- MCWalletBalances
    MaxTradeExposure = 50
    SizeCap = 4
    MinProfit = 3
    GasCosts <- MCGasCosts
    MaxSlippage = 50
    InitialWallets <- MCWallets
    InitialHelpers <- MCHelpers
    MaxHelperCalls = 2
INVARIANTS
    OpportunityIsReal
    NothingMissed
    TradeTypeOK
    RoundTripFloor
    StrandedStock
    LegTwoFunded
    PromisedGain
