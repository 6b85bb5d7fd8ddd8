SPECIFICATION Spec
CONSTANTS
    Deployments <- MCLiveSigner
    InitialLots <- MCStock
    MaxCalls = 1
INVARIANTS
    ConfirmedMeansBothLegs
CHECK_DEADLOCK FALSE
