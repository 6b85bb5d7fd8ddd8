SPECIFICATION FairSpec
CONSTANTS
    Deployments <- MCDeployments
    InitialLots <- MCStock
    MaxCalls = 3
INVARIANTS
    TypeOK
    DryRunInert
    LegsInOrder
    ArbNeedsStock
PROPERTIES
    SimulatedBeforeSent
    ImplementsContract
    CallReturns
CHECK_DEADLOCK FALSE
