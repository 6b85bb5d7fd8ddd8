SPECIFICATION Spec
CONSTANTS
    FetchLimit = 2
    ListLimit = 4
    TableLimit = 2
    ChartLimit = 2
    Failed = {2}
    MaxTrades = 6
    MaxQueue = 2
INVARIANTS
    TypeOK
    NothingElseMissing
    ListInOrder
    ChartHasListed
