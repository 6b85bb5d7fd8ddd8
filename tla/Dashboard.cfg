SPECIFICATION FairSpec
CONSTANTS
    d1 = d1
    d2 = d2
    Clients <- MCClients
    Values <- MCValues
    MaxClicks = 2
    MaxQueue = 2
INVARIANTS
    TypeOK
    ScreenShowsLastEdits
PROPERTIES
    StatusCatchesUp
