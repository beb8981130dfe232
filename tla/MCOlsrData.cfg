SPECIFICATION FairDataSpec
CONSTANTS
    Node = {d, n1, n2}
    Dest = d
    NoRoute = NoRoute
    QCap = 2
INVARIANT OneCopy
PROPERTY LoopsEndInDelivery
