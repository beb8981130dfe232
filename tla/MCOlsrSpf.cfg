SPECIFICATION FairSpec
CONSTANTS
    Addr = {1, 2, 3, 4, 5}
    own_ip = 1
    Links <- Ring
    MaxObsolete = 1
INVARIANTS
    RouteInv
    ShortestRoutes
    ComparisonInBounds
    StatMatchesTable
    TableFollowsTopology
PROPERTY CalcReturns
