SPECIFICATION FairSpec
CONSTANTS
    Node = {1, 2, 3}
    Radios <- Conditions
    VTime = 3
INVARIANTS
    NeighborFollowsLink
    SymIsRecent
    SelectorHasLink
PROPERTY Convergence
