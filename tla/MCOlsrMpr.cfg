SPECIFICATION FairSpec
CONSTANTS
    Addr = {1, 2, 3, 4, 5, 6}
    own_ip = 1
    Los <- MCLos
    AnsnMod = 2
INVARIANTS
    SelectionInv
    MprCoversTwoHop
    StatusMatchesMprSet
PROPERTIES
    KeepsPromise
    SelectionReturns
