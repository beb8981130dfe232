SPECIFICATION FairTopologySpec
CONSTANTS
    Addr = {1, 2}
    AnsnMod = 11
    VTime = 3
    MaxDelay = 1
    MaxBumps = 1
    MaxObsolete = 1
INVARIANTS
    NeverOlder
PROPERTY CatchesUp
