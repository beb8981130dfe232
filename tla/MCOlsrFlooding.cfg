SPECIFICATION Spec
CONSTANTS
    Node = {1, 2, 3, 4, 5}
    Scenarios <- AllScenarios
    TcTtl = 64
    SeqMod = 65536
CHECK_DEADLOCK FALSE
INVARIANTS
    RelayOnce
    TakenIsRemembered
    TcReachesAll
