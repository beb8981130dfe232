SPECIFICATION Spec
CONSTANTS
    Node = {1, 2}
    Scenarios <- Mixed
    TcTtl = 64
    SeqMod = 65536
CHECK_DEADLOCK FALSE
INVARIANT OnlyDuplicatesDropped
