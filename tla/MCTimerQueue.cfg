SPECIFICATION Spec
CONSTANTS
    Elem = {e1, e2, e3, e4, e5, e6}
    NULL = NULL
    Stream = {c1, c2}
    Hold = 2
    Intervals = {1, 2}
SYMMETRY Symmetry
INVARIANTS
    TreeSound
    ArgLive
    NoLeak
