SPECIFICATION Spec
CONSTANTS
    Node = {1, 2, 3, 4, 5, 6, 7, 8, 9}
    Key <- Keys
    Null = 0
INVARIANTS
    RedBlack
    NothingDangles
    LooksAreRight
PROPERTY IsOrderedSet
