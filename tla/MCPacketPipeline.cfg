SPECIFICATION FairSpec
CONSTANTS
    Node = {1, 2}
    QCap = 1
    CommandCap = 2
INVARIANTS
    TypeOK
    NoOldFrames
    LinksAsAsked
PROPERTIES
    GetsGoing
