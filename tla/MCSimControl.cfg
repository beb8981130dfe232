SPECIFICATION FairSpec
CONSTANTS
    N = 2
    Conf = {0}
    QCap = 3
    MaxStat = 4
INVARIANTS StreamsAsAsked NoDoubleStart
PROPERTY ReportsArrive
CHECK_DEADLOCK FALSE
