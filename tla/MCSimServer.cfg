SPECIFICATION ServerSpec
CONSTANTS
    Byte = {0, 1, 5, 9}
    Size = 4
    Lengths <- UpToOneTooMany
    Uses = {"sendq", "recvq", "olsr_tx_msgbuf"}
    BodyLens = {1}
    IoSize = 3
INVARIANTS NoOverrun FramesUnlessRefused
PROPERTY ServedAsQueue
CONSTRAINT FramedSoFar
