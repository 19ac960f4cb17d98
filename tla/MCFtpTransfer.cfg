SPECIFICATION FairSpec
CONSTANTS
    FileSize = 3
    InitialBuffer = 1
    Faults = {"refuse", "split", "close", "abort", "address", "connect", "send"}
INVARIANT TypeOK
INVARIANT FileIsWhole
INVARIANT TransferIsPrepared
INVARIANT OneCommandAtATime
INVARIANT SocketsReleased
PROPERTY Terminates
