SPECIFICATION FairSpec
CONSTANTS
    Responses <- MCAll
    MaxHops = 2
    InitialBuffer = 3
    MaxFinal = 100
    Faults = {"truncate", "connect", "send"}
INVARIANT TypeOK
INVARIANT FullMessage
INVARIANT ChunksInOrder
INVARIANT FailureIsReal
INVARIANT CodeIsAnswered
INVARIANT OneSocket
PROPERTY Terminates
