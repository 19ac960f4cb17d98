SPECIFICATION Spec
CONSTANTS
    FileSize = 3
    InitialBuffer = 1
    Faults = {}
PROPERTY ClosedBeforeCompleted
