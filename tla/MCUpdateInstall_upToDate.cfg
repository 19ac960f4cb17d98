SPECIFICATION Spec
CONSTANTS
    N = 3
    RootFiles = {1}
    VersionFiles = {2}
    UserMayWrite = FALSE
    ServerTrustsVersion = TRUE
    Faults = {"crash"}
    MaxFaults = 1
INVARIANT UpToDateIsTrue
