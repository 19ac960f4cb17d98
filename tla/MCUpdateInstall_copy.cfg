SPECIFICATION Spec
CONSTANTS
    N = 3
    RootFiles = {1}
    VersionFiles = {3}
    UserMayWrite = FALSE
    ServerTrustsVersion = FALSE
    Faults = {"copy"}
    MaxFaults = 1
INVARIANT AppliedIsTrue
