SPECIFICATION Spec
CONSTANTS
    N = 3
    RootFiles = {1}
    VersionFiles = {3}
    UserMayWrite = FALSE
    ServerTrustsVersion = TRUE
    Faults = {"reply", "cut", "crash", "consent", "write", "rename", "remove"}
    MaxFaults = 3
INVARIANT TypeOK
INVARIANT UnverifiedStaysStaged
PROPERTY AllVerifiedFirst
PROPERTY InstalledForever
PROPERTY ApplyKeepsACopy
PROPERTY ElevationRespected
PROPERTY KeepsPromise
