SPECIFICATION FairSpec
CONSTANTS
    N = 3
    RootFiles = {1}
    VersionFiles = {3}
    UserMayWrite = FALSE
    ServerTrustsVersion = FALSE
    Faults = {"reply", "cut", "crash", "consent", "unreadable", "write", "flush", "rename", "copy", "remove"}
    MaxFaults = 2
PROPERTY EventuallyInstalled
