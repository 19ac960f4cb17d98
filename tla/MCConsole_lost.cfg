SPECIFICATION Spec
CONSTANTS
    MaxPosts = 3
    MaxCloses = 1
    WindowInTime = TRUE
PROPERTY ConsoleIsLossless
