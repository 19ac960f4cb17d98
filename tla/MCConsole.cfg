SPECIFICATION FairSpec
CONSTANTS
    MaxPosts = 3
    MaxCloses = 1
    WindowInTime = TRUE
INVARIANT TypeOK
INVARIANT NoTornText
INVARIANT ExitOnlyFromGap
PROPERTY StatusLineIsLossless
PROPERTY BarFollows
PROPERTY CallsReturn
