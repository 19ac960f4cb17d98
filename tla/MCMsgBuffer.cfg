SPECIFICATION Spec
CONSTANTS
    MaxSize = 12
    MaxString = 4
    MaxWrites = 3
    Inputs <- MCInputs
INVARIANT MessageFits
INVARIANT ReadsWhatWasWritten
