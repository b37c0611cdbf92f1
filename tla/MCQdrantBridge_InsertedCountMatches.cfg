CONSTANTS
    default = default
    other = other
    None = None
    Names <- MCNames
    Default = default
    Dims <- MCDims
    CreateSize = 384
    MaxVectors = 2
    MaxLines = 2
SPECIFICATION Spec
\* main() breaks out of its loop at end of input: the process really stops.
CHECK_DEADLOCK FALSE
INVARIANT InsertedCountMatches
