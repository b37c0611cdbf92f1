CONSTANTS
    DefaultDim = 2
    MaxBatch = 2
    NaN = NaN
    OllamaVectors <- MCOllamaVectors
SPECIFICATION Spec
INVARIANT ZeroNormReturnedUnchanged
