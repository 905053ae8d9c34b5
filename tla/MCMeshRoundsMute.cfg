CONSTANTS
    CounterCap = 3
    DegradedLossThreshold = 0
    ConfidenceFloor = 0
    MaxStatusEntries = 4
    MaxDegradedPairs = 1
    KeyRank <- MCKeyRank
    Matrices <- MuteThenSound
    Configs <- OneConfig
    Depth = 6
SPECIFICATION Spec
INVARIANTS
    HardFailureWasMeasured
