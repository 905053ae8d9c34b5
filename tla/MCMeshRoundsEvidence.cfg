CONSTANTS
    CounterCap = 3
    DegradedLossThreshold = 0
    ConfidenceFloor = 0
    MaxStatusEntries = 4
    MaxDegradedPairs = 1
    KeyRank <- MCKeyRank
    Matrices <- OutageOnly
    Configs <- OneConfig
    Depth = 3
SPECIFICATION Spec
INVARIANTS
    HealthyHasEvidence
