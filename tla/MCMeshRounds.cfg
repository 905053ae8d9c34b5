CONSTANTS
    CounterCap = 3
    DegradedLossThreshold = 0
    ConfidenceFloor = 0
    MaxStatusEntries = 4
    MaxDegradedPairs = 1
    KeyRank <- MCKeyRank
    Matrices <- MCMatrices
    Configs <- MCConfigs
    Depth = 3
SPECIFICATION Spec
INVARIANTS
    TypeOK
    PersistentOutcomeIsReported
    SteadyStateIsTransparent
    AgentErrorsReachTheGuardrail
    StatusAgreesWithVerdict
