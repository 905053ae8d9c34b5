CONSTANTS
    CounterCap = 2
    DegradedLossThreshold = 0
    ConfidenceFloor = 0
    MaxStatusEntries = 4
    MaxDegradedPairs = 1
    KeyRank <- MCKeyRank
    Matrices <- MCMatrices
    Configs <- MCConfigs
    Depth = 1
    Rosters <- MCRosters
    Answers <- MCAnswers
    Limits <- MCLimits
SPECIFICATION ReconcileSpec
PROPERTIES
    ImplementsMeshRounds
    VerdictIsOfThisRound
