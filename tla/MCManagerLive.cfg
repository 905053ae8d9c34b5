CONSTANTS
    CounterCap = 2
    DegradedLossThreshold = 0
    ConfidenceFloor = 0
    MaxStatusEntries = 4
    MaxDegradedPairs = 1
    KeyRank <- MCKeyRank
    Checks <- TwoChecks
    Specs <- LiveSpecs
    Matrices <- SafetyMatrices
    RetrySteps = 2
    MaxAge = 1
    MaxGeneration = 2
    MaxUid = 2
    MaxFaults = 1
    MaxCrashes = 1
SPECIFICATION FairSpec
PROPERTIES
    StatusConverges
    DueChecksAreServed
    GenerationCatchesUp
