CONSTANTS
    CounterCap = 3
    DegradedLossThreshold = 0
    ConfidenceFloor = 0
    MaxStatusEntries = 4
    MaxDegradedPairs = 1
    KeyRank <- MCKeyRank
    Checks <- TwoChecks
    Specs <- SharedSpecs
    Matrices <- OutageOnly
    RetrySteps = 2
    MaxAge = 1
    MaxGeneration = 1
    MaxUid = 2
    MaxFaults = 0
    MaxCrashes = 0
SPECIFICATION FairSpec
PROPERTIES
    StatusConverges
