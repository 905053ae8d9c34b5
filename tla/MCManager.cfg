CONSTANTS
    CounterCap = 2
    DegradedLossThreshold = 0
    ConfidenceFloor = 0
    MaxStatusEntries = 4
    MaxDegradedPairs = 1
    KeyRank <- MCKeyRank
    Checks <- OneCheck
    Specs <- SafetySpecs
    Matrices <- SafetyMatrices
    RetrySteps = 2
    MaxAge = 2
    MaxGeneration = 2
    MaxUid = 2
    MaxFaults = 1
    MaxCrashes = 1
SPECIFICATION Spec
INVARIANTS
    TypeOK
    ObservedGenerationIsBetween
    PlanFollowsPublished
PROPERTIES
    ProbesRespectInterval
    PollingRoundIsBounded
    TransitionTimeMarksChange
    ImplementsStatusContract
