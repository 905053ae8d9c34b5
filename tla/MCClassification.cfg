CONSTANTS
    w1 = w1
    w2 = w2
    w3 = w3
    Nodes <- MCNodes
    Results <- MCResults
    MaxDoubled = 1
    DegradedLossThreshold = 0
    ConfidenceFloor = 0
SPECIFICATION Spec
SYMMETRY NodeSymmetry
INVARIANTS
    TypeOK
    VerdictsAreTrue
    VerdictIsDeterministic
    BlameExplainsFailures
    DirectionsAreDual
    FaultsAreNamed
CHECK_DEADLOCK FALSE
