CONSTANTS
    Rosters <- MCRosters
    Answers <- MCAnswers
    Limits <- MCLimits
SPECIFICATION FairSpec
INVARIANTS
    TypeOK
    ConcurrencyBound
    NeverStuck
PROPERTIES
    ImplementsMeasurement
    RoundsEnd
