CONSTANTS
    Pairs <- MCPairs
    Results <- MCResults
    FailureThreshold = 0
    SuccessThreshold = 0
    CounterCap = 3
    MaxRounds = 6
SPECIFICATION Spec
INVARIANTS
    TypeOK
    StatusMatchesHistory
    ReportFollowsHistory
PROPERTIES
    FlipsAreEarned
