CONSTANTS
    Second = 2
    DefaultInterval = 6
    DefaultTimeout = 2
    DefaultCount = 1
    ReadTimeout = 2
    WriteTimeout = 4
    MaxLate = 2
    PollInterval = 6
    Calls = 2
    Resources <- MCResources
    Doors <- MCDoors
SPECIFICATION Spec
INVARIANTS
    TypeOK
    MeasuredMeansComplete
    DropIsMeasured
    UnwantedWorkEnds
    Freshness
PROPERTIES
    IntervalIsKept
