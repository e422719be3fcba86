SPECIFICATION FairSpec
CONSTANTS
    MaxStarts = 3
    MaxDisks = 2
    MaxStops = 2
    MaxConfirms = 1
    NoFile = NoFile
INVARIANTS
    QueueOnCovered
    RefusedStopKeepsOwner
    StoppedIsTrue
PROPERTIES
    TakeoverEnds
CHECK_DEADLOCK FALSE
