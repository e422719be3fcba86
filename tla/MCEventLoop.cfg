\* One tick is 50 ms; the times keep their order and most of their ratios.
SPECIFICATION LoopSpec
CONSTANTS
    Period = 6
    Gap = 2
    DelayMin = 2
    DelayMax = 4
    Pause = 1
    Batch = 1
    Socket = 2
    Queue = 13
    StepTime = 1
    ServeTime = 1
    MaxChanges = 1
    MaxNoise = 2
    MaxRequests = 1
    MaxSignals = 1
INVARIANTS
    EventLeadsToCheck
    FallbackCheck
    TakenOnTime
PROPERTIES
    EventsArePaced
CHECK_DEADLOCK FALSE
