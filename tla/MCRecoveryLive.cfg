SPECIFICATION FairSpec
CONSTANTS
    d0 = d0
    d1 = d1
    d2 = d2
    x1 = x1
    devA = devA
    devB = devB
    NoInst = NoInst
    NoDev = NoDev
    Inst <- MCFewInst
    Dev <- MCDev
    DevOf <- MCFewDevOf
    Enrolled <- MCFewInst
    Genuine <- MCFewGenuine
    First = d0
    MaxCrashes = 0
PROPERTIES
    EpisodeEnds
    OwnerEndStopsQueueing
CHECK_DEADLOCK FALSE
