SPECIFICATION Spec
CONSTANTS
    d0 = d0
    d1 = d1
    d2 = d2
    x1 = x1
    devA = devA
    devB = devB
    NoInst = NoInst
    NoDev = NoDev
    Inst <- MCInst
    Dev <- MCDev
    DevOf <- MCDevOf
    Enrolled <- MCInst
    Genuine <- MCGenuine
    First = d0
    MaxCrashes = 1
INVARIANTS
    JournalCovers
    TakeoverViewFresh
    ActiveIsAdmitted
    ControllerTracksKernel
PROPERTIES
    NoMutationAfterCutoff
    ImplementsStableMap
CHECK_DEADLOCK FALSE
