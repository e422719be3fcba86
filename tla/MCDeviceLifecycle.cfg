CONSTANTS
    d1 = d1
    Device <- MCDevice
    Budget <- MCBudget
    Faults = 2
    Crashes = 1
    Edits = 1
    Reboots = 2
SPECIFICATION Spec
INVARIANTS ConsentHasIntegration ConfigOutlivesOwner QueueIsAccounted ActiveIsTrue
CHECK_DEADLOCK FALSE
