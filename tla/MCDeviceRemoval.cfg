CONSTANTS
    d1 = d1
    Device <- MCDevice
    Budget <- MCBudget
    Faults = 1
    Crashes = 0
    Edits = 0
    Reboots = 0
SPECIFICATION Spec
INVARIANTS RemovalSeesTools
CHECK_DEADLOCK FALSE
