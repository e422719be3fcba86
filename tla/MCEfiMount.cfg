\* Four steps that raise, two deaths, two edits.
SPECIFICATION Spec
CONSTANTS
    MaxFaults = 4
    MaxCrashes = 2
    MaxEdits = 2
INVARIANTS
    Withdrawable
    RecordIsTrue
PROPERTIES
    MountComesBack
CHECK_DEADLOCK FALSE
