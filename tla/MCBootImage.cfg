\* Two builds, two upgrades, three steps that raise, two deaths, one edit.
SPECIFICATION Spec
CONSTANTS
    MaxVersions = 2
    MaxUpgrades = 2
    MaxFaults = 3
    MaxCrashes = 2
    MaxEdits = 1
    NoFile = NoFile
    Foreign = Foreign
INVARIANTS
    MenuNeverDangles
    Restorable
PROPERTIES
    RecordsTellTheTruth
CHECK_DEADLOCK FALSE
