\* One data map, two packages, two upgrades, one step that raises, one death, one edit.
SPECIFICATION ManagerSpec
CONSTANTS
    Map = {m1}
    MaxVersions = 2
    MaxUpgrades = 2
    MaxFaults = 1
    MaxCrashes = 1
    MaxEdits = 1
    NoFile = NoFile
    Foreign = Foreign
INVARIANTS
    InstalledIsCoherent
    EntryIsComplete
PROPERTIES
    RolledBackRestores
CHECK_DEADLOCK FALSE
