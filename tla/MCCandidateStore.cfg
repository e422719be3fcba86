CONSTANTS
    Nothing = Nothing
    Contents <- MCContent
    MaxChanges = 2
    MaxActive = 2
    MaxHistory = 3
    MaxCrashes = 1
    MaxEdits = 1
SPECIFICATION Spec
INVARIANTS OneLivePerPlan CancelledIsClean StoreIsBounded
PROPERTY PreparedWasTrue
CHECK_DEADLOCK FALSE
