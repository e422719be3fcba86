CONSTANTS
    Nodes = {n1, n2}
    Selected = n1
    Contents <- MCContent
    MaxInst = 3
    MaxChanges = 2
SPECIFICATION Spec
INVARIANTS AdmittedIsOneDisk ReportIsTrue
PROPERTY ImplementsPlanning
CHECK_DEADLOCK FALSE
