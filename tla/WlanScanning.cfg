SPECIFICATION Spec
CONSTANTS
    MaxOps = 4
    MaxFaults = 1
    MaxReports = 1
    MaxAps = 1
INVARIANTS
    ScanBookkeeping
    ScanEndsBeforePno
    Agreement
    UserSpaceKnows
PROPERTIES
    ResultsInOrder
CHECK_DEADLOCK FALSE
