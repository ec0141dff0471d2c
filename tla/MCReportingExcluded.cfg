SPECIFICATION Spec
CONSTANTS
    Registry <- MCRegistry
    Branches = {1, 2, 3, 4}
    MaxVersion = 2
    MaxOutages = 1
    MaxReports = 2
INVARIANT FailedShardIsExcluded
CHECK_DEADLOCK FALSE
