SPECIFICATION FairSpec
CONSTANTS
    Registry <- MCRegistry
    Branches = {1, 2, 3, 4}
    MaxVersion = 2
    MaxOutages = 1
    MaxReports = 2
INVARIANTS EveryBranchIsAccountedFor UnlabelledIsCurrent IInv
PROPERTIES ReportsEnd
CHECK_DEADLOCK FALSE
