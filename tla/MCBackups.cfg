SPECIFICATION Spec
CONSTANTS
    Requests = {r1, r2}
    Types = {"Full", "DataOnly", "SchemaOnly"}
    MaxRuns = 2
    MaxRestores = 2
    MaxWork = 1
    MaxClock = 1
INVARIANTS DataOnlyIsNeverRestored RestoreGivesItBack UnfinishedIsExplained IInv
PROPERTIES OwnRowComesBackUnfinished
SYMMETRY Slots
CHECK_DEADLOCK FALSE
