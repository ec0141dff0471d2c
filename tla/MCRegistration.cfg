SPECIFICATION FairSpec
CONSTANTS
    Requests = {r1, r2}
    MaxRequests = 3
    Branches = {b1, b2}
    Codes = {"a", "accented", "b"}
    KeyOf <- MCKeyOf
    Files <- MCFiles
INVARIANT AccountlessOnlyWhenCutOff
PROPERTIES ImportIsAllOrNothing RequestsEnd
CHECK_DEADLOCK FALSE
