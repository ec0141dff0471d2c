CONSTANTS
    Totals = {1, 2, 3, 7, 10, 11, 12, 25, 99, 100, 101}
    Counts = {1, 2, 3, 4, 5, 6, 7}
SPECIFICATION Spec
CHECK_DEADLOCK FALSE
INVARIANTS
    SumsExactly
    EvenSplit
