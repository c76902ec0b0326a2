SPECIFICATION Spec
CONSTANTS
    Programs = {p, q}
    MaxStarts = 3
    MaxGenerations = 3
    MaxLost = 1
INVARIANTS
    TypeOK
    NoOrphan
    PageTruthful
CHECK_DEADLOCK FALSE
