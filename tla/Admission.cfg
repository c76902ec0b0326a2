SPECIFICATION Spec
CONSTANTS
    Visitors = {v1, v2}
    MaxActive = 2
    MaxJobs = 2
    MaxStarts = 2
    MaxCompiles = 2
    Second = 2
    Cooldown = 3
    Window = 4
    TableSize = 1
SYMMETRY VisitorSymmetry
INVARIANTS
    TypeOK
    ActiveBounded
    StartsBounded
    CompilesBounded
    CooldownKept
    RetrySuffices
