SPECIFICATION Spec
CONSTANTS
    Runs = {a, b}
    None = None
    MaxFaults = 3
INVARIANTS
    TypeOK
    OneCompiler
    NothingLeftBehind
PROPERTY
    CompileEnds
