SPECIFICATION Spec
CONSTANTS
    Deadline = 2
    PauseLimit = 1
    MaxFetches = 3
    MaxCommands = 3
INVARIANTS
    TypeOK
    FreeTimeIsIdle
    TornNeverParsed
    ChildReaped
    Lockstep
    StepBudget
PROPERTIES
    ClockCharges
    ContractSpec
