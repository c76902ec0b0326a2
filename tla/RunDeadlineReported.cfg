SPECIFICATION Spec
CONSTANTS
    Deadline = 2
    PauseLimit = 1
    MaxFetches = 2
    MaxCommands = 2
INVARIANT
    DeadlineReported
