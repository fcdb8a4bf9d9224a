SPECIFICATION Spec
CONSTANTS
    BlockBytes = 40
    IQBytes = 6
    MicBytes = 2
    MaxReceivers = 3
    MaxRate = 1
    Second = 30
    Millisecond = 12
    SteadyReceivers = TRUE
INVARIANTS TypeOK WithinBlock PaceValid
