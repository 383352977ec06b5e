CONSTANTS
    MaxArgs = 9
    PoolSize = 4
    Tokens <- MCTokens
    MachineFiles <- MCFiles
SPECIFICATION Spec
CHECK_DEADLOCK FALSE
INVARIANTS
    VMsMatchSlots
    TopicsSubscribed
PROPERTIES
    NoVMsLeft
    StartupEnds
