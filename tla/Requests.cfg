CONSTANTS
    NMachines = 2
    NOps = 2
    NRunning = 1
SPECIFICATION Spec
CHECK_DEADLOCK FALSE
INVARIANTS
    TypeOK
    ResultsAreMine
    NoSleepOnMessage
PROPERTIES
    OperationsReturn
    ImplementsAtomicRequests
