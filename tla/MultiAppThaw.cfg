CONSTANTS
    NMachines = 2
    SlotSize = 1
    NJobs = 3
    Jobs <- MCFit
    Distgen <- MCCoarse
    UseVMs = FALSE
SPECIFICATION Spec
CHECK_DEADLOCK FALSE
INVARIANT
    FrozenUntilFine
