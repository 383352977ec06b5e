CONSTANTS
    NMachines = 3
    SlotSize = 1
    NJobs = 2
    Jobs <- MCFit
    Distgen <- MCApart
    UseVMs = TRUE
SPECIFICATION Spec
INVARIANT
    PairsResolveOverload
