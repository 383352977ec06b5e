CONSTANTS
    NMachines = 2
    SlotSize = 2
    NJobs = 4
    Jobs <- MCFit
    Distgen <- MCDistgen
    UseVMs = FALSE
SPECIFICATION Spec
INVARIANT
    SlotAlwaysFound
