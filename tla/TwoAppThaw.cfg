CONSTANTS
    NMachines = 2
    SlotSize = 2
    NJobs = 3
    Jobs <- MCFit
    Distgen <- MCDistgen
    UseVMs = TRUE
SPECIFICATION Spec
INVARIANT
    ThawReachesAllDomains
