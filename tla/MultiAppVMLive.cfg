CONSTANTS
    NMachines = 3
    SlotSize = 1
    NJobs = 3
    Jobs <- MCFit
    Distgen <- MCHeavy
    UseVMs = TRUE
SPECIFICATION FairSpec
PROPERTY
    QueueCompletes
