CONSTANTS
    NMachines = 2
    SlotSize = 2
    NJobs = 3
    Jobs <- MCShapes
    Distgen <- MCCoarse
    UseVMs = FALSE
SPECIFICATION Spec
CHECK_DEADLOCK FALSE
INVARIANTS
    CgroupsFollowJobs
    AbortsExplained
    LockIntactWithoutWatchers
PROPERTY
    ImplementsAllocation
