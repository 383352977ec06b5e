CONSTANTS
    NMachines = 1
    SlotSize = 1
    NJobs = 2
    Jobs <- MCFit
    Distgen <- MCCoarse
    UseVMs = FALSE
SPECIFICATION FairSpec
CHECK_DEADLOCK FALSE
PROPERTY
    WatchedJobsThaw
