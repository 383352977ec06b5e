CONSTANTS
    NMachines = 3
    SlotSize = 1
    NJobs = 3
    Jobs <- MCJobs
    Distgen <- MCLoads
    UseVMs = TRUE
SPECIFICATION Spec
INVARIANTS
    TypeOK
    UsageMatchesConfig
    CommandFollowsVMs
    LoadsFollowVMs
    ThresholdKept
    AbortsExplained
PROPERTY
    ImplementsMigratingAllocation
