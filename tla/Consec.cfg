CONSTANTS
    NMachines = 3
    SlotSize = 2
    NJobs = 3
    Jobs <- MCJobs
    UseVMs = FALSE
SPECIFICATION FairSpec
INVARIANTS
    TypeOK
    UsageMatchesConfig
    MutualExclusion
    NoLostWakeup
    OnlyBadJobsAbort
    WholeNodes
    SafeTeardown
    CgroupsFollowJobs
PROPERTIES
    ImplementsAllocation
    QueueCompletes
