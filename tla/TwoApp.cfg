CONSTANTS
    NMachines = 2
    SlotSize = 2
    NJobs = 4
    Jobs <- MCJobs
    Distgen <- MCDistgen
    UseVMs = FALSE
SPECIFICATION FairSpec
INVARIANTS
    TypeOK
    NoLostWakeup
    AbortsExplained
    NothingStaysFrozen
    OneJobFrozen
    FrozenHasPartner
PROPERTIES
    ImplementsAllocation
    FrozenJobsThaw
    QueueCompletes
