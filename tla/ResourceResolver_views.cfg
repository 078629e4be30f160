SPECIFICATION Spec
CONSTANTS
    DefaultPerJob = 2
    DefaultReserve = 1
    DefaultMaxJobs = 4
    Versions = {0, 1, 2}
    Limits = {4, 6}
    Assignments = {4, 6}
    HostTotal = 6
    Chunk = 2
    CpuCounts = {2}
INVARIANTS CapacityIsBinding SubtreeUsageCounted ParallelJobsFit SerialisedWhenUnsure ShimShowsCapacity
CHECK_DEADLOCK FALSE
