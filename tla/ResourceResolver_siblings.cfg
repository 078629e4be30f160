SPECIFICATION Spec
CONSTANTS
    DefaultPerJob = 2
    DefaultReserve = 1
    DefaultMaxJobs = 4
    Versions = {1}
    Limits = {4, 8}
    Assignments = {4, 6}
    HostTotal = 8
    Chunk = 2
    CpuCounts = {2}
INVARIANTS SiblingsCounted
CHECK_DEADLOCK FALSE
