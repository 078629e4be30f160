SPECIFICATION Spec
CONSTANTS
    DefaultPerJob = 2
    DefaultReserve = 1
    DefaultMaxJobs = 4
    MinimumCpus = 2
    MinimumMemory = 4
    RecommendedMemory = 8
    MatrixMaxJobs = 2
    MatrixExtParallel = 1
    Limits = {2, 4, 6}
    Usages = {1, 5}
    Assignments = {4, 8}
    RunpodCounts = {0, 2}
    Cpus = {1, 4}
    Reserves = {}
    MaxJobsOptions = {}
    ExtOptions = {}
    Overrides = {TRUE, FALSE}
    HostTotal = 16
    PerJobMemory = 2
    Peaks = {1, 5, 7}
    MaxChanges = 2
INVARIANTS GateAgreesWithPreflight
CHECK_DEADLOCK FALSE
