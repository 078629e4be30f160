SPECIFICATION FairSpec
CONSTANTS
    None = None
    Mode = "GPU_VALIDATION"
    RequestImage = "builder"
    MinVcpuCount = 4
    MinMemoryGb = 32
    ContainerDiskGb = 80
    CpuFlavorIds <- MCCpuFlavors
    Pods = {p1, p2}
    GpuIds <- MCGpuIds
    Candidates <- TwoCandidates
    DetailsSet <- SmallGpuDetails
    NCommands = 1
    WantArtifacts = FALSE
    HardTimeout = 2
    TerminateGrace = 6
    MinSelfTerminate = 2
    MaxSelfTerminate = 40
    PlacementRounds = 2
    BackoffSeconds = 1
    PollSeconds = 1
    CallCap = 1
    TransferCap = 2
    RmCap = 1
    RestSlack = 0
    DeleteAttempts = 2
    DeleteTimeout = 1
    DeletePause = 0
    WatchdogPause = 2
    MaxSignals = 1
    MaxTime = 9
PROPERTIES
    RunEnds
    PodsReclaimed
