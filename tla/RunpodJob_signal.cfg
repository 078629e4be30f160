SPECIFICATION Spec
CONSTANTS
    None = None
    Mode = "GPU_BUILD"
    RequestImage = "builder"
    MinVcpuCount = 4
    MinMemoryGb = 32
    ContainerDiskGb = 80
    CpuFlavorIds <- MCCpuFlavors
    Pods = {p1, p2}
    GpuIds <- MCGpuIds
    Candidates <- TwoCandidates
    DetailsSet <- GpuDetails
    NCommands = 1
    WantArtifacts = TRUE
    HardTimeout = 3
    TerminateGrace = 8
    MinSelfTerminate = 2
    MaxSelfTerminate = 40
    PlacementRounds = 2
    BackoffSeconds = 1
    PollSeconds = 1
    CallCap = 1
    TransferCap = 2
    RmCap = 1
    RestSlack = 1
    DeleteAttempts = 3
    DeleteTimeout = 1
    DeletePause = 0
    WatchdogPause = 2
    MaxSignals = 1
    MaxTime = 10
INVARIANT NoCreateAfterSignal
