SPECIFICATION Spec
CONSTANTS
    None = None
    Mode = "CPU"
    RequestImage = "builder"
    MinVcpuCount = 4
    MinMemoryGb = 32
    ContainerDiskGb = 80
    CpuFlavorIds <- MCCpuFlavors
    Pods = {p1}
    GpuIds <- MCGpuIds
    Candidates <- NoCandidate
    DetailsSet <- CpuDetails
    NCommands = 2
    WantArtifacts = TRUE
    HardTimeout = 4
    TerminateGrace = 12
    MinSelfTerminate = 2
    MaxSelfTerminate = 40
    PlacementRounds = 2
    BackoffSeconds = 1
    PollSeconds = 1
    CallCap = 1
    TransferCap = 2
    RmCap = 1
    RestSlack = 1
    DeleteAttempts = 3
    DeleteTimeout = 1
    DeletePause = 1
    WatchdogPause = 2
    MaxSignals = 1
    MaxTime = 20
INVARIANTS
    SourceOnlyOnVerifiedPod
    WatchdogGuardsWork
