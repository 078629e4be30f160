SPECIFICATION Spec
CONSTANTS
    Leader = leader
    Descendants = {nvcc}
    Compilers = {nvcc}
    ProcReadable = FALSE
    Signals = {"INT", "TERM"}
    MaxSignals = 2
INVARIANTS
    ShellTypeOK
    NoStrays
    VerdictIsHonest
    AcceptedBuildIsClean
    ShellOutlivesBuild
    SignalMeansFailure
    TerminationIsForwarded
PROPERTIES
    ImplementsSupervisedBuild
