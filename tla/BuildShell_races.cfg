SPECIFICATION FairSpec
CONSTANTS
    Leader = leader
    Descendants = {ninja, nvcc}
    Compilers = {nvcc}
    ProcReadable = TRUE
    Signals = {"TERM"}
    MaxSignals = 0
PROPERTIES
    NoFalseAlarm
    RelayedSignalEndsBuild
