SPECIFICATION Spec
CONSTANTS
    Leader = leader
    Descendants = {nvcc}
    Compilers = {nvcc}
    ProcReadable = TRUE
    Signals = {"INT"}
    MaxSignals = 1
INVARIANTS
    EverySignalIsForwarded
