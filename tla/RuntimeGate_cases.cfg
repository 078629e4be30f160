SPECIFICATION Spec
CONSTANTS
    Capabilities = {sm89, sm90}
    Implementations = {dispatch, kernel}
    CausalModes = {causal, full}
    Images = {selected, other}
    Expected = sm90
    Image = selected
    Absent = Absent
INVARIANTS JudgesAgree FailureIsDiagnosed
CHECK_DEADLOCK FALSE
