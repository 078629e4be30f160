SPECIFICATION Spec
CONSTANTS
    Selectors = {s1, s2}
    Digests = {new}
    Blocks = 2
    Old = Old
    None = None
    Corrupt = Corrupt
    Hole = Hole
INVARIANTS EveryInstallIsSelected
CHECK_DEADLOCK FALSE
