SPECIFICATION Spec
CONSTANTS
    Selectors = {s1, s2, s3}
    Digests = {earlier, new}
    Blocks = 2
    Old = Old
    None = None
    Corrupt = Corrupt
    Hole = Hole
SYMMETRY Symmetry
INVARIANTS OnlyVerifiedWheels
CHECK_DEADLOCK FALSE
