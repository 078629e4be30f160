SPECIFICATION FairSpec
CONSTANTS
    Builds = {b1, b2}
    Dirs = {d1, d2}
    Matrix <- MCMatrix
    Gpus <- MCGpus
    cu128 = cu128
    cu130 = cu130
    wheel1 = wheel1
    wheel2 = wheel2
    torch1 = torch1
    torch2 = torch2
    g1 = g1
    g2 = g2
    g3 = g3
    Absent = Absent
INVARIANTS MergedIsOneBuild SelectionIsExact
PROPERTIES MergeDecides
CHECK_DEADLOCK FALSE
