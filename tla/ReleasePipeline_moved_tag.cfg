SPECIFICATION Spec
CONSTANTS
    Commits = {c1, c2}
    AssetNames = {"wheel", "manifest"}
    MaxAttempts = 3
    MaxEdits = 3
    TagMayMoveLast = TRUE
    None = None
INVARIANTS PublishedFromItsTag
CHECK_DEADLOCK FALSE
