SPECIFICATION Spec
CONSTANTS
    Commits = {c1, c2}
    AssetNames = {"wheel", "manifest"}
    MaxAttempts = 3
    MaxEdits = 3
    TagMayMoveLast = FALSE
    None = None
INVARIANTS PublishedIsReviewed
PROPERTIES NothingReplaced
CHECK_DEADLOCK FALSE
