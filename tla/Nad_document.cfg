SPECIFICATION Spec
CONSTANTS
    Names = {"x", "y"}
    Zapped = "-"
    MaxElems = 4
    MaxDepth = 3
    MaxExtra = 1
INVARIANTS RoundTrip FindsFirst
PROPERTIES IsDocument
CHECK_DEADLOCK FALSE
