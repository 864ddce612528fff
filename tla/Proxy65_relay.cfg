SPECIFICATION Spec
CONSTANTS
    Scenes <- All
    Hashes = {"h"}
    None = None
    Cap = 1
    RetryInit = 1
    RetryLost = 1
INVARIANTS Paired Faithful CleanEnd GivesUp
CHECK_DEADLOCK FALSE
PROPERTIES Expires
