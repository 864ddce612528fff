SPECIFICATION Spec
CONSTANTS
    Scenes <- Two
    Hashes = {"h"}
    None = None
    Cap = 1
    RetryInit = 1
    RetryLost = 1
CHECK_DEADLOCK FALSE
PROPERTIES Relays
