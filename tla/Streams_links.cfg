SPECIFICATION Spec
CONSTANTS
    Offers = {"tls", "zip"}
    TlsRequired = TRUE
    MaxPkt = 2
    MaxQueue = 2
    Peer = "external"
    Faults = {"denied", "error", "close"}
INVARIANTS SameLayers Watched Flushed
PROPERTIES IsChannel Negotiates
CHECK_DEADLOCK FALSE
