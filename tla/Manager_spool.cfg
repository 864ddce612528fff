SPECIFICATION Spec
CONSTANTS
    Resources = {"r1"}
    Peers = {"bob", "eve"}
    Domains = {"eve"}
    Roster = {"bob"}
    Admins = {"bob"}
    Services = {"muc"}
    Static = {"jud"}
    Offline = {}
    Scenes <- Shy
    OwnPresence = TRUE
    MaxSend = 1
    MaxQueue = 2
    MaxBounce = 1
INVARIANT SpoolDelivered
