SPECIFICATION Spec
CONSTANTS
    Resources = {"r1", "r2"}
    Peers = {"bob", "eve"}
    Domains = {"eve"}
    Roster = {"bob"}
    Admins = {"bob"}
    Services = {"muc"}
    Static = {"jud"}
    Offline = {}
    Scenes <- All
    OwnPresence = TRUE
    MaxSend = 1
    MaxQueue = 2
    MaxBounce = 1
INVARIANTS TypeOK TopSession KnowsWeAreGone NothingLost NothingTwice DiscoTrue
