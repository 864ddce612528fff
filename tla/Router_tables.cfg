SPECIFICATION Spec
CONSTANTS
    Comps = {c1, c2}
    Names = {"a", "b"}
    Users = {"jabberd", "b"}
    Aliases <- NoAliases
    Aci <- AciAll
    Bucket <- Collide
    LegacyAllowed = TRUE
    FilterTargets <- NoFilter
    WellBehaved = TRUE
    MaxPkt = 0
    MaxRoute = 3
    NoName = NoName
    NoComp = NoComp
    Deny = Deny
INVARIANTS TypeOK RoutesValid BoundRouted LogSinksLive DefaultRouteBound AdvertisedExactly CloseOnce
PROPERTIES Reaped
