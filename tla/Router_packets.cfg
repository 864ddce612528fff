SPECIFICATION Spec
CONSTANTS
    Comps = {c1, c2}
    Names = {"a", "b"}
    Users = {"half"}
    Aliases <- OneAlias
    Aci <- AciPartial
    Bucket <- Collide
    LegacyAllowed = TRUE
    FilterTargets <- SomeFilter
    WellBehaved = FALSE
    MaxPkt = 2
    MaxRoute = 2
    NoName = NoName
    NoComp = NoComp
    Deny = Deny
SYMMETRY CompSymmetry
INVARIANTS InOrder
