SPECIFICATION Spec
CONSTANTS
    Fds = {f1, f2}
    Users = {u1, u2}
    Resources = {r1}
    NoId = NoId
    MaxNow = 1
    MaxChan = 2
    StartMayFail = TRUE
    AuthKinds <- Sasl
    MaxRes = 1
    Reuse = TRUE
    Patient = TRUE
    LinkMayFail = TRUE
    SMMayFail = FALSE
SYMMETRY Symmetry
INVARIANTS OwnPackets LostLinkEndsAll
