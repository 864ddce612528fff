SPECIFICATION Spec
CONSTANTS
    Fds = {f1, f2}
    Users = {u1}
    Resources = {r1, r2}
    NoId = NoId
    MaxNow = 2
    MaxChan = 2
    StartMayFail = FALSE
    AuthKinds <- Both
    MaxRes = 1
    Reuse = FALSE
    Patient = TRUE
    LinkMayFail = FALSE
    SMMayFail = FALSE
INVARIANTS TypeOK NoOrphans
CHECK_DEADLOCK FALSE
