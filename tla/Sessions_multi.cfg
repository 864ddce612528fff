SPECIFICATION Spec
CONSTANTS
    Fds = {f1}
    Users = {u1}
    Resources = {r1, r2, r3}
    NoId = NoId
    MaxNow = 2
    MaxChan = 2
    StartMayFail = FALSE
    AuthKinds <- Sasl
    MaxRes = 3
    Reuse = FALSE
    Patient = TRUE
    LinkMayFail = FALSE
    SMMayFail = TRUE
INVARIANTS NoGhosts ActiveHasResources ResultMeansSession NoEchoes
PROPERTIES Answers
