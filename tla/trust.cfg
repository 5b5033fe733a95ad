\* Two claims, two tasks for them or for a group, two candidates each.
SPECIFICATION Spec
CONSTANTS
    c1 = c1
    c2 = c2
    g1 = g1
    p1 = p1
    Claims <- TwoClaims
    OtherCredentials <- OneGroup
    RequiredFields <- OneRequired
    Providers <- OneProvider
    ManualReview = ManualReview
    MaxTasks = 2
    MaxCandidates = 2
    MaxConfidence = 1
INVARIANTS
    GreenIsBacked
    WorkerContradictionIsRed
    VerdictIgnoresOrder
CHECK_DEADLOCK FALSE
