\* Two workers and a /run request compete for one session, crash and go stale.
SPECIFICATION FairSpec
CONSTANTS
    w1 = w1
    w2 = w2
    r1 = r1
    Workers <- TwoWorkers
    Requests <- OneRequest
    NoLease = NoLease
    MaxAttempts = 3
    MaxCrashes = 2
INVARIANTS
    OwnerHoldsSession
    LeaseExcludesOthers
    VerdictOfLatestAttempt
    ReceiptsConsistent
PROPERTIES
    ImplementsOwnership
    HeartbeatingSessionMovesOn
    AttemptsEnd
CHECK_DEADLOCK FALSE
