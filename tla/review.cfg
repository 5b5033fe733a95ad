\* Two reviews and two closes of a session that is being verified; one of them fails.
SPECIFICATION FairSpec
CONSTANTS
    e1 = e1
    e2 = e2
    v1 = v1
    v2 = v2
    c1 = c1
    c2 = c2
    Executors <- OneExecutor
    NoExecutor = NoExecutor
    Reviews <- TwoReviews
    Closes <- TwoCloses
    SidecarReadFails = FALSE
    MaxAttempts = 1
    MaxFaults = 1
INVARIANTS
    DecisionReceipted
    PurgeTracked
    PurgeLeavesNothing
PROPERTIES
    ImplementsRetention
    KeepsOwnership
    PurgesEnd
CHECK_DEADLOCK FALSE
