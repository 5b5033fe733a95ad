SPECIFICATION FairSpec
CONSTANTS
    Runs = {r1, r2}
    NumKeys = 2
INVARIANTS
    RefusalsBounded
    ReadyMeansServed
PROPERTIES
    StagesEnd
CHECK_DEADLOCK FALSE
