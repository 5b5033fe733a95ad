SPECIFICATION Spec
CONSTANTS
    Threads <- const_Threads
    Keys <- const_Keys
    MaxPages = 2
    MaxDocuments = 2
    t1 = t1
    t2 = t2
    k1 = k1
SYMMETRY Symmetry
INVARIANTS
    EngineInUseOpen
    NoEngineLost
    StagesAccountedFor
CHECK_DEADLOCK FALSE
