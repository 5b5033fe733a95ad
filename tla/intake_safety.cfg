\* Two token requests and two uploads over two sessions, one request fails.
SPECIFICATION Spec
CONSTANTS
    s1 = s1
    s2 = s2
    t1 = t1
    t2 = t2
    u1 = u1
    u2 = u2
    Tokens <- TwoTokens
    Uploads <- TwoUploads
    NoSession = NoSession
    NoUpload = NoUpload
    FlatteningEnabled = TRUE
    Sessions <- TwoSessions
    MaxFaults = 1
INVARIANTS
    OneUploadAccepted
    
    UploadAnswersTruthful
SYMMETRY Symmetry
CHECK_DEADLOCK FALSE
