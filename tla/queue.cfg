\* Two requesters race to enqueue, two workers to dequeue; one fault.
SPECIFICATION FairSpec
CONSTANTS
    w1 = w1
    w2 = w2
    q1 = q1
    q2 = q2
    s1 = s1
    Workers <- TwoWorkers
    NoWorker = NoWorker
    Requesters <- TwoRequesters
    Sessions <- OneSession
    Outcomes = {"HUMAN_APPROVED"}
    MaxJobs = 2
    MaxFaults = 1
INVARIANTS
    ClaimedOnce
    OneJobRuns
    DoneMeansVerified
PROPERTIES
    PendingJobTaken
    ClaimedJobEnds
CHECK_DEADLOCK FALSE
