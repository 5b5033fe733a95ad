CONSTANTS
    p1 = p1
    p2 = p2
    Visits <- MCVisits
    Choices = {"HUMAN_APPROVED", "HUMAN_REJECTED"}
SPECIFICATION PageSpec
SYMMETRY Symmetry
INVARIANTS
    ShownDecisionRecorded
    CloseOfferedWhenDecided
CHECK_DEADLOCK FALSE
