SPECIFICATION ClaimsSpec
CONSTANTS
    FieldIds <- const_FieldIds
    Texts <- const_Texts
    Blank = Blank
    NamedPages = {1}
    MaxEvidence = 2
    MaxClaims = 2
    f1 = f1
    f2 = f2
    a = a
    b = b
SYMMETRY Symmetry
INVARIANTS
    ExtractedValuesStand
    DecisionOfOneClaim
    HighlightsBelong
CHECK_DEADLOCK FALSE
