SPECIFICATION Spec
CONSTANTS
  n = n
  m = m
  r = r
  x = x
  y = y
  v = v
  w = w
  g = g
  Blank = Blank
  Ids <- const_Ids
  Tokens <- const_Tokens
  IdTokens <- const_IdTokens
  Values <- const_Values
  Fields <- const_Fields
  Descriptions <- const_Descriptions
  Families <- const_Families
  Registries <- const_Registries
  GroupIds <- const_GroupIds
  GroupTypes <- const_GroupTypes
  MaxFields = 3
  MaxClaims = 2
  MaxGroups = 2
INVARIANTS
  AlikeFieldsAlikePlanned
  MandatoryFieldsPlanned
  ResultsReachBundles
CHECK_DEADLOCK FALSE
