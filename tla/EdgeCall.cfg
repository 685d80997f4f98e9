CONSTANTS
  Call = {c1, c2}
  Leading = {c1}
  LeadingKinds = {"stream", "json", "upload", "apistream"}
  OtherKinds = {"upload", "apistream", "apijson"}
  Metered = TRUE
  Weekly = 1
  Monthly = 4
  MaxTokens = 1
SPECIFICATION FairSpec
INVARIANTS
  TypeOK
  DoubleRunExplained
  UnchargedExplained
  OvershootByOverlap
PROPERTIES
  AbortedNeverRefires
  GoSettles
CHECK_DEADLOCK FALSE
