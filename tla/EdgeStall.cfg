CONSTANTS
  Call = {c1}
  Leading = {c1}
  LeadingKinds = {"stream"}
  OtherKinds = {}
  Metered = TRUE
  Weekly = 1
  Monthly = 4
  MaxTokens = 1
SPECIFICATION FairSpec
PROPERTY
  EveryStreamSettles
CHECK_DEADLOCK FALSE
