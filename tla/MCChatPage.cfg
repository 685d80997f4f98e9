CONSTANTS
  cA = cA
  cB = cB
  NoConv = NoConv
  Conv = {cA, cB}
  Archive <- MCArchive
  Turn <- MCTurn
  PageSize = 2
  MaxRequests = 2
SPECIFICATION FairSpec
INVARIANTS
  TypeOK
  FlagsMatchWork
  ViewFollowsArchive
  StoredOnce
  SavedOrTold
  ContextBelongs
  FilesBelong
PROPERTIES
  PageComesToRest
CHECK_DEADLOCK FALSE
