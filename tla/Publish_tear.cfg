SPECIFICATION Spec
CONSTANTS
  U32 = 24
  States = {empty, s1}
  Empty = empty
  None = none
  Tear = TRUE
  MaxLag = 2
INVARIANTS
  TypeOK
  OldOrNew
  StaleCopyNeverWins
  IInv
PROPERTIES
  RecoveryMovesOnlyAtA
CHECK_DEADLOCK FALSE
