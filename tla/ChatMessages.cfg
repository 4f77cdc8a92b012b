SPECIFICATION Spec
CONSTANTS
  Kinds = {"good", "bad"}
  BatchSize = 2
  HasDlq = TRUE
  MaxLog = 3
  MaxUpsets = 1
INVARIANTS
  TypeOK
  CommitCoversHandled
  NothingElseLost
PROPERTY EventuallyHandled
CHECK_DEADLOCK FALSE
