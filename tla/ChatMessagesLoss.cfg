SPECIFICATION Spec
CONSTANTS
  Kinds = {"good", "bad"}
  BatchSize = 2
  HasDlq = TRUE
  MaxLog = 3
  MaxUpsets = 1
INVARIANT DeadLetteredBeforeCommit
CHECK_DEADLOCK FALSE
