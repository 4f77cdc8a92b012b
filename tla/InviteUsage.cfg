SPECIFICATION UsageSpec
CONSTANTS
  Codes = {"a", "b"}
  NoCode = "none"
  Kinds = {"a", "b", "none"}
  BatchSize = 2
  HasDlq = FALSE
  MaxLog = 3
  MaxUpsets = 1
INVARIANTS
  UsageTypeOK
  CountedOncePerDelivery
  JoinsCountedOrLeftOut
PROPERTIES
  ImplementsJoinCount
CHECK_DEADLOCK FALSE
