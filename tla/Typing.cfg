SPECIFICATION TypingSpec
CONSTANTS
  Users = {"u1", "u2"}
  Timers = {"t1", "t2", "t3"}
  NoTimer = "nil"
  MaxTracked = 1
  RoomOutBufferLen = 3
  MaxTotal = 2
INVARIANTS
  TypingTypeOK
  FlushIsComing
  NamesAgreeWithTotal
PROPERTY OnlyTypersPostpone
CHECK_DEADLOCK FALSE
