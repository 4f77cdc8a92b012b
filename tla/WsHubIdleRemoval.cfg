SPECIFICATION Spec
CONSTANTS
  c1 = c1
  c2 = c2
  ra = ra
  rb = rb
  Clients = {c1, c2}
  Rooms = {ra}
  ValidRooms = {ra}
  MayJoin <- AllInA
  RoomStates = {i1}
  None = None
  SendCap = 1
  OutCap = 1
  QueueCap = 2
  MaxBatch = 1
  MaxFrames <- TwoAndOne
  MaxRepeats = 1
  Events = {"join"}
  Leavers = {}
PROPERTY RemovedWhenEmpty
CHECK_DEADLOCK FALSE
