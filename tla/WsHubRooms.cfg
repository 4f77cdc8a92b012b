SPECIFICATION Spec
CONSTANTS
  c1 = c1
  c2 = c2
  ra = ra
  rb = rb
  Clients = {c1, c2}
  Rooms = {ra, rb}
  ValidRooms = {ra, rb}
  MayJoin <- NotC2InB
  RoomStates = {i1, i2, i3}
  None = None
  SendCap = 1
  OutCap = 1
  QueueCap = 2
  MaxBatch = 1
  MaxFrames <- TwoAndOne
  MaxRepeats = 1
  Events = {"join", "direct", "limited"}
  Leavers = {c1}
INVARIANTS
  AdmittedOnly
  ClientRoomIsCurrent
  RemovesOwnRoom
  GoneMeansRemoved
  JoinedKeepsMembership
PROPERTY ImplementsMembership
CHECK_DEADLOCK FALSE
