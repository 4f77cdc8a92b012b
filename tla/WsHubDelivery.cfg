SPECIFICATION JoinedSpec
CONSTANTS
  c1 = c1
  c2 = c2
  ra = ra
  rb = rb
  Clients = {c1, c2}
  Rooms = {ra}
  ValidRooms = {ra}
  MayJoin <- AllInA
  RoomStates = {i1}
  None = None
  SendCap = 1
  OutCap = 2
  QueueCap = 2
  MaxBatch = 2
  MaxFrames <- TwoAndNo
  MaxRepeats = 1
  Events = {"channel"}
  Leavers = {c1, c2}
INVARIANTS
  TypeOK
  PipelineInOrder
PROPERTIES
  DeliveredOrDropped
  ConsumerProceeds
CHECK_DEADLOCK FALSE
