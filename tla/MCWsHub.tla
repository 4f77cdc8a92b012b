------------------------------ MODULE MCWsHub ------------------------------
(***************************************************************************)
(* WsHub for TLC: two clients, one or two rooms, and the delivery          *)
(* properties, which follow a message from the broadcast topic to the      *)
(* clients' send channels.                                                 *)
(***************************************************************************)
EXTENDS WsHub

CONSTANTS c1, c2, ra, rb

NotC2InB  == {c1, c2} \X {ra, rb} \ {<<c2, rb>>}
AllInA    == {c1, c2} \X {ra}
TwoAndOne == [c \in Clients |-> IF c = c1 THEN 2 ELSE 1]
TwoAndNo  == [c \in Clients |-> IF c = c1 THEN 2 ELSE 0]
\* Liveness follows the second message, which has the first before it and, if
\* a rebalance brings it back, itself behind it.
Tracked   == 2

\* The hub once every client is registered, has joined the room ra and has
\* been sent its confirmation: where the delivery run starts.
JoinedInit ==
    LET i == CHOOSE j \in RoomStates : TRUE
    IN  /\ rooms = [r \in Rooms |-> IF r = ra THEN i ELSE None]
        /\ nameOf = [j \in RoomStates |-> IF j = i THEN ra ELSE None]
        /\ clients = [j \in RoomStates |-> IF j = i THEN Clients ELSE {}]
        /\ bpc = [j \in RoomStates |-> IF j = i THEN "select" ELSE "none"]
        /\ outBuffer = [j \in RoomStates |-> <<>>]
        /\ batch = [j \in RoomStates |-> <<>>]
        /\ snapshot = [j \in RoomStates |-> {}]
        /\ slow = [j \in RoomStates |-> {}]
        /\ removals = {}
        /\ room = [c \in Clients |-> ra]
        /\ conn = [c \in Clients |-> TRUE]
        /\ send = [c \in Clients |-> <<>>]
        /\ handed = [c \in Clients |-> {}]
        /\ wpc = [c \in Clients |-> "run"]
        /\ rpc = [c \in Clients |-> "read"]
        /\ inbox = MaxFrames
        /\ target = [c \in Clients |-> None]
        /\ oldRoom = [c \in Clients |-> None]
        /\ newRoom = [c \in Clients |-> None]
        /\ register = <<>> /\ unregister = <<>>
        /\ totalClients = Cardinality(Clients)
        /\ hubClient = None /\ hubRoom = None
        /\ topic = <<>> /\ kmsg = None /\ kroom = None /\ nextId = 1
        /\ fetched = None /\ committed = -1 /\ repeated = {}

JoinedSpec == JoinedInit /\ [][Next]_vars /\ Fairness

-----------------------------------------------------------------------------
\* A message in the buffer of a served room is handed to each member, or the
\* member is disconnected (its send channel was full, or its peer has gone).
\* While it waits, the room does not idle out.
DeliveredOrDropped ==
    \A i \in RoomStates, c \in Clients :
        (c \in clients[i] /\ Serving(i) /\ Tracked \in IdsOf(outBuffer[i]))
        ~> (Tracked \in handed[c] \/ ~conn[c])

\* The broadcast consumer is never held up for good by a room that does not
\* drain its buffer: one handler serves every room.
ConsumerProceeds == (kmsg # None) ~> (kmsg = None)
=============================================================================
