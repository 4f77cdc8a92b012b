------------------------------- MODULE WsHub -------------------------------
(***************************************************************************)
(* The websocket hub of internal/modules/websocket/application.            *)
(*                                                                         *)
(* Goroutines: hub.run (registration), one ReadPump and one WritePump per  *)
(* connection, one roomBroadcaster per room, one short-lived goroutine per *)
(* batch of slow clients, and the Kafka broadcast consumer.  Each action   *)
(* is what one of them does between two points where another can run: a    *)
(* channel operation, or taking and releasing hub.mu or a room's mu.       *)
(*                                                                         *)
(* A RoomState is an object with an identity of its own: the hub's map     *)
(* names at most one per room, and goroutines keep pointers to objects the *)
(* map has forgotten.  client.done is not a variable: RemoveClients closes *)
(* it under the same lock as client.conn, so a pump that would see it      *)
(* closed sees the connection closed as well.  Typing events are left to   *)
(* the typing coalescer, which only adds requests to outBuffer.            *)
(***************************************************************************)
EXTENDS Integers, Sequences, FiniteSets

CONSTANTS
    Clients,      \* connections: one Client struct each, never reused
    Rooms,        \* the room names that clients ask for
    ValidRooms,   \* those of them that SubscribeRoom's validation accepts
    MayJoin,      \* the pairs <<c, r>> the membership stores admit
    RoomStates,   \* RoomState objects; bounds how often rooms are created
    None,
    SendCap,      \* clientBufferSize
    OutCap,       \* roomOutBufferLen
    QueueCap,     \* registerBufferLen and unregisterBufferLen
    MaxBatch,     \* maxBatchSize
    MaxFrames,    \* bound: how many frames each peer sends
    MaxRepeats,   \* bound: how many messages rebalances bring back
    Events,       \* the kinds of frame peers send
    Leavers       \* the clients whose peer may drop the connection

ASSUME WsHubAssumption ==
    /\ ValidRooms \subseteq Rooms
    /\ MayJoin \subseteq Clients \X Rooms
    /\ None \notin Clients \cup Rooms \cup RoomStates
    /\ SendCap \in Nat \ {0} /\ OutCap \in Nat \ {0} /\ QueueCap \in Nat \ {0}
    /\ MaxBatch \in Nat \ {0}
    /\ MaxFrames \in [Clients -> Nat]
    /\ MaxRepeats \in Nat
    /\ Events \subseteq {"join", "channel", "direct", "limited"}
    /\ Leavers \subseteq Clients

VARIABLES
    rooms,        \* hub.rooms: room name -> RoomState
    nameOf,       \* RoomState.name; None while the object is unallocated
    clients,      \* RoomState.clients
    outBuffer,    \* RoomState.outBuffer
    bpc,          \* where the RoomState's broadcaster goroutine is
    batch,        \* its batch
    snapshot,     \* the clients of clientsSnapshot it has yet to send to
    slow,         \* its toRemove
    removals,     \* handleSlowClients goroutines: <<RoomState, clients>>
    room,         \* Client.room
    conn,         \* whether Client.conn is open
    send,         \* Client.send
    handed,       \* ghost: ids of the messages put in Client.send
    wpc,          \* where the client's WritePump is
    rpc,          \* where the client's WsHandler and ReadPump are
    inbox,        \* frames of the peer that ReadPump may still read
    target,       \* roomReq.name of the join under way
    oldRoom,      \* SubscribeRoom's oldRoom and newRoom
    newRoom,
    register,     \* hub.register
    unregister,   \* hub.unregister
    totalClients, \* hub.totalClients
    hubClient,    \* client and roomState of the unregister hub.run handles
    hubRoom,
    topic,        \* the broadcast topic, from the consumer's position on
    kmsg,         \* message and roomState in the broadcast handler
    kroom,
    fetched,      \* the message the consumer has fetched and not committed
    committed,    \* id of the last message committed; -1 before the first
    repeated,     \* ghost: ids a rebalance brought back before their commit
    nextId        \* id of the next channel message

hubVars    == <<rooms, nameOf, clients>>
castVars   == <<outBuffer, bpc, batch, snapshot, slow, removals>>
writeVars  == <<send, handed, wpc>>
joinVars   == <<target, oldRoom, newRoom>>
readVars   == <<room, rpc, inbox, joinVars>>
runVars    == <<register, unregister, totalClients, hubClient, hubRoom>>
offsetVars == <<fetched, committed, repeated>>
kafkaVars  == <<topic, kmsg, kroom, nextId, offsetVars>>

vars == <<hubVars, castVars, conn, writeVars, readVars, runVars, kafkaVars>>

Message == [room : Rooms, id : Nat]
Frame   == [room : Rooms \cup {None}, msgs : Seq(Message)]

(***************************************************************************)
(* Program counters.                                                       *)
(***************************************************************************)
ReaderPC == {"off", "register", "read", "build", "subscribe", "leave", "admit",
             "confirm", "unregister", "gone", "panicked"}

WriterPC == {"off", "run", "done"}

\* "none": an object that no goroutine serves.
BroadcasterPC == {"none", "select", "deliver", "remove", "stopped"}

RoomTypeOK ==
    /\ rooms \in [Rooms -> RoomStates \cup {None}]
    /\ nameOf \in [RoomStates -> Rooms \cup {None}]
    /\ clients \in [RoomStates -> SUBSET Clients]
    /\ bpc \in [RoomStates -> BroadcasterPC]

BufferTypeOK ==
    /\ outBuffer \in [RoomStates -> Seq(Message)]
    /\ batch \in [RoomStates -> Seq(Message)]
    /\ \A i \in RoomStates : Len(outBuffer[i]) <= OutCap /\ Len(batch[i]) <= MaxBatch

FlushTypeOK ==
    /\ snapshot \in [RoomStates -> SUBSET Clients]
    /\ slow \in [RoomStates -> SUBSET Clients]
    /\ removals \subseteq RoomStates \X SUBSET Clients

WriteTypeOK ==
    /\ send \in [Clients -> Seq(Frame)]
    /\ \A c \in Clients : Len(send[c]) <= SendCap
    /\ handed \in [Clients -> SUBSET Nat]
    /\ wpc \in [Clients -> WriterPC]

ReadTypeOK ==
    /\ room \in [Clients -> Rooms \cup {None}]
    /\ rpc \in [Clients -> ReaderPC]
    /\ inbox \in [Clients -> Nat]
    /\ target \in [Clients -> Rooms \cup {None}]
    /\ oldRoom \in [Clients -> RoomStates \cup {None}]
    /\ newRoom \in [Clients -> RoomStates \cup {None}]
    \* The locals of a join under way, and of none.
    /\ \A c \in Clients :
        /\ rpc[c] \in {"build", "subscribe", "leave", "admit"} => target[c] # None
        /\ rpc[c] = "leave" => oldRoom[c] # None

RunTypeOK ==
    /\ register \in Seq(Clients)
    /\ unregister \in Seq(Clients)
    /\ totalClients \in Int
    /\ hubClient \in Clients \cup {None}
    /\ hubRoom \in RoomStates \cup {None}

KafkaTypeOK ==
    /\ topic \in Seq(Message)
    /\ kmsg \in Message \cup {None}
    /\ kroom \in RoomStates \cup {None}
    /\ kmsg # None => kroom # None
    /\ fetched \in Message \cup {None}
    /\ committed \in Int
    /\ repeated \subseteq Nat
    /\ nextId \in Nat

TypeOK ==
    /\ RoomTypeOK /\ BufferTypeOK /\ FlushTypeOK
    /\ conn \in [Clients -> BOOLEAN]
    /\ WriteTypeOK /\ ReadTypeOK
    /\ RunTypeOK /\ KafkaTypeOK

Init ==
    /\ rooms = [r \in Rooms |-> None]
    /\ nameOf = [i \in RoomStates |-> None]
    /\ clients = [i \in RoomStates |-> {}]
    /\ outBuffer = [i \in RoomStates |-> <<>>]
    /\ bpc = [i \in RoomStates |-> "none"]
    /\ batch = [i \in RoomStates |-> <<>>]
    /\ snapshot = [i \in RoomStates |-> {}]
    /\ slow = [i \in RoomStates |-> {}]
    /\ removals = {}
    /\ room = [c \in Clients |-> None]
    /\ conn = [c \in Clients |-> FALSE]
    /\ send = [c \in Clients |-> <<>>]
    /\ handed = [c \in Clients |-> {}]
    /\ wpc = [c \in Clients |-> "off"]
    /\ rpc = [c \in Clients |-> "off"]
    /\ inbox = MaxFrames
    /\ target = [c \in Clients |-> None]
    /\ oldRoom = [c \in Clients |-> None]
    /\ newRoom = [c \in Clients |-> None]
    /\ register = <<>>
    /\ unregister = <<>>
    /\ totalClients = 0
    /\ hubClient = None
    /\ hubRoom = None
    /\ topic = <<>>
    /\ kmsg = None
    /\ kroom = None
    /\ fetched = None
    /\ committed \in {-1, 0}
    /\ repeated = {}
    /\ nextId = 1

-----------------------------------------------------------------------------
(***************************************************************************)
(* RoomState objects.                                                      *)
(***************************************************************************)
\* Mutants: a map lookup that always misses, or always hits.
AlwaysMissing(r) == TRUE
NeverMissing(r)  == FALSE

Missing(r) == rooms[r] = None

\* NewRoomState and the map insertion of GetOrCreateRoom for a missing name.
\* serving says whether the caller starts a broadcaster for the new object.
CreateRoom(r, serving) ==
    LET unused == {j \in RoomStates : nameOf[j] = None}
        i == CHOOSE j \in unused : TRUE
    IN  /\ unused # {}
        /\ rooms' = [rooms EXCEPT ![r] = i]
        /\ nameOf' = [nameOf EXCEPT ![i] = r]
        /\ bpc' = [bpc EXCEPT ![i] = serving]

\* Mutant: the client stays in RoomState.clients.
RemoveClientsKeepingMember(i, S) ==
    /\ conn' = [c \in Clients |-> conn[c] /\ c \notin S]
    /\ UNCHANGED clients

\* Mutant: the connection is left open.
RemoveClientsKeepingConn(i, S) ==
    /\ clients' = [clients EXCEPT ![i] = @ \ S]
    /\ UNCHANGED conn

RemoveClients(i, S) ==
    /\ clients' = [clients EXCEPT ![i] = @ \ S]
    /\ conn' = [c \in Clients |-> conn[c] /\ c \notin S]

-----------------------------------------------------------------------------
(***************************************************************************)
(* WsHandler and ReadPump.                                                 *)
(***************************************************************************)
Goto(c, label) == rpc' = [rpc EXCEPT ![c] = label]

\* The connection is upgraded and the Client built.
Connect(c) ==
    /\ rpc[c] = "off"
    /\ Goto(c, "register")
    /\ conn' = [conn EXCEPT ![c] = TRUE]
    /\ UNCHANGED <<hubVars, castVars, writeVars, room, inbox, joinVars, runVars, kafkaVars>>

\* WsHandler sends on hub.register and starts the two pumps.
Register(c) ==
    /\ rpc[c] = "register"
    /\ Len(register) < QueueCap
    /\ register' = Append(register, c)
    /\ Goto(c, "read")
    /\ wpc' = [wpc EXCEPT ![c] = "run"]
    /\ UNCHANGED <<hubVars, castVars, conn, send, handed, room, inbox, joinVars,
                   unregister, totalClients, hubClient, hubRoom, kafkaVars>>

\* The peer goes away, or its read deadline passes.
PeerClose(c) ==
    /\ c \in Leavers
    /\ conn[c]
    /\ conn' = [conn EXCEPT ![c] = FALSE]
    /\ UNCHANGED <<hubVars, castVars, writeVars, readVars, runVars, kafkaVars>>

\* ReadMessage returns a frame.  It may do so after the connection is closed:
\* what the peer sent earlier can wait in the connection's read buffer.
Read(c, event) ==
    /\ rpc[c] = "read"
    /\ event \in Events
    /\ inbox[c] > 0
    /\ inbox' = [inbox EXCEPT ![c] = @ - 1]

\* ReadMessage fails and ReadPump returns.
ReadExit(c) ==
    /\ rpc[c] = "read"
    /\ ~conn[c]
    /\ Goto(c, "unregister")
    /\ UNCHANGED <<hubVars, castVars, conn, writeVars, room, inbox, joinVars, runVars, kafkaVars>>

\* WsHandler sends on hub.unregister and returns.
Unregister(c) ==
    /\ rpc[c] = "unregister"
    /\ Len(unregister) < QueueCap
    /\ unregister' = Append(unregister, c)
    /\ Goto(c, "gone")
    /\ UNCHANGED <<hubVars, castVars, conn, writeVars, room, inbox, joinVars,
                   register, totalClients, hubClient, hubRoom, kafkaVars>>

\* A panic in a handler unwinds ReadPump, whose deferred call closes the
\* connection, and WsHandler, which then never sends on hub.unregister.
Panic(c) ==
    /\ Goto(c, "panicked")
    /\ conn' = [conn EXCEPT ![c] = FALSE]

-----------------------------------------------------------------------------
(***************************************************************************)
(* handleRoomJoin: BuildRoomBroadcaster, then SubscribeRoom.               *)
(***************************************************************************)
\* Mutant: the answer of the membership store is not looked at.
CanJoinUnchecked(c, r) == TRUE

\* canClientInServerRoom and canClientInDirectRoom, when the store answers.
CanJoin(c, r) == <<c, r>> \in MayJoin

\* Back to the top of ReadPump's loop.
FinishJoin(c) ==
    /\ Goto(c, "read")
    /\ target' = [target EXCEPT ![c] = None]
    /\ oldRoom' = [oldRoom EXCEPT ![c] = None]
    /\ newRoom' = [newRoom EXCEPT ![c] = None]

HandleRoomJoin(c, r) ==
    /\ Read(c, "join")
    /\ Goto(c, "build")
    /\ target' = [target EXCEPT ![c] = r]
    /\ UNCHANGED <<hubVars, castVars, conn, writeVars, room, oldRoom, newRoom, runVars, kafkaVars>>

\* Under hub.mu: a missing room is created together with its broadcaster.
BuildRoomBroadcaster(c) ==
    /\ rpc[c] = "build"
    /\ Goto(c, "subscribe")
    /\ \/ Missing(target[c]) /\ CreateRoom(target[c], "select")
       \/ ~Missing(target[c]) /\ UNCHANGED <<rooms, nameOf, bpc>>
    /\ UNCHANGED <<clients, outBuffer, batch, snapshot, slow, removals, conn, writeVars,
                   room, inbox, joinVars, runVars, kafkaVars>>

\* SubscribeRoom returns at once for a name its validation rejects and for
\* the room the client is in.
SubscribeNothing(c) ==
    /\ rpc[c] = "subscribe"
    /\ target[c] \notin ValidRooms \/ room[c] = target[c]
    /\ FinishJoin(c)
    /\ UNCHANGED <<hubVars, castVars, conn, writeVars, room, inbox, runVars, kafkaVars>>

\* Under hub.mu: both rooms are looked up.  The object GetOrCreateRoom makes
\* for a missing new room is left in the map with no broadcaster, and newRoom
\* itself stays nil.
SubscribeLookup(c) ==
    /\ rpc[c] = "subscribe"
    /\ target[c] \in ValidRooms /\ room[c] # target[c]
    /\ oldRoom' = [oldRoom EXCEPT ![c] = IF room[c] = None THEN None ELSE rooms[room[c]]]
    /\ newRoom' = [newRoom EXCEPT ![c] = rooms[target[c]]]
    /\ \/ Missing(target[c]) /\ CreateRoom(target[c], "none")
       \/ ~Missing(target[c]) /\ UNCHANGED <<rooms, nameOf, bpc>>
    /\ Goto(c, IF oldRoom'[c] = None THEN "admit" ELSE "leave")
    /\ UNCHANGED <<clients, outBuffer, batch, snapshot, slow, removals, conn, writeVars,
                   room, inbox, target, runVars, kafkaVars>>

\* oldRoom.RemoveClients, which also closes the connection.
LeaveOldRoom(c) ==
    /\ rpc[c] = "leave"
    /\ RemoveClients(oldRoom[c], {c})
    /\ Goto(c, "admit")
    /\ UNCHANGED <<rooms, nameOf, castVars, writeVars, room, inbox, joinVars, runVars, kafkaVars>>

\* The membership store says no, or fails, which counts as no.
JoinRefused(c) ==
    /\ rpc[c] = "admit"
    /\ FinishJoin(c)
    /\ UNCHANGED <<hubVars, castVars, conn, writeVars, room, inbox, runVars, kafkaVars>>

\* Mutant: addClient does not set client.room.
ForgetRoom(c) == UNCHANGED room

SetRoom(c) == room' = [room EXCEPT ![c] = target[c]]

\* canJoin, then newRoom.addClient under the room's mu.
AddClient(c) ==
    /\ rpc[c] = "admit"
    /\ CanJoin(c, target[c])
    /\ newRoom[c] # None
    /\ clients' = [clients EXCEPT ![newRoom[c]] = @ \cup {c}]
    /\ SetRoom(c)
    /\ Goto(c, "confirm")
    /\ UNCHANGED <<rooms, nameOf, castVars, conn, writeVars, inbox, joinVars, runVars, kafkaVars>>

\* canJoin, then addClient on the nil newRoom.
AddClientToNil(c) ==
    /\ rpc[c] = "admit"
    /\ CanJoin(c, target[c])
    /\ newRoom[c] = None
    /\ Panic(c)
    /\ UNCHANGED <<hubVars, castVars, writeVars, room, inbox, joinVars, runVars, kafkaVars>>

\* The confirmation is a blocking send.
SendSubscribeConfirmation(c) ==
    /\ rpc[c] = "confirm"
    /\ Len(send[c]) < SendCap
    /\ send' = [send EXCEPT ![c] = Append(@, [room |-> room[c], msgs |-> <<>>])]
    /\ FinishJoin(c)
    /\ UNCHANGED <<hubVars, castVars, conn, handed, wpc, room, inbox, runVars, kafkaVars>>

-----------------------------------------------------------------------------
(***************************************************************************)
(* The other frames.                                                       *)
(***************************************************************************)
\* HandleIncomingMessage and _validateClientRoomMessage drop a message frame
\* of a client that is in no room, or that names another room.
DropFrame(c) ==
    /\ Read(c, "channel") \/ Read(c, "direct")
    /\ UNCHANGED <<hubVars, castVars, conn, writeVars, room, rpc, joinVars, runVars, kafkaVars>>

\* The message goes to the broadcast topic, keyed by the room.
HandleChannelMessageAdd(c) ==
    /\ Read(c, "channel")
    /\ room[c] # None
    /\ topic' = Append(topic, [room |-> room[c], id |-> nextId])
    /\ nextId' = nextId + 1
    /\ UNCHANGED <<hubVars, castVars, conn, writeVars, room, rpc, joinVars, runVars, kmsg, kroom, offsetVars>>

\* SendDirectMessage: an error of the store comes back as an error and the
\* message is dropped (DropFrame); success dereferences the nil appErr.
HandleDirectMessageAdd(c) ==
    /\ Read(c, "direct")
    /\ room[c] # None
    /\ Panic(c)
    /\ UNCHANGED <<hubVars, castVars, writeVars, room, joinVars, runVars, kafkaVars>>

\* ApplyRateLimit denies the frame and has room to say so; with a full send
\* buffer it lets the frame through, which is the frame's own action.
RateLimited(c) ==
    /\ Read(c, "limited")
    /\ Len(send[c]) < SendCap
    /\ send' = [send EXCEPT ![c] = Append(@, [room |-> None, msgs |-> <<>>])]
    /\ UNCHANGED <<hubVars, castVars, conn, handed, wpc, room, rpc, joinVars, runVars, kafkaVars>>

-----------------------------------------------------------------------------
(***************************************************************************)
(* WritePump.                                                              *)
(***************************************************************************)
WritePrepared(c) ==
    /\ wpc[c] = "run" /\ conn[c]
    /\ send[c] # <<>>
    /\ send' = [send EXCEPT ![c] = Tail(@)]
    /\ UNCHANGED <<hubVars, castVars, conn, handed, wpc, readVars, runVars, kafkaVars>>

\* client.done or a failed ping ends the pump, or a frame it takes fails.
WriteExit(c) ==
    /\ wpc[c] = "run" /\ ~conn[c]
    /\ wpc' = [wpc EXCEPT ![c] = "done"]
    /\ \/ UNCHANGED send
       \/ /\ send[c] # <<>>
          /\ send' = [send EXCEPT ![c] = Tail(@)]
    /\ UNCHANGED <<hubVars, castVars, conn, handed, readVars, runVars, kafkaVars>>

-----------------------------------------------------------------------------
(***************************************************************************)
(* hub.run.                                                                *)
(***************************************************************************)
RunRegister ==
    /\ hubClient = None
    /\ register # <<>>
    /\ register' = Tail(register)
    /\ totalClients' = totalClients + 1
    /\ UNCHANGED <<hubVars, castVars, conn, writeVars, readVars, unregister, hubClient,
                   hubRoom, kafkaVars>>

\* The client's room is looked up under hub.mu.RLock ...
RunUnregister ==
    /\ hubClient = None
    /\ unregister # <<>>
    /\ unregister' = Tail(unregister)
    /\ LET c == Head(unregister)
       IN  /\ hubClient' = c
           /\ hubRoom' = IF room[c] = None THEN None ELSE rooms[room[c]]
    /\ UNCHANGED <<hubVars, castVars, conn, writeVars, readVars, register, totalClients, kafkaVars>>

\* ... and used after RUnlock.
RunRemove ==
    /\ hubClient # None
    /\ \/ /\ hubRoom # None
          /\ RemoveClients(hubRoom, {hubClient})
       \/ /\ hubRoom = None
          /\ UNCHANGED <<clients, conn>>
    /\ totalClients' = totalClients - 1
    /\ hubClient' = None
    /\ hubRoom' = None
    /\ UNCHANGED <<rooms, nameOf, castVars, writeVars, readVars, register, unregister, kafkaVars>>

-----------------------------------------------------------------------------
(***************************************************************************)
(* The Kafka broadcast consumer: runSingleManualCommit around              *)
(* makeChannelBroadcastHandler.  One server is in the group, and a failed  *)
(* commit, which ends the consumer, is left to ModuleServer.               *)
(***************************************************************************)
\* The room is looked up under hub.mu.RLock; a missing one drops the message.
FetchBroadcast ==
    /\ fetched = None
    /\ topic # <<>>
    /\ topic' = Tail(topic)
    /\ fetched' = Head(topic)
    /\ LET m == Head(topic)
       IN  IF Missing(m.room)
           THEN UNCHANGED <<kmsg, kroom>>
           ELSE kmsg' = m /\ kroom' = rooms[m.room]
    /\ UNCHANGED <<hubVars, castVars, conn, writeVars, readVars, runVars, committed, repeated, nextId>>

\* The handler returns; the message is still to be committed.
HandlerDone ==
    /\ kmsg' = None
    /\ kroom' = None
    /\ UNCHANGED <<topic, offsetVars, nextId>>

BroadcastSend ==
    /\ kmsg # None
    /\ Len(outBuffer[kroom]) < OutCap
    /\ outBuffer' = [outBuffer EXCEPT ![kroom] = Append(@, kmsg)]
    /\ HandlerDone
    /\ UNCHANGED <<hubVars, bpc, batch, snapshot, slow, removals, conn, writeVars, readVars, runVars>>

\* Mutant: the send on outBuffer has no timeout.
BroadcastWait == FALSE /\ UNCHANGED vars

\* Five seconds with outBuffer full drop the message.
BroadcastTimeout ==
    /\ kmsg # None
    /\ Len(outBuffer[kroom]) >= OutCap
    /\ HandlerDone
    /\ UNCHANGED <<hubVars, castVars, conn, writeVars, readVars, runVars>>

\* The handler gave back no error, as it always does.
CommitBroadcast ==
    /\ kmsg = None
    /\ fetched # None
    /\ committed' = fetched.id
    /\ fetched' = None
    /\ UNCHANGED <<hubVars, castVars, conn, writeVars, readVars, runVars, topic, kmsg, kroom,
                   repeated, nextId>>

\* The group rebalances and the reader starts again at the committed offset,
\* or, as long as nothing is committed, at the end of the topic.  The loop
\* keeps the message it has fetched, and will be given it once more.
Rebalance ==
    /\ \/ /\ committed = -1
          /\ topic' = <<>>
          /\ UNCHANGED repeated
       \/ /\ committed # -1
          /\ fetched # None /\ fetched.id > committed
          /\ topic # <<>> => Head(topic) # fetched
          /\ Cardinality(repeated) < MaxRepeats
          /\ topic' = <<fetched>> \o topic
          /\ repeated' = repeated \cup {fetched.id}
       \/ /\ topic # <<>> /\ Head(topic).id <= committed
          /\ topic' = Tail(topic)
          /\ UNCHANGED repeated
    /\ UNCHANGED <<hubVars, castVars, conn, writeVars, readVars, runVars, kmsg, kroom,
                   fetched, committed, nextId>>

-----------------------------------------------------------------------------
(***************************************************************************)
(* roomBroadcaster.  A full batch is flushed before the next select, so    *)
(* the loop receives and looks at the idle ticker only below MaxBatch.     *)
(***************************************************************************)
Selecting(i) == bpc[i] = "select" /\ Len(batch[i]) < MaxBatch

IdsOf(msgs) == {msgs[k].id : k \in DOMAIN msgs}

Smaller(m, n) == IF m < n THEN m ELSE n

\* The first n requests of the buffer move to the batch.
Drain(i, n) ==
    /\ batch' = [batch EXCEPT ![i] = @ \o SubSeq(outBuffer[i], 1, n)]
    /\ outBuffer' = [outBuffer EXCEPT ![i] = SubSeq(@, n + 1, Len(@))]

\* Receive, and the greedy loop over what else is queued.
BroadcasterReceive(i) ==
    /\ Selecting(i)
    /\ outBuffer[i] # <<>>
    /\ Drain(i, Smaller(Len(outBuffer[i]), MaxBatch - Len(batch[i])))
    /\ UNCHANGED <<hubVars, bpc, snapshot, slow, removals, conn, writeVars, readVars,
                   runVars, kafkaVars>>

\* The flush ticker, or a full batch: clientsSnapshot is taken under mu.RLock.
FlushBatch(i) ==
    /\ bpc[i] = "select"
    /\ batch[i] # <<>>
    /\ snapshot' = [snapshot EXCEPT ![i] = clients[i]]
    /\ bpc' = [bpc EXCEPT ![i] = "deliver"]
    /\ UNCHANGED <<hubVars, outBuffer, batch, slow, removals, conn, writeVars, readVars,
                   runVars, kafkaVars>>

\* One client of the snapshot: a non-blocking send, outside the lock.
Deliver(i, c) ==
    /\ bpc[i] = "deliver"
    /\ c \in snapshot[i]
    /\ snapshot' = [snapshot EXCEPT ![i] = @ \ {c}]
    /\ \/ /\ Len(send[c]) < SendCap
          /\ send' = [send EXCEPT ![c] = Append(@, [room |-> nameOf[i], msgs |-> batch[i]])]
          /\ handed' = [handed EXCEPT ![c] = @ \cup IdsOf(batch[i])]
          /\ UNCHANGED slow
       \/ /\ Len(send[c]) >= SendCap
          /\ slow' = [slow EXCEPT ![i] = @ \cup {c}]
          /\ UNCHANGED <<send, handed>>
    /\ UNCHANGED <<hubVars, outBuffer, bpc, batch, removals, conn, wpc, readVars, runVars, kafkaVars>>

\* Mutant: the batch is not cleared.
ClearBatchNot(i) == UNCHANGED batch

ClearBatch(i) == batch' = [batch EXCEPT ![i] = <<>>]

\* Mutant: the clients whose send channel was full are let be.
SpareSlow(i) == UNCHANGED removals

\* The goroutine that is to remove the slow clients, if there are any.
HandOverSlow(i) ==
    removals' = IF slow[i] = {} THEN removals ELSE removals \cup {<<i, slow[i]>>}

FinishFlush(i) ==
    /\ bpc[i] = "deliver"
    /\ snapshot[i] = {}
    /\ HandOverSlow(i)
    /\ slow' = [slow EXCEPT ![i] = {}]
    /\ ClearBatch(i)
    /\ bpc' = [bpc EXCEPT ![i] = "select"]
    /\ UNCHANGED <<hubVars, outBuffer, snapshot, conn, writeVars, readVars, runVars, kafkaVars>>

HandleSlowClients ==
    \E g \in removals :
        /\ removals' = removals \ {g}
        /\ RemoveClients(g[1], g[2])
        /\ UNCHANGED <<rooms, nameOf, outBuffer, bpc, batch, snapshot, slow, writeVars,
                       readVars, runVars, kafkaVars>>

\* The idle ticker finds the room empty, under the room's mu ...
IdleTick(i) ==
    /\ Selecting(i)
    /\ clients[i] = {}
    /\ bpc' = [bpc EXCEPT ![i] = "remove"]
    /\ UNCHANGED <<hubVars, outBuffer, batch, snapshot, slow, removals, conn, writeVars,
                   readVars, runVars, kafkaVars>>

\* ... and removeRoom deletes, under hub.mu, whatever has the room's name.
RemoveRoom(i) ==
    /\ bpc[i] = "remove"
    /\ rooms' = [rooms EXCEPT ![nameOf[i]] = None]
    /\ bpc' = [bpc EXCEPT ![i] = "stopped"]
    /\ UNCHANGED <<nameOf, clients, outBuffer, batch, snapshot, slow, removals, conn,
                   writeVars, readVars, runVars, kafkaVars>>

-----------------------------------------------------------------------------
Reader(c) ==
    \/ Connect(c) \/ Register(c) \/ ReadExit(c) \/ Unregister(c)
    \/ \E r \in Rooms : HandleRoomJoin(c, r)
    \/ BuildRoomBroadcaster(c) \/ SubscribeNothing(c) \/ SubscribeLookup(c)
    \/ LeaveOldRoom(c) \/ JoinRefused(c) \/ AddClient(c) \/ AddClientToNil(c)
    \/ SendSubscribeConfirmation(c)
    \/ DropFrame(c) \/ HandleChannelMessageAdd(c) \/ HandleDirectMessageAdd(c)
    \/ RateLimited(c)

Writer(c) == WritePrepared(c) \/ WriteExit(c)

HubRun == RunRegister \/ RunUnregister \/ RunRemove

BroadcastConsumer ==
    FetchBroadcast \/ BroadcastSend \/ BroadcastTimeout \/ CommitBroadcast

Broadcaster(i) ==
    \/ BroadcasterReceive(i) \/ FlushBatch(i)
    \/ \E c \in Clients : Deliver(i, c)
    \/ FinishFlush(i) \/ IdleTick(i) \/ RemoveRoom(i)

Next ==
    \/ \E c \in Clients : Reader(c) \/ Writer(c) \/ PeerClose(c)
    \/ HubRun \/ BroadcastConsumer \/ Rebalance \/ HandleSlowClients
    \/ \E i \in RoomStates : Broadcaster(i)

(***************************************************************************)
(* A goroutine that can go on does: the Go scheduler is fair.  What a peer *)
(* sends, whether it leaves, whether it takes what WritePump writes (no    *)
(* write deadline is set on messages) and the idle ticker are left to the  *)
(* environment.                                                            *)
(***************************************************************************)
ReaderGoesOn(c) ==
    \/ Register(c) \/ ReadExit(c) \/ Unregister(c)
    \/ BuildRoomBroadcaster(c) \/ SubscribeNothing(c) \/ SubscribeLookup(c)
    \/ LeaveOldRoom(c) \/ JoinRefused(c) \/ AddClient(c) \/ AddClientToNil(c)
    \/ SendSubscribeConfirmation(c)

BroadcasterGoesOn(i) ==
    \/ BroadcasterReceive(i) \/ FlushBatch(i)
    \/ \E c \in Clients : Deliver(i, c)
    \/ FinishFlush(i) \/ RemoveRoom(i)

Fairness ==
    /\ \A c \in Clients : WF_vars(ReaderGoesOn(c)) /\ WF_vars(WriteExit(c))
    /\ \A i \in RoomStates : WF_vars(BroadcasterGoesOn(i))
    /\ WF_vars(HubRun) /\ WF_vars(BroadcastConsumer) /\ WF_vars(HandleSlowClients)

Spec == Init /\ [][Next]_vars /\ Fairness

-----------------------------------------------------------------------------
(***************************************************************************)
(* Safety.                                                                 *)
(***************************************************************************)
\* c is in the room that the hub knows under the name r.
InRoom(c, r) == rooms[r] # None /\ c \in clients[rooms[r]]

\* Messages reach only those the membership stores admit.  SubscribeRoom asks
\* once, on joining; from there the message goes through outBuffer, batch and
\* snapshot to Client.send, while the client may have changed rooms.
AdmittedOnly ==
    /\ \A i \in RoomStates : \A c \in clients[i] : <<c, nameOf[i]>> \in MayJoin
    /\ \A c \in Clients : \A k \in DOMAIN send[c] :
         LET f == send[c][k]
         IN  /\ f.room # None => <<c, f.room>> \in MayJoin
             /\ \A j \in DOMAIN f.msgs : f.msgs[j].room = f.room

\* A client is in no live room but the one Client.room names.  hub.run finds
\* the room to clean up through Client.room alone, and a client in two rooms
\* would be sent the messages of both.
ClientRoomIsCurrent ==
    \A c \in Clients, r \in Rooms : InRoom(c, r) => room[c] = r

\* removeRoom deletes by name, after the lock of the idle check was released:
\* what it deletes is still the object whose broadcaster found itself idle.
RemovesOwnRoom ==
    \A i \in RoomStates : bpc[i] = "remove" => rooms[nameOf[i]] = i

\* Once hub.run has dealt with a client it is in no live room, although the
\* room was looked up under one lock and cleaned up under another, and slow
\* client removals and idle removals run meanwhile.
GoneMeansRemoved ==
    \A c \in Clients :
        rpc[c] = "gone" /\ hubClient # c /\ (\A k \in DOMAIN unregister : unregister[k] # c)
        => \A r \in Rooms : ~InRoom(c, r)

\* A client that is connected and has joined is a member of a RoomState of
\* that name: nothing but RemoveClients, which disconnects, takes it out.
JoinedKeepsMembership ==
    \A c \in Clients :
        conn[c] /\ rpc[c] = "read" /\ room[c] # None
        => \E i \in RoomStates : nameOf[i] = room[c] /\ c \in clients[i]

\* What is on its way from the topic to c through the RoomState i, oldest
\* first: the frames c has still to be written, the batch unless c has it, the
\* buffer, the handler's message, and what waits in the topic.
Stages(i, c) ==
    [k \in DOMAIN send[c] |-> IF send[c][k].room = nameOf[i] THEN send[c][k].msgs ELSE <<>>]
    \o << IF bpc[i] = "deliver" /\ c \notin snapshot[i] THEN <<>> ELSE batch[i],
          outBuffer[i],
          IF kmsg # None /\ kroom = i THEN <<kmsg>> ELSE <<>> >>
    \o [k \in DOMAIN topic |-> IF topic[k].room = nameOf[i] THEN <<topic[k]>> ELSE <<>>]

\* In topic order; the same message again only if a rebalance brought it back.
Precedes(id, later) == id < later \/ (id = later /\ id \in repeated)

InOrder(msgs) == \A j, k \in DOMAIN msgs : j < k => Precedes(msgs[j].id, msgs[k].id)

Before(msgs, later) ==
    \A j \in DOMAIN msgs, k \in DOMAIN later : Precedes(msgs[j].id, later[k].id)

Serving(i) == bpc[i] \in {"select", "deliver"}

\* A member of a served room is handed the room's messages in the order of
\* the topic, across the handler, the greedy drain, the flush at the batch
\* limit and the snapshot.  None of them comes twice but one that a rebalance
\* brought back after the consumer had fetched it and before its commit: then
\* the same outBuffer gets it again, next to itself.
PipelineInOrder ==
    \A i \in RoomStates : Serving(i) =>
        \A c \in clients[i] :
            LET stages == Stages(i, c)
            IN  \A j, k \in DOMAIN stages :
                  InOrder(stages[j]) /\ (j < k => Before(stages[j], stages[k]))

(***************************************************************************)
(* Refinement: where the hub has each client.                              *)
(***************************************************************************)
AtRoom(c) ==
    IF \E r \in Rooms : InRoom(c, r) THEN CHOOSE r \in Rooms : InRoom(c, r) ELSE None

Membership == INSTANCE RoomMembership WITH at <- [c \in Clients |-> AtRoom(c)]

\* The hub implements RoomMembership: a client never goes from one room
\* straight to another, and enters only a room it may join.
ImplementsMembership == Membership!Spec

(***************************************************************************)
(* What the comments of the code say, and the code does not do.            *)
(***************************************************************************)
\* A room the hub knows has a broadcaster (BuildRoomBroadcaster takes hub.mu
\* so that creating and removing a room do not race).
RoomHasBroadcaster ==
    \A r \in Rooms : rooms[r] # None => bpc[rooms[r]] \notin {"none", "stopped"}

\* removeRoom is called when the room is empty: no connected client is in it.
RemovedWhenEmpty ==
    [][\A r \in Rooms : rooms[r] # None /\ rooms'[r] = None
         => \A c \in clients[rooms[r]] : ~conn[c]]_vars
=============================================================================
