----------------------------- MODULE WsHubProofs -----------------------------
(***************************************************************************)
(* Proofs about WsHub, for any number of clients, rooms and RoomStates and *)
(* any buffer sizes: its type invariant, its safety invariants and action  *)
(* property, and that it implements RoomMembership.  Then the proofs about *)
(* Typing, and that each of WsHub's RoomStates is a room of Typing's.      *)
(*                                                                         *)
(* The invariants build on each other: RoomIdentity (the map and the       *)
(* objects name each other), AdmittedInv (a name is followed from the      *)
(* request to the frame), Leaving (where a client is during a switch),     *)
(* Departed (what hub.run has left to do), Joined, and FeedInv (the order  *)
(* of the messages, from the topic to each client's send).                 *)
(***************************************************************************)
EXTENDS WsHub, Typing, FiniteSetTheorems, TLAPS

USE DEF hubVars, castVars, writeVars, joinVars, readVars, runVars, offsetVars, kafkaVars, vars
USE DEF coalescerVars, TypingVars

-----------------------------------------------------------------------------
(***************************************************************************)
(* Which actions touch which part of the state.                            *)
(***************************************************************************)
LEMMA NextCases ==
    ASSUME [Next]_vars
    PROVE  \/ \E c \in Clients : Reader(c) \/ Writer(c) \/ PeerClose(c)
           \/ HubRun \/ BroadcastConsumer \/ Rebalance \/ HandleSlowClients
           \/ \E i \in RoomStates : Broadcaster(i)
           \/ UNCHANGED vars
  BY Zenon DEF Next

LEMMA RoomSteps ==
    ASSUME [Next]_vars
    PROVE  \/ UNCHANGED <<rooms, nameOf, clients, bpc>>
           \/ \E c \in Clients :
                \/ BuildRoomBroadcaster(c) \/ SubscribeLookup(c) \/ LeaveOldRoom(c)
                \/ AddClient(c)
           \/ RunRemove \/ HandleSlowClients
           \/ \E i \in RoomStates :
                \/ FlushBatch(i) \/ FinishFlush(i) \/ IdleTick(i) \/ RemoveRoom(i)
<1>1. ASSUME NEW c \in Clients, Reader(c)
      PROVE  \/ UNCHANGED <<rooms, nameOf, clients, bpc>>
             \/ BuildRoomBroadcaster(c) \/ SubscribeLookup(c) \/ LeaveOldRoom(c)
             \/ AddClient(c)
  BY <1>1, Zenon DEF Reader, Connect, Register, ReadExit, Unregister, HandleRoomJoin,
     SubscribeNothing, JoinRefused, AddClientToNil, SendSubscribeConfirmation,
     DropFrame, HandleChannelMessageAdd, HandleDirectMessageAdd, RateLimited
<1>2. ASSUME NEW c \in Clients, Writer(c) \/ PeerClose(c)
      PROVE  UNCHANGED <<rooms, nameOf, clients, bpc>>
  BY <1>2, Zenon DEF Writer, WritePrepared, WriteExit, PeerClose
<1>3. ASSUME HubRun \/ BroadcastConsumer \/ Rebalance \/ HandleSlowClients
      PROVE  \/ UNCHANGED <<rooms, nameOf, clients, bpc>>
             \/ RunRemove \/ HandleSlowClients
  BY <1>3, Zenon DEF HubRun, BroadcastConsumer, RunRegister, RunUnregister,
     FetchBroadcast, BroadcastSend, BroadcastTimeout, CommitBroadcast,
     Rebalance
<1>4. ASSUME NEW i \in RoomStates, Broadcaster(i)
      PROVE  \/ UNCHANGED <<rooms, nameOf, clients, bpc>>
             \/ FlushBatch(i) \/ FinishFlush(i) \/ IdleTick(i) \/ RemoveRoom(i)
  BY <1>4, Zenon DEF Broadcaster, BroadcasterReceive, Deliver
<1> QED
  BY <1>1, <1>2, <1>3, <1>4, NextCases, Zenon

LEMMA BufferSteps ==
    ASSUME [Next]_vars
    PROVE  \/ UNCHANGED <<outBuffer, batch>>
           \/ BroadcastSend
           \/ \E i \in RoomStates :
                \/ BroadcasterReceive(i) \/ FinishFlush(i)
<1>1. ASSUME NEW c \in Clients, Reader(c)
      PROVE  UNCHANGED <<outBuffer, batch>>
  BY <1>1, Zenon DEF Reader, Connect, Register, ReadExit, Unregister, HandleRoomJoin,
     BuildRoomBroadcaster, SubscribeNothing, SubscribeLookup, LeaveOldRoom, JoinRefused,
     AddClient, AddClientToNil, SendSubscribeConfirmation, DropFrame,
     HandleChannelMessageAdd, HandleDirectMessageAdd, RateLimited
<1>2. ASSUME NEW c \in Clients, Writer(c) \/ PeerClose(c)
      PROVE  UNCHANGED <<outBuffer, batch>>
  BY <1>2, Zenon DEF Writer, WritePrepared, WriteExit, PeerClose
<1>3. ASSUME HubRun \/ BroadcastConsumer \/ Rebalance \/ HandleSlowClients
      PROVE  \/ UNCHANGED <<outBuffer, batch>>
             \/ BroadcastSend
  BY <1>3, Zenon DEF HubRun, BroadcastConsumer, RunRegister, RunUnregister, RunRemove,
     FetchBroadcast, BroadcastTimeout, CommitBroadcast,
     Rebalance, HandleSlowClients
<1>4. ASSUME NEW i \in RoomStates, Broadcaster(i)
      PROVE  \/ UNCHANGED <<outBuffer, batch>>
             \/ BroadcasterReceive(i) \/ FinishFlush(i)
  BY <1>4, Zenon DEF Broadcaster, FlushBatch, Deliver, IdleTick, RemoveRoom
<1> QED
  BY <1>1, <1>2, <1>3, <1>4, NextCases, Zenon

LEMMA FlushSteps ==
    ASSUME [Next]_vars
    PROVE  \/ UNCHANGED <<snapshot, slow, removals>>
           \/ HandleSlowClients
           \/ \E i \in RoomStates :
                \/ FlushBatch(i) \/ (\E c \in Clients : Deliver(i, c)) \/ FinishFlush(i)
<1>1. ASSUME NEW c \in Clients, Reader(c)
      PROVE  UNCHANGED <<snapshot, slow, removals>>
  BY <1>1, Zenon DEF Reader, Connect, Register, ReadExit, Unregister, HandleRoomJoin,
     BuildRoomBroadcaster, SubscribeNothing, SubscribeLookup, LeaveOldRoom, JoinRefused,
     AddClient, AddClientToNil, SendSubscribeConfirmation, DropFrame,
     HandleChannelMessageAdd, HandleDirectMessageAdd, RateLimited
<1>2. ASSUME NEW c \in Clients, Writer(c) \/ PeerClose(c)
      PROVE  UNCHANGED <<snapshot, slow, removals>>
  BY <1>2, Zenon DEF Writer, WritePrepared, WriteExit, PeerClose
<1>3. ASSUME HubRun \/ BroadcastConsumer \/ Rebalance \/ HandleSlowClients
      PROVE  \/ UNCHANGED <<snapshot, slow, removals>>
             \/ HandleSlowClients
  BY <1>3, Zenon DEF HubRun, BroadcastConsumer, RunRegister, RunUnregister, RunRemove,
     FetchBroadcast, BroadcastSend, BroadcastTimeout, CommitBroadcast,
     Rebalance
<1>4. ASSUME NEW i \in RoomStates, Broadcaster(i)
      PROVE  \/ UNCHANGED <<snapshot, slow, removals>>
             \/ FlushBatch(i) \/ (\E c \in Clients : Deliver(i, c)) \/ FinishFlush(i)
  BY <1>4, Zenon DEF Broadcaster, BroadcasterReceive, IdleTick, RemoveRoom
<1> QED
  BY <1>1, <1>2, <1>3, <1>4, NextCases, Zenon

LEMMA ConnSteps ==
    ASSUME [Next]_vars
    PROVE  \/ UNCHANGED <<conn>>
           \/ \E c \in Clients :
                \/ Connect(c) \/ LeaveOldRoom(c) \/ AddClientToNil(c)
                \/ HandleDirectMessageAdd(c) \/ PeerClose(c)
           \/ RunRemove \/ HandleSlowClients
<1>1. ASSUME NEW c \in Clients, Reader(c)
      PROVE  \/ UNCHANGED <<conn>>
             \/ Connect(c) \/ LeaveOldRoom(c) \/ AddClientToNil(c)
             \/ HandleDirectMessageAdd(c)
  BY <1>1, Zenon DEF Reader, Register, ReadExit, Unregister, HandleRoomJoin,
     BuildRoomBroadcaster, SubscribeNothing, SubscribeLookup, JoinRefused, AddClient,
     SendSubscribeConfirmation, DropFrame, HandleChannelMessageAdd, RateLimited
<1>2. ASSUME NEW c \in Clients, Writer(c) \/ PeerClose(c)
      PROVE  \/ UNCHANGED <<conn>>
             \/ PeerClose(c)
  BY <1>2, Zenon DEF Writer, WritePrepared, WriteExit
<1>3. ASSUME HubRun \/ BroadcastConsumer \/ Rebalance \/ HandleSlowClients
      PROVE  \/ UNCHANGED <<conn>>
             \/ RunRemove \/ HandleSlowClients
  BY <1>3, Zenon DEF HubRun, BroadcastConsumer, RunRegister, RunUnregister,
     FetchBroadcast, BroadcastSend, BroadcastTimeout, CommitBroadcast,
     Rebalance
<1>4. ASSUME NEW i \in RoomStates, Broadcaster(i)
      PROVE  UNCHANGED <<conn>>
  BY <1>4, Zenon DEF Broadcaster, BroadcasterReceive, FlushBatch, Deliver, FinishFlush,
     IdleTick, RemoveRoom
<1> QED
  BY <1>1, <1>2, <1>3, <1>4, NextCases, Zenon

LEMMA WriteSteps ==
    ASSUME [Next]_vars
    PROVE  \/ UNCHANGED <<send, handed, wpc>>
           \/ \E c \in Clients :
                \/ Register(c) \/ SendSubscribeConfirmation(c) \/ RateLimited(c)
                \/ WritePrepared(c) \/ WriteExit(c)
           \/ \E i \in RoomStates :
                \/ (\E c \in Clients : Deliver(i, c))
<1>1. ASSUME NEW c \in Clients, Reader(c)
      PROVE  \/ UNCHANGED <<send, handed, wpc>>
             \/ Register(c) \/ SendSubscribeConfirmation(c) \/ RateLimited(c)
  BY <1>1, Zenon DEF Reader, Connect, ReadExit, Unregister, HandleRoomJoin,
     BuildRoomBroadcaster, SubscribeNothing, SubscribeLookup, LeaveOldRoom, JoinRefused,
     AddClient, AddClientToNil, DropFrame, HandleChannelMessageAdd,
     HandleDirectMessageAdd
<1>2. ASSUME NEW c \in Clients, Writer(c) \/ PeerClose(c)
      PROVE  \/ UNCHANGED <<send, handed, wpc>>
             \/ WritePrepared(c) \/ WriteExit(c)
  BY <1>2, Zenon DEF Writer, PeerClose
<1>3. ASSUME HubRun \/ BroadcastConsumer \/ Rebalance \/ HandleSlowClients
      PROVE  UNCHANGED <<send, handed, wpc>>
  BY <1>3, Zenon DEF HubRun, BroadcastConsumer, RunRegister, RunUnregister, RunRemove,
     FetchBroadcast, BroadcastSend, BroadcastTimeout, CommitBroadcast,
     Rebalance, HandleSlowClients
<1>4. ASSUME NEW i \in RoomStates, Broadcaster(i)
      PROVE  \/ UNCHANGED <<send, handed, wpc>>
             \/ (\E c \in Clients : Deliver(i, c))
  BY <1>4, Zenon DEF Broadcaster, BroadcasterReceive, FlushBatch, FinishFlush, IdleTick,
     RemoveRoom
<1> QED
  BY <1>1, <1>2, <1>3, <1>4, NextCases, Zenon

LEMMA ReadSteps ==
    ASSUME [Next]_vars
    PROVE  \/ UNCHANGED <<room, rpc, inbox, target, oldRoom, newRoom>>
           \/ \E c \in Clients : Reader(c)
<1>1. ASSUME NEW c \in Clients, Writer(c) \/ PeerClose(c)
      PROVE  UNCHANGED <<room, rpc, inbox, target, oldRoom, newRoom>>
  BY <1>1, Zenon DEF Writer, WritePrepared, WriteExit, PeerClose
<1>2. ASSUME HubRun \/ BroadcastConsumer \/ Rebalance \/ HandleSlowClients
      PROVE  UNCHANGED <<room, rpc, inbox, target, oldRoom, newRoom>>
  BY <1>2, Zenon DEF HubRun, BroadcastConsumer, RunRegister, RunUnregister, RunRemove,
     FetchBroadcast, BroadcastSend, BroadcastTimeout, CommitBroadcast,
     Rebalance, HandleSlowClients
<1>3. ASSUME NEW i \in RoomStates, Broadcaster(i)
      PROVE  UNCHANGED <<room, rpc, inbox, target, oldRoom, newRoom>>
  BY <1>3, Zenon DEF Broadcaster, BroadcasterReceive, FlushBatch, Deliver, FinishFlush,
     IdleTick, RemoveRoom
<1> QED
  BY <1>1, <1>2, <1>3, NextCases, Zenon

LEMMA RunSteps ==
    ASSUME [Next]_vars
    PROVE  \/ UNCHANGED <<register, unregister, totalClients, hubClient, hubRoom>>
           \/ \E c \in Clients :
                \/ Register(c) \/ Unregister(c)
           \/ RunRegister \/ RunUnregister \/ RunRemove
<1>1. ASSUME NEW c \in Clients, Reader(c)
      PROVE  \/ UNCHANGED <<register, unregister, totalClients, hubClient, hubRoom>>
             \/ Register(c) \/ Unregister(c)
  BY <1>1, Zenon DEF Reader, Connect, ReadExit, HandleRoomJoin, BuildRoomBroadcaster,
     SubscribeNothing, SubscribeLookup, LeaveOldRoom, JoinRefused, AddClient,
     AddClientToNil, SendSubscribeConfirmation, DropFrame, HandleChannelMessageAdd,
     HandleDirectMessageAdd, RateLimited
<1>2. ASSUME NEW c \in Clients, Writer(c) \/ PeerClose(c)
      PROVE  UNCHANGED <<register, unregister, totalClients, hubClient, hubRoom>>
  BY <1>2, Zenon DEF Writer, WritePrepared, WriteExit, PeerClose
<1>3. ASSUME HubRun \/ BroadcastConsumer \/ Rebalance \/ HandleSlowClients
      PROVE  \/ UNCHANGED <<register, unregister, totalClients, hubClient, hubRoom>>
             \/ RunRegister \/ RunUnregister \/ RunRemove
  BY <1>3, Zenon DEF HubRun, BroadcastConsumer, FetchBroadcast, BroadcastSend,
     BroadcastTimeout, CommitBroadcast,
     Rebalance, HandleSlowClients
<1>4. ASSUME NEW i \in RoomStates, Broadcaster(i)
      PROVE  UNCHANGED <<register, unregister, totalClients, hubClient, hubRoom>>
  BY <1>4, Zenon DEF Broadcaster, BroadcasterReceive, FlushBatch, Deliver, FinishFlush,
     IdleTick, RemoveRoom
<1> QED
  BY <1>1, <1>2, <1>3, <1>4, NextCases, Zenon

LEMMA KafkaSteps ==
    ASSUME [Next]_vars
    PROVE  \/ UNCHANGED kafkaVars
           \/ \E c \in Clients :
                \/ HandleChannelMessageAdd(c)
           \/ FetchBroadcast \/ BroadcastSend \/ BroadcastTimeout
           \/ CommitBroadcast \/ Rebalance
<1>1. ASSUME NEW c \in Clients, Reader(c)
      PROVE  \/ UNCHANGED kafkaVars
             \/ HandleChannelMessageAdd(c)
  BY <1>1, Zenon DEF Reader, Connect, Register, ReadExit, Unregister, HandleRoomJoin,
     BuildRoomBroadcaster, SubscribeNothing, SubscribeLookup, LeaveOldRoom, JoinRefused,
     AddClient, AddClientToNil, SendSubscribeConfirmation, DropFrame,
     HandleDirectMessageAdd, RateLimited
<1>2. ASSUME NEW c \in Clients, Writer(c) \/ PeerClose(c)
      PROVE  UNCHANGED kafkaVars
  BY <1>2, Zenon DEF Writer, WritePrepared, WriteExit, PeerClose
<1>3. ASSUME HubRun \/ BroadcastConsumer \/ Rebalance \/ HandleSlowClients
      PROVE  \/ UNCHANGED kafkaVars
             \/ FetchBroadcast \/ BroadcastSend \/ BroadcastTimeout
             \/ CommitBroadcast \/ Rebalance
  BY <1>3, Zenon DEF HubRun, BroadcastConsumer, RunRegister, RunUnregister, RunRemove,
     HandleSlowClients
<1>4. ASSUME NEW i \in RoomStates, Broadcaster(i)
      PROVE  UNCHANGED kafkaVars
  BY <1>4, Zenon DEF Broadcaster, BroadcasterReceive, FlushBatch, Deliver, FinishFlush,
     IdleTick, RemoveRoom
<1> QED
  BY <1>1, <1>2, <1>3, <1>4, NextCases, Zenon

-----------------------------------------------------------------------------
(***************************************************************************)
(* Types, one group of variables at a time.                                *)
(***************************************************************************)
LEMMA InitTypeOK == Init => TypeOK
<1> SUFFICES ASSUME Init PROVE TypeOK
  OBVIOUS
<1> USE WsHubAssumption DEF Init
<1>1. RoomTypeOK
  BY DEF RoomTypeOK, BroadcasterPC
<1>2. BufferTypeOK
  BY DEF BufferTypeOK
<1>3. FlushTypeOK
  BY DEF FlushTypeOK
<1>4. WriteTypeOK /\ conn \in [Clients -> BOOLEAN]
  BY DEF WriteTypeOK, WriterPC
<1>5. ReadTypeOK
  BY DEF ReadTypeOK, ReaderPC
<1>6. RunTypeOK
  BY DEF RunTypeOK
<1>7. KafkaTypeOK
  BY DEF KafkaTypeOK
<1> QED
  BY <1>1, <1>2, <1>3, <1>4, <1>5, <1>6, <1>7 DEF TypeOK

\* CreateRoom takes an object that is not in use.
LEMMA CreateRoomTakes ==
    ASSUME NEW r, NEW serving, CreateRoom(r, serving)
    PROVE  \E i \in RoomStates :
             /\ nameOf[i] = None
             /\ rooms' = [rooms EXCEPT ![r] = i]
             /\ nameOf' = [nameOf EXCEPT ![i] = r]
             /\ bpc' = [bpc EXCEPT ![i] = serving]
<1> DEFINE unused == {j \in RoomStates : nameOf[j] = None}
           i == CHOOSE j \in unused : TRUE
<1>1. i \in unused
  BY DEF CreateRoom
<1> QED
  BY <1>1 DEF CreateRoom

LEMMA NextRoomType == TypeOK /\ [Next]_vars => RoomTypeOK'
<1> SUFFICES ASSUME TypeOK, [Next]_vars PROVE RoomTypeOK'
  OBVIOUS
<1> USE DEF TypeOK, RoomTypeOK, BroadcasterPC
<1>1. ASSUME NEW c \in Clients, BuildRoomBroadcaster(c) \/ SubscribeLookup(c) PROVE RoomTypeOK'
  <2>1. target[c] \in Rooms /\ clients' = clients
    BY <1>1 DEF BuildRoomBroadcaster, SubscribeLookup, ReadTypeOK
  <2>2. \/ UNCHANGED <<rooms, nameOf, bpc>>
        \/ \E serving \in {"select", "none"} : CreateRoom(target[c], serving)
    BY <1>1, Zenon DEF BuildRoomBroadcaster, SubscribeLookup
  <2> QED
    BY <2>1, <2>2, CreateRoomTakes
<1>2. ASSUME NEW c \in Clients, LeaveOldRoom(c) \/ AddClient(c) PROVE RoomTypeOK'
  BY <1>2 DEF LeaveOldRoom, AddClient, RemoveClients
<1>3. CASE RunRemove \/ HandleSlowClients
  BY <1>3 DEF RunRemove, HandleSlowClients, RemoveClients
<1>4. ASSUME NEW i \in RoomStates, FlushBatch(i) \/ FinishFlush(i) \/ IdleTick(i) \/ RemoveRoom(i)
      PROVE  RoomTypeOK'
  BY <1>4 DEF FlushBatch, FinishFlush, IdleTick, RemoveRoom
<1> QED
  BY <1>1, <1>2, <1>3, <1>4, RoomSteps

LEMMA NextBufferType == TypeOK /\ [Next]_vars => BufferTypeOK'
<1> SUFFICES ASSUME TypeOK, [Next]_vars PROVE BufferTypeOK'
  OBVIOUS
<1> USE WsHubAssumption DEF TypeOK, BufferTypeOK
<1>1. CASE BroadcastSend
  BY <1>1 DEF BroadcastSend, KafkaTypeOK
<1>2. ASSUME NEW i \in RoomStates, BroadcasterReceive(i) PROVE BufferTypeOK'
  BY <1>2 DEF BroadcasterReceive, Drain, Smaller, Selecting
<1>3. ASSUME NEW i \in RoomStates, FinishFlush(i) PROVE BufferTypeOK'
  BY <1>3 DEF FinishFlush, ClearBatch
<1> QED
  BY <1>1, <1>2, <1>3, BufferSteps

LEMMA NextFlushType == TypeOK /\ [Next]_vars => FlushTypeOK'
<1> SUFFICES ASSUME TypeOK, [Next]_vars PROVE FlushTypeOK'
  OBVIOUS
<1> USE DEF TypeOK, FlushTypeOK
<1>1. CASE HandleSlowClients
  BY <1>1 DEF HandleSlowClients
<1>2. ASSUME NEW i \in RoomStates, FlushBatch(i) PROVE FlushTypeOK'
  BY <1>2 DEF FlushBatch, RoomTypeOK
<1>3. ASSUME NEW i \in RoomStates, NEW c \in Clients, Deliver(i, c) PROVE FlushTypeOK'
  BY <1>3 DEF Deliver
<1>4. ASSUME NEW i \in RoomStates, FinishFlush(i) PROVE FlushTypeOK'
  BY <1>4 DEF FinishFlush, HandOverSlow
<1> QED
  BY <1>1, <1>2, <1>3, <1>4, FlushSteps

LEMMA NextWriteType == TypeOK /\ [Next]_vars => WriteTypeOK'
<1> SUFFICES ASSUME TypeOK, [Next]_vars PROVE WriteTypeOK'
  OBVIOUS
<1> USE WsHubAssumption DEF TypeOK, WriteTypeOK, WriterPC
<1>1. ASSUME NEW c \in Clients, Register(c) \/ WritePrepared(c) \/ WriteExit(c) PROVE WriteTypeOK'
  <2>1. \/ UNCHANGED send
        \/ send[c] # <<>> /\ send' = [send EXCEPT ![c] = Tail(@)]
    BY <1>1, Zenon DEF Register, WritePrepared, WriteExit
  <2>2. handed' = handed /\ wpc' \in [Clients -> WriterPC]
    BY <1>1 DEF Register, WritePrepared, WriteExit
  <2>3. send[c] # <<>> => Tail(send[c]) \in Seq(Frame) /\ Len(Tail(send[c])) <= SendCap
    <3>1. send[c] \in Seq(Frame) /\ Len(send[c]) <= SendCap /\ Len(send[c]) \in Nat
      OBVIOUS
    <3> QED
      BY <3>1
  <2>4. send' \in [Clients -> Seq(Frame)]
    BY <2>1, <2>3
  <2>5. \A d \in Clients : Len(send'[d]) <= SendCap
    BY <2>1, <2>3
  <2> QED
    BY <2>2, <2>4, <2>5
<1>2. ASSUME NEW c \in Clients, NEW f \in Frame, Len(send[c]) < SendCap,
             send' = [send EXCEPT ![c] = Append(@, f)], UNCHANGED wpc,
             handed' \in [Clients -> SUBSET Nat]
      PROVE  WriteTypeOK'
  BY <1>2
<1>3. ASSUME NEW c \in Clients, SendSubscribeConfirmation(c) PROVE WriteTypeOK'
  <2>1. [room |-> room[c], msgs |-> <<>>] \in Frame
    BY DEF Frame, ReadTypeOK
  <2> QED
    BY <1>2, <1>3, <2>1 DEF SendSubscribeConfirmation
<1>4. ASSUME NEW c \in Clients, RateLimited(c) PROVE WriteTypeOK'
  <2>1. [room |-> None, msgs |-> <<>>] \in Frame
    BY DEF Frame
  <2> QED
    BY <1>2, <1>4, <2>1 DEF RateLimited
<1>5. ASSUME NEW i \in RoomStates, NEW c \in Clients, Deliver(i, c) PROVE WriteTypeOK'
  <2>1. [room |-> nameOf[i], msgs |-> batch[i]] \in Frame
    BY DEF Frame, RoomTypeOK, BufferTypeOK
  <2>2. \A k \in DOMAIN batch[i] : batch[i][k] \in Message
    BY DEF BufferTypeOK
  <2>3. IdsOf(batch[i]) \subseteq Nat
    BY <2>2 DEF IdsOf, Message
  <2>4. /\ UNCHANGED wpc
        /\ \/ UNCHANGED handed
           \/ handed' = [handed EXCEPT ![c] = @ \cup IdsOf(batch[i])]
    BY <1>5, Zenon DEF Deliver
  <2>5. \/ UNCHANGED send
        \/ Len(send[c]) < SendCap
           /\ send' = [send EXCEPT ![c] = Append(@, [room |-> nameOf[i], msgs |-> batch[i]])]
    BY <1>5, Zenon DEF Deliver
  <2> QED
    <3>1. handed' \in [Clients -> SUBSET Nat]
      <4>1. handed[c] \cup IdsOf(batch[i]) \in SUBSET Nat
        BY <2>3
      <4> QED
        BY <2>4, <4>1
    <3>2. CASE UNCHANGED send
      BY <2>4, <3>1, <3>2
    <3> QED
      BY <1>2, <2>1, <2>4, <2>5, <3>1, <3>2
<1> QED
  BY <1>1, <1>3, <1>4, <1>5, WriteSteps

LEMMA NextConnType == TypeOK /\ [Next]_vars => conn' \in [Clients -> BOOLEAN]
<1> SUFFICES ASSUME conn \in [Clients -> BOOLEAN], [Next]_vars PROVE conn' \in [Clients -> BOOLEAN]
  BY DEF TypeOK
<1>1. ASSUME NEW S, conn' = [c \in Clients |-> conn[c] /\ c \notin S]
      PROVE  conn' \in [Clients -> BOOLEAN]
  BY <1>1, Zenon
<1>2. ASSUME NEW d, NEW b \in BOOLEAN, conn' = [conn EXCEPT ![d] = b]
      PROVE  conn' \in [Clients -> BOOLEAN]
  BY <1>2
<1>3. RunRemove \/ HandleSlowClients => conn' \in [Clients -> BOOLEAN]
  <2>1. RunRemove \/ HandleSlowClients =>
          UNCHANGED conn \/ \E S : conn' = [c \in Clients |-> conn[c] /\ c \notin S]
    BY Zenon DEF RunRemove, HandleSlowClients, RemoveClients
  <2>2. UNCHANGED conn => conn' \in [Clients -> BOOLEAN]
    BY Zenon
  <2>3. (\E S : conn' = [c \in Clients |-> conn[c] /\ c \notin S])
          => conn' \in [Clients -> BOOLEAN]
    BY <1>1, Zenon
  <2> QED
    BY <2>1, <2>2, <2>3, Zenon
<1>4. ASSUME NEW c \in Clients, LeaveOldRoom(c) PROVE conn' \in [Clients -> BOOLEAN]
  BY <1>1, <1>4, Zenon DEF LeaveOldRoom, RemoveClients
<1>5. ASSUME NEW c \in Clients,
             Connect(c) \/ AddClientToNil(c) \/ HandleDirectMessageAdd(c) \/ PeerClose(c)
      PROVE  conn' \in [Clients -> BOOLEAN]
  BY <1>2, <1>5, Zenon DEF Connect, AddClientToNil, HandleDirectMessageAdd, PeerClose, Panic
<1> QED
  BY <1>3, <1>4, <1>5, ConnSteps, Zenon

LEMMA NextReadType == TypeOK /\ [Next]_vars => ReadTypeOK'
<1> SUFFICES ASSUME ReadTypeOK, RoomTypeOK, [Next]_vars PROVE ReadTypeOK'
  BY DEF TypeOK
<1> USE WsHubAssumption DEF ReadTypeOK, ReaderPC, RoomTypeOK, Goto
<1>1. ASSUME NEW c \in Clients, Reader(c) PROVE ReadTypeOK'
  <2> USE <1>1
  <2>1. CASE Connect(c) \/ Register(c) \/ ReadExit(c) \/ Unregister(c)
    <3>1. \E l \in {"register", "read", "unregister", "gone"} : Goto(c, l)
      BY <2>1, Zenon DEF Connect, Register, ReadExit, Unregister
    <3>2. UNCHANGED <<room, inbox, target, oldRoom, newRoom>>
      BY <2>1, Zenon DEF Connect, Register, ReadExit, Unregister
    <3> QED
      BY <3>1, <3>2
  <2>2. ASSUME NEW r \in Rooms, HandleRoomJoin(c, r) PROVE ReadTypeOK'
    BY <2>2 DEF HandleRoomJoin, Read
  <2>3. CASE BuildRoomBroadcaster(c)
    BY <2>3 DEF BuildRoomBroadcaster
  <2>4. CASE SubscribeNothing(c) \/ JoinRefused(c) \/ SendSubscribeConfirmation(c)
    <3>1. FinishJoin(c) /\ UNCHANGED <<room, inbox>>
      BY <2>4, Zenon DEF SubscribeNothing, JoinRefused, SendSubscribeConfirmation
    <3> QED
      BY <3>1 DEF FinishJoin
  <2>5. CASE SubscribeLookup(c)
    BY <2>5 DEF SubscribeLookup
  <2>6. CASE LeaveOldRoom(c)
    BY <2>6 DEF LeaveOldRoom
  <2>7. CASE AddClient(c)
    BY <2>7 DEF AddClient, SetRoom
  <2>8. CASE AddClientToNil(c)
    BY <2>8 DEF AddClientToNil, Panic
  <2>9. CASE DropFrame(c) \/ HandleChannelMessageAdd(c) \/ RateLimited(c)
    <3>1. (\E event : Read(c, event)) /\ UNCHANGED <<room, rpc, target, oldRoom, newRoom>>
      BY <2>9, Zenon DEF DropFrame, HandleChannelMessageAdd, RateLimited
    <3> QED
      BY <3>1 DEF Read
  <2>10. CASE HandleDirectMessageAdd(c)
    BY <2>10 DEF HandleDirectMessageAdd, Panic, Read
  <2> QED
    BY <2>1, <2>2, <2>3, <2>4, <2>5, <2>6, <2>7, <2>8, <2>9, <2>10, Zenon DEF Reader
<1> QED
  BY <1>1, ReadSteps

LEMMA NextRunType == TypeOK /\ [Next]_vars => RunTypeOK'
<1> SUFFICES ASSUME TypeOK, [Next]_vars PROVE RunTypeOK'
  OBVIOUS
<1> USE DEF TypeOK, RunTypeOK
<1>1. ASSUME NEW c \in Clients, Register(c) \/ Unregister(c) PROVE RunTypeOK'
  <2>1. CASE Register(c)
    BY <2>1 DEF Register
  <2>2. CASE Unregister(c)
    BY <2>2 DEF Unregister
  <2> QED
    BY <1>1, <2>1, <2>2
<1>2. CASE RunRegister
  BY <1>2 DEF RunRegister
<1>3. CASE RunUnregister
  BY <1>3 DEF RunUnregister, ReadTypeOK, RoomTypeOK
<1>4. CASE RunRemove
  BY <1>4 DEF RunRemove
<1> QED
  BY <1>1, <1>2, <1>3, <1>4, RunSteps

LEMMA NextKafkaType == TypeOK /\ [Next]_vars => KafkaTypeOK'
<1> SUFFICES ASSUME TypeOK, [Next]_vars PROVE KafkaTypeOK'
  OBVIOUS
<1> USE DEF TypeOK, KafkaTypeOK
<1>1. ASSUME NEW c \in Clients, HandleChannelMessageAdd(c) PROVE KafkaTypeOK'
  BY <1>1 DEF HandleChannelMessageAdd, ReadTypeOK, Message
<1>2. CASE FetchBroadcast
  <2>1. Head(topic) \in Message /\ topic' \in Seq(Message) /\ UNCHANGED nextId
    BY <1>2 DEF FetchBroadcast
  <2>2. rooms[Head(topic).room] \in RoomStates \cup {None}
    BY <2>1 DEF RoomTypeOK, Message
  <2>3. fetched' = Head(topic) /\ committed' = committed /\ repeated' = repeated
    BY <1>2, Zenon DEF FetchBroadcast
  <2>4. \/ kmsg' = kmsg /\ kroom' = kroom
        \/ /\ kmsg' = Head(topic) /\ kroom' = rooms[Head(topic).room]
           /\ rooms[Head(topic).room] # None
    BY <1>2, Zenon DEF FetchBroadcast, Missing
  <2>5. kmsg' \in Message \cup {None} /\ kroom' \in RoomStates \cup {None}
        /\ (kmsg' # None => kroom' # None)
    BY <2>1, <2>2, <2>4
  <2> QED
    BY <2>1, <2>3, <2>5
<1>3. CASE BroadcastSend \/ BroadcastTimeout
  BY <1>3 DEF BroadcastSend, BroadcastTimeout, HandlerDone
<1>4. CASE CommitBroadcast
  BY <1>4 DEF CommitBroadcast, Message
<1>5. CASE Rebalance
  <2>1. topic' \in Seq(Message)
    <3>1. \/ topic' = <<>>
          \/ fetched # None /\ topic' = <<fetched>> \o topic
          \/ topic # <<>> /\ topic' = Tail(topic)
      BY <1>5, Zenon DEF Rebalance
    <3>2. \A m \in Message : \A q \in Seq(Message) : <<m>> \o q \in Seq(Message)
      OBVIOUS
    <3>3. \A q \in Seq(Message) : q # <<>> => Tail(q) \in Seq(Message)
      OBVIOUS
    <3>4. <<>> \in Seq(Message)
      OBVIOUS
    <3>5. topic \in Seq(Message) /\ (fetched # None => fetched \in Message)
      OBVIOUS
    <3> HIDE DEF TypeOK, KafkaTypeOK
    <3> QED
      BY <3>1, <3>2, <3>3, <3>4, <3>5
  <2>2. repeated' \subseteq Nat
    BY <1>5 DEF Rebalance, Message
  <2> QED
    BY <1>5, <2>1, <2>2 DEF Rebalance
<1> QED
  BY <1>1, <1>2, <1>3, <1>4, <1>5, KafkaSteps

LEMMA NextTypeOK == TypeOK /\ [Next]_vars => TypeOK'
  BY NextRoomType, NextBufferType, NextFlushType, NextConnType, NextWriteType,
     NextReadType, NextRunType, NextKafkaType DEF TypeOK

\* The hub keeps its types, and every buffer its capacity.
THEOREM HubTypeCorrect == Spec => []TypeOK
  BY InitTypeOK, NextTypeOK, PTL DEF Spec
-----------------------------------------------------------------------------
(***************************************************************************)
(* The hub's map and the RoomStates name each other: what the map has      *)
(* under a name bears it, and an object stays in the map until its own     *)
(* broadcaster has stopped.                                                *)
(***************************************************************************)
RoomIdentity ==
    /\ \A r \in Rooms : rooms[r] # None => nameOf[rooms[r]] = r
    /\ \A i \in RoomStates :
        /\ nameOf[i] = None => bpc[i] = "none"
        /\ nameOf[i] # None /\ bpc[i] # "stopped" => rooms[nameOf[i]] = i

\* How the map and the names change: an object gets its name when it enters
\* the map, and leaves the map when its broadcaster stops.
LEMMA RoomChanges ==
    ASSUME TypeOK, RoomIdentity, [Next]_vars
    PROVE  \/ /\ UNCHANGED <<rooms, nameOf>>
              /\ \A i \in RoomStates : (bpc'[i] = "none") <=> (bpc[i] = "none")
              /\ \A i \in RoomStates : (bpc'[i] = "stopped") <=> (bpc[i] = "stopped")
           \/ /\ clients' = clients
              /\ \E r \in Rooms, i \in RoomStates, serving \in {"select", "none"} :
                   /\ rooms[r] = None /\ nameOf[i] = None
                   /\ rooms' = [rooms EXCEPT ![r] = i]
                   /\ nameOf' = [nameOf EXCEPT ![i] = r]
                   /\ bpc' = [bpc EXCEPT ![i] = serving]
           \/ /\ UNCHANGED <<nameOf, clients>>
              /\ \E i \in RoomStates :
                   /\ nameOf[i] # None /\ rooms[nameOf[i]] = i
                   /\ rooms' = [rooms EXCEPT ![nameOf[i]] = None]
                   /\ bpc' = [bpc EXCEPT ![i] = "stopped"]
<1> USE DEF TypeOK, RoomTypeOK
<1>1. ASSUME NEW c \in Clients, BuildRoomBroadcaster(c) \/ SubscribeLookup(c)
      PROVE  \/ UNCHANGED <<rooms, nameOf, clients, bpc>>
             \/ /\ clients' = clients
                /\ \E r \in Rooms, i \in RoomStates, serving \in {"select", "none"} :
                     /\ rooms[r] = None /\ nameOf[i] = None
                     /\ rooms' = [rooms EXCEPT ![r] = i]
                     /\ nameOf' = [nameOf EXCEPT ![i] = r]
                     /\ bpc' = [bpc EXCEPT ![i] = serving]
  <2>1. target[c] \in Rooms /\ clients' = clients
    BY <1>1 DEF BuildRoomBroadcaster, SubscribeLookup, ReadTypeOK
  <2>2. \/ UNCHANGED <<rooms, nameOf, bpc>>
        \/ /\ rooms[target[c]] = None
           /\ \E serving \in {"select", "none"} : CreateRoom(target[c], serving)
    BY <1>1, Zenon DEF BuildRoomBroadcaster, SubscribeLookup, Missing
  <2>3. CASE UNCHANGED <<rooms, nameOf, bpc>>
    BY <2>1, <2>3
  <2>4. ASSUME rooms[target[c]] = None, NEW serving \in {"select", "none"},
               CreateRoom(target[c], serving)
        PROVE  \E r \in Rooms, i \in RoomStates, serves \in {"select", "none"} :
                     /\ rooms[r] = None /\ nameOf[i] = None
                     /\ rooms' = [rooms EXCEPT ![r] = i]
                     /\ nameOf' = [nameOf EXCEPT ![i] = r]
                     /\ bpc' = [bpc EXCEPT ![i] = serves]
    <3>1. PICK i \in RoomStates :
            /\ nameOf[i] = None
            /\ rooms' = [rooms EXCEPT ![target[c]] = i]
            /\ nameOf' = [nameOf EXCEPT ![i] = target[c]]
            /\ bpc' = [bpc EXCEPT ![i] = serving]
      BY <2>4, CreateRoomTakes
    <3> QED
      BY <2>1, <2>4, <3>1
  <2> QED
    BY <2>1, <2>2, <2>3, <2>4, Zenon
<1>2. ASSUME \/ \E c \in Clients : LeaveOldRoom(c) \/ AddClient(c)
             \/ RunRemove \/ HandleSlowClients
      PROVE  UNCHANGED <<rooms, nameOf, bpc>>
  BY <1>2, Zenon DEF LeaveOldRoom, AddClient, RunRemove, HandleSlowClients
<1>3. ASSUME NEW i \in RoomStates, FlushBatch(i) \/ FinishFlush(i) \/ IdleTick(i)
      PROVE  /\ UNCHANGED <<rooms, nameOf>>
             /\ bpc[i] \in {"select", "deliver"}
             /\ \E l \in {"select", "deliver", "remove"} : bpc' = [bpc EXCEPT ![i] = l]
  BY <1>3 DEF FlushBatch, FinishFlush, IdleTick, Selecting
<1>4. ASSUME NEW i \in RoomStates, RemoveRoom(i)
      PROVE  /\ UNCHANGED <<nameOf, clients>>
             /\ nameOf[i] # None /\ rooms[nameOf[i]] = i
             /\ rooms' = [rooms EXCEPT ![nameOf[i]] = None]
             /\ bpc' = [bpc EXCEPT ![i] = "stopped"]
  BY <1>4 DEF RemoveRoom, RoomIdentity
<1>5. ASSUME NEW i \in RoomStates, FlushBatch(i) \/ FinishFlush(i) \/ IdleTick(i)
      PROVE  /\ UNCHANGED <<rooms, nameOf>>
             /\ \A j \in RoomStates : /\ (bpc'[j] = "none") <=> (bpc[j] = "none")
                                      /\ (bpc'[j] = "stopped") <=> (bpc[j] = "stopped")
  BY <1>3, <1>5
<1> QED
  BY <1>1, <1>2, <1>4, <1>5, RoomSteps

LEMMA NextRoomIdentity ==
    ASSUME TypeOK, RoomIdentity, [Next]_vars
    PROVE  RoomIdentity'
<1>1. CASE /\ UNCHANGED <<rooms, nameOf>>
           /\ \A i \in RoomStates : (bpc'[i] = "none") <=> (bpc[i] = "none")
           /\ \A i \in RoomStates : (bpc'[i] = "stopped") <=> (bpc[i] = "stopped")
  BY WsHubAssumption, <1>1 DEF TypeOK, RoomTypeOK, RoomIdentity
<1>2. ASSUME NEW r \in Rooms, NEW i \in RoomStates, NEW serving \in {"select", "none"},
             rooms[r] = None, nameOf[i] = None,
             rooms' = [rooms EXCEPT ![r] = i],
             nameOf' = [nameOf EXCEPT ![i] = r],
             bpc' = [bpc EXCEPT ![i] = serving]
      PROVE  RoomIdentity'
  <2>1. ASSUME NEW q \in Rooms, rooms'[q] # None PROVE nameOf'[rooms'[q]] = q
    BY WsHubAssumption, <1>2, <2>1 DEF TypeOK, RoomTypeOK, RoomIdentity
  <2>2. ASSUME NEW j \in RoomStates
        PROVE  /\ nameOf'[j] = None => bpc'[j] = "none"
               /\ nameOf'[j] # None /\ bpc'[j] # "stopped" => rooms'[nameOf'[j]] = j
    BY WsHubAssumption, <1>2, <2>2 DEF TypeOK, RoomTypeOK, RoomIdentity
  <2> QED
    BY <2>1, <2>2 DEF RoomIdentity
<1>3. ASSUME NEW i \in RoomStates, UNCHANGED nameOf,
             nameOf[i] # None, rooms[nameOf[i]] = i,
             rooms' = [rooms EXCEPT ![nameOf[i]] = None],
             bpc' = [bpc EXCEPT ![i] = "stopped"]
      PROVE  RoomIdentity'
  <2>1. ASSUME NEW q \in Rooms, rooms'[q] # None PROVE nameOf'[rooms'[q]] = q
    BY WsHubAssumption, <1>3, <2>1 DEF TypeOK, RoomTypeOK, RoomIdentity
  <2>2. ASSUME NEW j \in RoomStates
        PROVE  /\ nameOf'[j] = None => bpc'[j] = "none"
               /\ nameOf'[j] # None /\ bpc'[j] # "stopped" => rooms'[nameOf'[j]] = j
    BY WsHubAssumption, <1>3, <2>2 DEF TypeOK, RoomTypeOK, RoomIdentity
  <2> QED
    BY <2>1, <2>2 DEF RoomIdentity
<1> QED
  BY <1>1, <1>2, <1>3, RoomChanges, Zenon

LEMMA InitRoomIdentity == Init => RoomIdentity
  BY DEF Init, RoomIdentity

\* removeRoom deletes the room whose broadcaster found itself idle.
THEOREM RemovesOwnRoomCorrect == Spec => []RemovesOwnRoom
<1> DEFINE Inv == TypeOK /\ RoomIdentity
<1>1. Init => Inv
  BY InitTypeOK, InitRoomIdentity
<1>2. Inv /\ [Next]_vars => Inv'
  BY NextTypeOK, NextRoomIdentity
<1>3. Inv => RemovesOwnRoom
  BY DEF RoomIdentity, RemovesOwnRoom
<1> QED
  BY <1>1, <1>2, <1>3, PTL DEF Spec
-----------------------------------------------------------------------------
(***************************************************************************)
(* Admission.  AdmittedOnly speaks of Client.send and RoomState.clients;   *)
(* the invariant follows the name of the room from SubscribeRoom's locals, *)
(* and the name of a message from the topic, through every buffer.         *)
(***************************************************************************)
Joining == {"leave", "admit", "confirm"}

\* SubscribeRoom's newRoom bears the name that was asked for.
JoinNamed ==
    \A c \in Clients : newRoom[c] # None =>
        rpc[c] \in Joining /\ target[c] # None /\ nameOf[newRoom[c]] = target[c]

\* Who is in a room, or about to be sent its batch, may join it.
MembersAdmitted ==
    \A i \in RoomStates : \A c \in clients[i] \cup snapshot[i] : <<c, nameOf[i]>> \in MayJoin

ClientsAdmitted ==
    \A c \in Clients : room[c] # None => <<c, room[c]>> \in MayJoin

\* A RoomState buffers only messages of its room.
MessagesNamed ==
    /\ \A i \in RoomStates :
        /\ \A k \in DOMAIN outBuffer[i] : outBuffer[i][k].room = nameOf[i]
        /\ \A k \in DOMAIN batch[i] : batch[i][k].room = nameOf[i]
    /\ kmsg # None => nameOf[kroom] = kmsg.room

FrameAdmitted(c, f) ==
    /\ f.room # None => <<c, f.room>> \in MayJoin
    /\ \A j \in DOMAIN f.msgs : f.msgs[j].room = f.room

FramesAdmitted == \A c \in Clients : \A k \in DOMAIN send[c] : FrameAdmitted(c, send[c][k])

AdmittedInv ==
    /\ TypeOK /\ RoomIdentity
    /\ JoinNamed /\ MembersAdmitted /\ ClientsAdmitted /\ MessagesNamed /\ FramesAdmitted

\* A RoomState keeps its name.
LEMMA NamesStay ==
    ASSUME TypeOK, RoomIdentity, [Next]_vars, NEW i \in RoomStates, nameOf[i] # None
    PROVE  nameOf'[i] = nameOf[i]
<1>1. \/ UNCHANGED nameOf
      \/ \E r \in Rooms, j \in RoomStates :
           nameOf[j] = None /\ nameOf' = [nameOf EXCEPT ![j] = r]
  BY RoomChanges, Zenon
<1> QED
  BY <1>1 DEF TypeOK, RoomTypeOK

LEMMA NextJoinNamed == ASSUME AdmittedInv, [Next]_vars PROVE JoinNamed'
<1> USE WsHubAssumption DEF AdmittedInv, JoinNamed, Joining
<1>1. rooms \in [Rooms -> RoomStates \cup {None}] /\ newRoom \in [Clients -> RoomStates \cup {None}]
      /\ rpc \in [Clients -> ReaderPC] /\ target \in [Clients -> Rooms \cup {None}]
  BY DEF TypeOK, RoomTypeOK, ReadTypeOK
<1>2. \A i \in RoomStates : nameOf[i] # None => nameOf'[i] = nameOf[i]
  BY NamesStay
<1>3. CASE UNCHANGED <<room, rpc, inbox, target, oldRoom, newRoom>>
  BY <1>1, <1>2, <1>3
<1>4. ASSUME NEW c \in Clients, Reader(c) PROVE JoinNamed'
  <2>1. CASE SubscribeLookup(c)
    <3>1. /\ newRoom' = [newRoom EXCEPT ![c] = rooms[target[c]]]
          /\ rpc' \in {[rpc EXCEPT ![c] = "admit"], [rpc EXCEPT ![c] = "leave"]}
          /\ UNCHANGED target
          /\ target[c] # None
      BY <2>1 DEF SubscribeLookup, Goto, TypeOK, ReadTypeOK
    <3>2. rooms[target[c]] # None => nameOf[rooms[target[c]]] = target[c]
      BY <1>1, <3>1 DEF RoomIdentity
    <3> QED
      BY <1>1, <1>2, <3>1, <3>2
  <2>2. ASSUME NEW r \in Rooms, HandleRoomJoin(c, r) PROVE JoinNamed'
    BY <1>1, <1>2, <2>2 DEF HandleRoomJoin, Read, Goto
  <2>3. CASE SubscribeNothing(c) \/ JoinRefused(c) \/ SendSubscribeConfirmation(c)
    <3>1. FinishJoin(c)
      BY <2>3 DEF SubscribeNothing, JoinRefused, SendSubscribeConfirmation
    <3> QED
      BY <1>1, <1>2, <3>1 DEF FinishJoin, Goto
  <2>4. CASE Connect(c) \/ Register(c) \/ ReadExit(c) \/ Unregister(c) \/ BuildRoomBroadcaster(c)
             \/ LeaveOldRoom(c) \/ AddClient(c) \/ AddClientToNil(c) \/ HandleDirectMessageAdd(c)
    <3>1. /\ UNCHANGED <<target, newRoom>>
          /\ \E l \in ReaderPC : /\ rpc' = [rpc EXCEPT ![c] = l]
                                 /\ rpc[c] \in Joining => newRoom[c] = None \/ l \in Joining
      BY <2>4 DEF Connect, Register, ReadExit, Unregister, BuildRoomBroadcaster, LeaveOldRoom,
         AddClient, AddClientToNil, HandleDirectMessageAdd, Panic, Goto, Read, ReaderPC
    <3> QED
      BY <1>1, <1>2, <3>1
  <2>5. CASE DropFrame(c) \/ HandleChannelMessageAdd(c) \/ RateLimited(c)
    BY <1>1, <1>2, <2>5 DEF DropFrame, HandleChannelMessageAdd, RateLimited
  <2> QED
    BY <1>4, <2>1, <2>2, <2>3, <2>4, <2>5, Zenon DEF Reader
<1> QED
  BY <1>3, <1>4, ReadSteps, Zenon

LEMMA NextMembersAdmitted == ASSUME AdmittedInv, [Next]_vars PROVE MembersAdmitted'
<1>1. /\ clients \in [RoomStates -> SUBSET Clients]
      /\ snapshot \in [RoomStates -> SUBSET Clients]
  BY DEF AdmittedInv, TypeOK, RoomTypeOK, FlushTypeOK
\* Who was to be served may join, under the name that stays.
<1>2. ASSUME NEW i \in RoomStates, NEW c \in clients[i] \cup snapshot[i]
      PROVE  <<c, nameOf'[i]>> \in MayJoin
  <2>1. <<c, nameOf[i]>> \in MayJoin
    BY DEF AdmittedInv, MembersAdmitted
  <2>2. nameOf[i] # None
    BY <2>1, WsHubAssumption
  <2> QED
    BY <2>1, <2>2, NamesStay DEF AdmittedInv
<1>3. ASSUME NEW i \in RoomStates, NEW c \in clients'[i]
      PROVE  c \in clients[i] \/ <<c, nameOf'[i]>> \in MayJoin
  <2>1. CASE UNCHANGED clients
    BY <2>1
  <2>2. ASSUME NEW d \in Clients, AddClient(d)
        PROVE  c \in clients[i] \/ <<c, nameOf'[i]>> \in MayJoin
    <3>1. /\ clients' = [clients EXCEPT ![newRoom[d]] = @ \cup {d}]
          /\ newRoom[d] # None /\ <<d, target[d]>> \in MayJoin
          /\ newRoom[d] \in RoomStates /\ UNCHANGED nameOf
      BY <2>2 DEF AddClient, CanJoin, AdmittedInv, TypeOK, ReadTypeOK
    <3>2. nameOf[newRoom[d]] = target[d]
      BY <3>1 DEF AdmittedInv, JoinNamed
    <3> QED
      BY <1>1, <1>3, <3>1, <3>2
  <2>3. ASSUME NEW j, NEW S, clients' = [clients EXCEPT ![j] = @ \ S]
        PROVE  c \in clients[i]
    BY <1>1, <1>3, <2>3
  <2>4. CASE \/ \E d \in Clients : LeaveOldRoom(d)
             \/ RunRemove \/ HandleSlowClients
    <3>1. UNCHANGED clients \/ \E j, S : clients' = [clients EXCEPT ![j] = @ \ S]
      BY <2>4, Zenon DEF LeaveOldRoom, RunRemove, HandleSlowClients, RemoveClients
    <3> QED
      BY <2>1, <2>3, <3>1
  <2>5. ASSUME \/ \E d \in Clients : BuildRoomBroadcaster(d) \/ SubscribeLookup(d)
               \/ \E j \in RoomStates :
                    FlushBatch(j) \/ FinishFlush(j) \/ IdleTick(j) \/ RemoveRoom(j)
        PROVE  UNCHANGED clients
    BY <2>5, Zenon DEF BuildRoomBroadcaster, SubscribeLookup, FlushBatch, FinishFlush, IdleTick,
       RemoveRoom
  <2> QED
    BY <2>1, <2>2, <2>4, <2>5, RoomSteps, Zenon
<1>4. ASSUME NEW i \in RoomStates, NEW c \in snapshot'[i]
      PROVE  c \in clients[i] \cup snapshot[i]
  <2>1. CASE UNCHANGED <<snapshot, slow, removals>> \/ HandleSlowClients
    BY <1>4, <2>1 DEF HandleSlowClients
  <2>2. ASSUME NEW j \in RoomStates, FlushBatch(j) \/ (\E d \in Clients : Deliver(j, d)) \/ FinishFlush(j)
        PROVE  c \in clients[i] \cup snapshot[i]
    BY <1>1, <1>4, <2>2 DEF FlushBatch, Deliver, FinishFlush
  <2> QED
    BY <2>1, <2>2, FlushSteps, Zenon
<1> QED
  BY <1>2, <1>3, <1>4 DEF MembersAdmitted

LEMMA NextClientsAdmitted == ASSUME AdmittedInv, [Next]_vars PROVE ClientsAdmitted'
<1> USE DEF AdmittedInv, ClientsAdmitted
<1>1. ASSUME NEW c \in Clients, Reader(c)
      PROVE  UNCHANGED room \/ (CanJoin(c, target[c]) /\ SetRoom(c))
  BY <1>1, Zenon DEF Reader, Connect, Register, ReadExit, Unregister, HandleRoomJoin,
     BuildRoomBroadcaster, SubscribeNothing, SubscribeLookup, LeaveOldRoom, JoinRefused,
     AddClient, AddClientToNil, SendSubscribeConfirmation, DropFrame,
     HandleChannelMessageAdd, HandleDirectMessageAdd, RateLimited
<1>2. ASSUME NEW c \in Clients, CanJoin(c, target[c]), SetRoom(c) PROVE ClientsAdmitted'
  BY <1>2 DEF CanJoin, SetRoom, TypeOK, ReadTypeOK
<1>3. CASE UNCHANGED room
  BY <1>3
<1> QED
  BY <1>1, <1>2, <1>3, ReadSteps, Zenon

\* A sequence of messages of the room r.
MessagesOf(q, r) == q \in Seq(Message) /\ \A k \in DOMAIN q : q[k].room = r

LEMMA NamedSequences ==
    ASSUME NEW r, NEW q, MessagesOf(q, r)
    PROVE  /\ \A m \in Message : m.room = r => MessagesOf(Append(q, m), r)
           /\ \A n \in 0..Len(q) : MessagesOf(SubSeq(q, n + 1, Len(q)), r)
           /\ \A p : \A n \in 0..Len(q) :
                MessagesOf(p, r) => MessagesOf(p \o SubSeq(q, 1, n), r)
<1>1. ASSUME NEW m \in Message, m.room = r PROVE MessagesOf(Append(q, m), r)
  BY <1>1 DEF MessagesOf
<1>2. ASSUME NEW n \in 0..Len(q) PROVE MessagesOf(SubSeq(q, n + 1, Len(q)), r)
  BY DEF MessagesOf
<1>3. ASSUME NEW p, NEW n \in 0..Len(q), MessagesOf(p, r)
      PROVE  MessagesOf(p \o SubSeq(q, 1, n), r)
  <2>1. MessagesOf(SubSeq(q, 1, n), r)
    BY DEF MessagesOf
  <2> QED
    BY <1>3, <2>1 DEF MessagesOf
<1> QED
  BY <1>1, <1>2, <1>3

LEMMA NextMessagesNamed == ASSUME AdmittedInv, [Next]_vars PROVE MessagesNamed'
<1>1. /\ outBuffer \in [RoomStates -> Seq(Message)] /\ batch \in [RoomStates -> Seq(Message)]
      /\ \A i \in RoomStates : Len(batch[i]) <= MaxBatch
      /\ kmsg \in Message \cup {None} /\ kroom \in RoomStates \cup {None}
      /\ (kmsg # None => kroom # None)
      /\ rooms \in [Rooms -> RoomStates \cup {None}]
  BY DEF AdmittedInv, TypeOK, RoomTypeOK, BufferTypeOK, KafkaTypeOK
<1>2. ASSUME NEW i \in RoomStates
      PROVE  MessagesOf(outBuffer[i], nameOf[i]) /\ MessagesOf(batch[i], nameOf[i])
  BY <1>1 DEF AdmittedInv, MessagesNamed, MessagesOf
\* The buffers, under the old names.
<1>3. ASSUME NEW i \in RoomStates
      PROVE  MessagesOf(outBuffer'[i], nameOf[i]) /\ MessagesOf(batch'[i], nameOf[i])
  <2>1. CASE UNCHANGED <<outBuffer, batch>>
    BY <1>2, <2>1
  <2>2. CASE BroadcastSend
    <3>1. /\ kmsg \in Message /\ kroom \in RoomStates /\ kmsg.room = nameOf[kroom]
          /\ outBuffer' = [outBuffer EXCEPT ![kroom] = Append(@, kmsg)] /\ UNCHANGED batch
      BY <1>1, <2>2 DEF BroadcastSend, AdmittedInv, MessagesNamed
    <3>2. MessagesOf(Append(outBuffer[kroom], kmsg), nameOf[kroom])
      BY <1>2, <3>1, NamedSequences
    <3> QED
      BY <1>1, <1>2, <3>1, <3>2
  <2>3. ASSUME NEW j \in RoomStates, BroadcasterReceive(j)
        PROVE  MessagesOf(outBuffer'[i], nameOf[i]) /\ MessagesOf(batch'[i], nameOf[i])
    <3>1. PICK n \in 0..Len(outBuffer[j]) : Drain(j, n)
      <4>1. Smaller(Len(outBuffer[j]), MaxBatch - Len(batch[j])) \in 0..Len(outBuffer[j])
        BY <1>1, WsHubAssumption DEF Smaller
      <4> QED
        BY <2>3, <4>1 DEF BroadcasterReceive
    <3>2. /\ MessagesOf(SubSeq(outBuffer[j], n + 1, Len(outBuffer[j])), nameOf[j])
          /\ MessagesOf(batch[j] \o SubSeq(outBuffer[j], 1, n), nameOf[j])
      BY <1>2, NamedSequences
    <3> QED
      BY <1>1, <1>2, <3>1, <3>2 DEF Drain
  <2>4. ASSUME NEW j \in RoomStates, FinishFlush(j)
        PROVE  MessagesOf(outBuffer'[i], nameOf[i]) /\ MessagesOf(batch'[i], nameOf[i])
    <3>1. MessagesOf(<< >>, nameOf[i])
      BY DEF MessagesOf
    <3> QED
      BY <1>1, <1>2, <2>4, <3>1 DEF FinishFlush, ClearBatch
  <2> QED
    BY <2>1, <2>2, <2>3, <2>4, BufferSteps, Zenon
\* An object that buffers anything has a name already.
<1>4. ASSUME NEW i \in RoomStates, NEW q, MessagesOf(q, nameOf[i])
      PROVE  \A k \in DOMAIN q : q[k].room = nameOf'[i]
  <2>1. CASE nameOf[i] # None
    BY <1>4, <2>1, NamesStay DEF AdmittedInv, MessagesOf
  <2>2. CASE nameOf[i] = None
    <3>1. \A k \in DOMAIN q : q[k] \in Message /\ q[k].room = None
      BY <1>4, <2>2 DEF MessagesOf
    <3> QED
      BY <3>1, WsHubAssumption DEF Message
  <2> QED
    BY <2>1, <2>2
<1>5. kmsg' # None => nameOf'[kroom'] = kmsg'.room
  <2>1. CASE FetchBroadcast
    <3>1. CASE UNCHANGED <<kmsg, kroom>>
      <4>1. UNCHANGED nameOf
        BY <2>1, Zenon DEF FetchBroadcast
      <4> QED
        BY <3>1, <4>1 DEF AdmittedInv, MessagesNamed
    <3>2. CASE ~UNCHANGED <<kmsg, kroom>>
      <4>1. /\ kmsg' = Head(topic) /\ kroom' = rooms[Head(topic).room]
            /\ rooms[Head(topic).room] # None /\ topic # << >> /\ UNCHANGED nameOf
        <5>1. /\ topic # << >> /\ UNCHANGED nameOf
              /\ IF rooms[Head(topic).room] = None
                 THEN UNCHANGED <<kmsg, kroom>>
                 ELSE kmsg' = Head(topic) /\ kroom' = rooms[Head(topic).room]
          BY <2>1, Zenon DEF FetchBroadcast, Missing
        <5> QED
          BY <3>2, <5>1, Zenon
      <4>2. kmsg' \in Message
        BY <4>1 DEF AdmittedInv, TypeOK, KafkaTypeOK
      <4> QED
        BY <4>1, <4>2 DEF Message, AdmittedInv, RoomIdentity
    <3> QED
      BY <3>1, <3>2
  <2>2. CASE BroadcastSend \/ BroadcastTimeout
    BY <2>2 DEF BroadcastSend, BroadcastTimeout, HandlerDone
  <2>3. CASE UNCHANGED <<kmsg, kroom>>
    <3>1. kmsg # None => /\ kroom \in RoomStates /\ nameOf[kroom] = kmsg.room
                         /\ kmsg.room # None
      BY <1>1, WsHubAssumption DEF Message, AdmittedInv, MessagesNamed
    <3> QED
      BY <2>3, <3>1, NamesStay DEF AdmittedInv
  <2>4. ASSUME NEW c \in Clients, HandleChannelMessageAdd(c)
        PROVE  UNCHANGED <<kmsg, kroom>>
    BY <2>4 DEF HandleChannelMessageAdd
  <2>5. CASE CommitBroadcast \/ Rebalance
    BY <2>3, <2>5, Zenon DEF CommitBroadcast, Rebalance
  <2> QED
    BY <2>1, <2>2, <2>3, <2>4, <2>5, KafkaSteps, Zenon
<1> QED
  BY <1>3, <1>4, <1>5 DEF MessagesNamed

LEMMA NextFramesAdmitted == ASSUME AdmittedInv, [Next]_vars PROVE FramesAdmitted'
<1>1. /\ send \in [Clients -> Seq(Frame)] /\ room \in [Clients -> Rooms \cup {None}]
  BY DEF AdmittedInv, TypeOK, WriteTypeOK, ReadTypeOK
<1>2. CASE UNCHANGED send
  BY <1>2 DEF AdmittedInv, FramesAdmitted
<1>3. ASSUME NEW c \in Clients, NEW f, FrameAdmitted(c, f),
             send' = [send EXCEPT ![c] = Append(@, f)]
      PROVE  FramesAdmitted'
  BY <1>1, <1>3 DEF AdmittedInv, FramesAdmitted
<1>4. ASSUME NEW c \in Clients, send[c] # << >>, send' = [send EXCEPT ![c] = Tail(@)]
      PROVE  FramesAdmitted'
  BY <1>1, <1>4 DEF AdmittedInv, FramesAdmitted
<1>5. ASSUME NEW c \in Clients, Register(c) \/ WritePrepared(c) \/ WriteExit(c)
      PROVE  UNCHANGED send \/ (send[c] # << >> /\ send' = [send EXCEPT ![c] = Tail(@)])
  BY <1>5, Zenon DEF Register, WritePrepared, WriteExit
<1>6. ASSUME NEW c \in Clients, SendSubscribeConfirmation(c) \/ RateLimited(c)
      PROVE  FramesAdmitted'
  <2>1. \E r \in {None, room[c]} :
          send' = [send EXCEPT ![c] = Append(@, [room |-> r, msgs |-> << >>])]
    BY <1>6, Zenon DEF SendSubscribeConfirmation, RateLimited
  <2>2. \A r \in {None, room[c]} : FrameAdmitted(c, [room |-> r, msgs |-> << >>])
    BY DEF FrameAdmitted, AdmittedInv, ClientsAdmitted
  <2> QED
    BY <1>3, <2>1, <2>2
<1>7. ASSUME NEW i \in RoomStates, NEW c \in Clients, Deliver(i, c)
      PROVE  FramesAdmitted'
  <2>1. c \in snapshot[i]
    BY <1>7 DEF Deliver
  <2>2. FrameAdmitted(c, [room |-> nameOf[i], msgs |-> batch[i]])
    BY <2>1 DEF FrameAdmitted, AdmittedInv, MembersAdmitted, MessagesNamed
  <2>3. \/ UNCHANGED send
        \/ send' = [send EXCEPT ![c] = Append(@, [room |-> nameOf[i], msgs |-> batch[i]])]
    BY <1>7, Zenon DEF Deliver
  <2> QED
    BY <1>2, <1>3, <2>2, <2>3
<1> QED
  BY <1>2, <1>4, <1>5, <1>6, <1>7, WriteSteps, Zenon

LEMMA InitAdmittedInv == Init => AdmittedInv
<1> SUFFICES ASSUME Init PROVE AdmittedInv
  OBVIOUS
<1>1. JoinNamed /\ MembersAdmitted /\ ClientsAdmitted /\ MessagesNamed /\ FramesAdmitted
  BY DEF Init, JoinNamed, MembersAdmitted, ClientsAdmitted, MessagesNamed, FramesAdmitted
<1> QED
  BY <1>1, InitTypeOK, InitRoomIdentity DEF AdmittedInv

LEMMA NextAdmittedInv == AdmittedInv /\ [Next]_vars => AdmittedInv'
  BY NextTypeOK, NextRoomIdentity, NextJoinNamed, NextMembersAdmitted, NextClientsAdmitted,
     NextMessagesNamed, NextFramesAdmitted DEF AdmittedInv

\* What a client is sent, now and while it waits in Client.send, is of rooms
\* that the membership stores let it join.
THEOREM AdmittedOnlyCorrect == Spec => []AdmittedOnly
<1>1. AdmittedInv => AdmittedOnly
  BY DEF AdmittedInv, MembersAdmitted, FramesAdmitted, FrameAdmitted, AdmittedOnly
<1> QED
  BY <1>1, InitAdmittedInv, NextAdmittedInv, PTL DEF Spec
-----------------------------------------------------------------------------
(***************************************************************************)
(* One room at a time.  SubscribeRoom takes the client out of its old room *)
(* before it adds it to the new one, but it looks the old room up first:   *)
(* from then until the removal, the client is in no other live room.       *)
(***************************************************************************)
Leaving ==
    \A c \in Clients, r \in Rooms : InRoom(c, r) =>
        /\ room[c] = r
        /\ rpc[c] # "admit"
        /\ rpc[c] = "leave" => rooms[r] = oldRoom[c]

\* Nobody is in a live room they were not in before, unless they joined it.
LEMMA RoomEntries ==
    ASSUME AdmittedInv, [Next]_vars, NEW c \in Clients, NEW r \in Rooms, InRoom(c, r)'
    PROVE  \/ InRoom(c, r) /\ rooms'[r] = rooms[r]
           \/ AddClient(c) /\ target[c] = r
<1>1. /\ rooms \in [Rooms -> RoomStates \cup {None}] /\ nameOf \in [RoomStates -> Rooms \cup {None}]
      /\ rooms' \in [Rooms -> RoomStates \cup {None}]
      /\ clients \in [RoomStates -> SUBSET Clients]
  BY NextRoomType DEF AdmittedInv, TypeOK, RoomTypeOK
<1>2. rooms'[r] \in RoomStates /\ c \in clients'[rooms'[r]]
  BY <1>1 DEF InRoom
<1>3. CASE UNCHANGED rooms
  <2>1. CASE c \in clients[rooms[r]]
    BY <1>2, <1>3, <2>1, WsHubAssumption DEF InRoom
  <2>2. CASE c \notin clients[rooms[r]]
    <3>1. \E d \in Clients : AddClient(d)
      <4>1. CASE UNCHANGED clients
        BY <1>2, <1>3, <2>2, <4>1
      <4>2. ASSUME NEW j, NEW S, clients' = [clients EXCEPT ![j] = @ \ S] PROVE FALSE
        BY <1>1, <1>2, <1>3, <2>2, <4>2
      <4>3. ASSUME \/ \E d \in Clients : LeaveOldRoom(d)
                   \/ RunRemove \/ HandleSlowClients
            PROVE  UNCHANGED clients \/ \E j, S : clients' = [clients EXCEPT ![j] = @ \ S]
        BY <4>3, Zenon DEF LeaveOldRoom, RunRemove, HandleSlowClients, RemoveClients
      <4>4. ASSUME \/ \E d \in Clients : BuildRoomBroadcaster(d) \/ SubscribeLookup(d)
                   \/ \E j \in RoomStates :
                        FlushBatch(j) \/ FinishFlush(j) \/ IdleTick(j) \/ RemoveRoom(j)
            PROVE  UNCHANGED clients
        BY <4>4, Zenon DEF BuildRoomBroadcaster, SubscribeLookup, FlushBatch, FinishFlush,
           IdleTick, RemoveRoom
      <4> QED
        BY <4>1, <4>2, <4>3, <4>4, RoomSteps, Zenon
    <3>2. PICK d \in Clients : AddClient(d)
      BY <3>1
    <3>3. /\ clients' = [clients EXCEPT ![newRoom[d]] = @ \cup {d}]
          /\ newRoom[d] \in RoomStates /\ nameOf[newRoom[d]] = target[d]
      BY <3>2 DEF AddClient, AdmittedInv, JoinNamed, TypeOK, ReadTypeOK
    <3>4. d = c /\ newRoom[c] = rooms[r]
      BY <1>1, <1>2, <1>3, <2>2, <3>3
    <3>5. nameOf[rooms[r]] = r
      BY <1>2, <1>3, WsHubAssumption DEF AdmittedInv, RoomIdentity
    <3> QED
      BY <3>2, <3>3, <3>4, <3>5
  <2> QED
    BY <2>1, <2>2
<1>4. ASSUME NEW q \in Rooms, NEW i \in RoomStates,
             rooms[q] = None, nameOf[i] = None, UNCHANGED clients,
             rooms' = [rooms EXCEPT ![q] = i]
      PROVE  InRoom(c, r) /\ rooms'[r] = rooms[r]
  <2>1. clients[i] = {}
    <3>1. \A d \in clients[i] : <<d, nameOf[i]>> \in MayJoin
      BY DEF AdmittedInv, MembersAdmitted
    <3> QED
      BY <1>4, <3>1, WsHubAssumption
  <2> QED
    BY <1>1, <1>2, <1>4, <2>1, WsHubAssumption DEF InRoom
<1>5. ASSUME NEW q \in Rooms, UNCHANGED clients, rooms' = [rooms EXCEPT ![q] = None]
      PROVE  InRoom(c, r) /\ rooms'[r] = rooms[r]
  BY <1>1, <1>2, <1>5, WsHubAssumption DEF InRoom
<1>6. \/ UNCHANGED rooms
      \/ /\ UNCHANGED clients
         /\ \E q \in Rooms, i \in RoomStates :
              rooms[q] = None /\ nameOf[i] = None /\ rooms' = [rooms EXCEPT ![q] = i]
      \/ /\ UNCHANGED clients
         /\ \E q \in Rooms : rooms' = [rooms EXCEPT ![q] = None]
  <2>1. \A i \in RoomStates : nameOf[i] # None => nameOf[i] \in Rooms
    BY <1>1
  <2> QED
    BY <2>1, RoomChanges, Zenon DEF AdmittedInv
<1> QED
  BY <1>3, <1>4, <1>5, <1>6

\* A reader does not move another.
LEMMA OtherReaders ==
    ASSUME TypeOK, NEW c \in Clients, NEW d \in Clients, d # c, Reader(d)
    PROVE  room'[c] = room[c] /\ rpc'[c] = rpc[c] /\ oldRoom'[c] = oldRoom[c]
<1> USE DEF TypeOK, ReadTypeOK
<1>1. CASE Connect(d) \/ Register(d) \/ ReadExit(d) \/ Unregister(d)
           \/ (\E r \in Rooms : HandleRoomJoin(d, r)) \/ BuildRoomBroadcaster(d) \/ LeaveOldRoom(d)
  BY <1>1 DEF Connect, Register, ReadExit, Unregister, HandleRoomJoin,
     BuildRoomBroadcaster, LeaveOldRoom, Goto
<1>2. CASE SubscribeNothing(d) \/ SubscribeLookup(d) \/ JoinRefused(d)
  BY <1>2 DEF SubscribeNothing, SubscribeLookup, JoinRefused, FinishJoin, Goto
<1>3. CASE AddClient(d) \/ AddClientToNil(d) \/ SendSubscribeConfirmation(d)
  BY <1>3 DEF AddClient, SetRoom, AddClientToNil, Panic, SendSubscribeConfirmation,
     FinishJoin, Goto
<1>4. CASE DropFrame(d) \/ HandleChannelMessageAdd(d) \/ HandleDirectMessageAdd(d)
           \/ RateLimited(d)
  BY <1>4 DEF DropFrame, HandleChannelMessageAdd, HandleDirectMessageAdd, Panic, Goto,
     RateLimited
<1> QED
  BY <1>1, <1>2, <1>3, <1>4, Zenon DEF Reader

\* What a step does to the locals of one client's SubscribeRoom.
LEMMA ReaderMoves ==
    ASSUME TypeOK, [Next]_vars, NEW c \in Clients
    PROVE  \/ AddClient(c) \/ SubscribeLookup(c) \/ LeaveOldRoom(c)
           \/ room'[c] = room[c] /\ rpc'[c] \notin {"leave", "admit"}
           \/ room'[c] = room[c] /\ rpc'[c] = rpc[c] /\ oldRoom'[c] = oldRoom[c]
<1> USE DEF TypeOK, ReadTypeOK
<1>1. CASE UNCHANGED <<room, rpc, inbox, target, oldRoom, newRoom>>
  BY <1>1
<1>2. ASSUME NEW d \in Clients, d # c, Reader(d)
      PROVE  room'[c] = room[c] /\ rpc'[c] = rpc[c] /\ oldRoom'[c] = oldRoom[c]
  BY <1>2, OtherReaders
<1>3. ASSUME Reader(c)
      PROVE  \/ AddClient(c) \/ SubscribeLookup(c) \/ LeaveOldRoom(c)
             \/ room'[c] = room[c] /\ rpc'[c] \notin {"leave", "admit"}
             \/ room'[c] = room[c] /\ rpc'[c] = rpc[c] /\ oldRoom'[c] = oldRoom[c]
  <2>1. CASE Connect(c) \/ Register(c) \/ ReadExit(c) \/ Unregister(c)
             \/ (\E r \in Rooms : HandleRoomJoin(c, r)) \/ BuildRoomBroadcaster(c)
    BY <2>1 DEF Connect, Register, ReadExit, Unregister, HandleRoomJoin, BuildRoomBroadcaster, Goto
  <2>2. CASE SubscribeNothing(c) \/ JoinRefused(c) \/ AddClientToNil(c)
             \/ SendSubscribeConfirmation(c)
    BY <2>2 DEF SubscribeNothing, JoinRefused, AddClientToNil, Panic, SendSubscribeConfirmation,
       FinishJoin, Goto
  <2>3. CASE DropFrame(c) \/ HandleChannelMessageAdd(c) \/ HandleDirectMessageAdd(c)
             \/ RateLimited(c)
    BY <2>3 DEF DropFrame, HandleChannelMessageAdd, HandleDirectMessageAdd, Panic, Goto,
       RateLimited
  <2> QED
    BY <1>3, <2>1, <2>2, <2>3, Zenon DEF Reader
<1> QED
  BY <1>1, <1>2, <1>3, ReadSteps

LEMMA NextLeaving == ASSUME AdmittedInv, Leaving, [Next]_vars PROVE Leaving'
<1> SUFFICES ASSUME NEW c \in Clients, NEW r \in Rooms, InRoom(c, r)'
             PROVE  /\ room'[c] = r
                    /\ rpc'[c] # "admit"
                    /\ rpc'[c] = "leave" => rooms'[r] = oldRoom'[c]
  BY DEF Leaving
<1>1. /\ rpc \in [Clients -> ReaderPC] /\ room \in [Clients -> Rooms \cup {None}]
      /\ clients \in [RoomStates -> SUBSET Clients]
      /\ rooms \in [Rooms -> RoomStates \cup {None}]
      /\ oldRoom \in [Clients -> RoomStates \cup {None}]
  BY DEF AdmittedInv, TypeOK, ReadTypeOK, RoomTypeOK
<1>2. CASE AddClient(c) /\ target[c] = r
  BY <1>1, <1>2 DEF AddClient, SetRoom, Goto
<1>3. CASE InRoom(c, r) /\ rooms'[r] = rooms[r]
  <2>1. /\ room[c] = r /\ rpc[c] # "admit" /\ rooms[r] # None
        /\ rpc[c] = "leave" => rooms[r] = oldRoom[c]
    BY <1>3 DEF Leaving, InRoom
  <2>2. ~AddClient(c)
    BY <2>1 DEF AddClient
  <2>3. ~LeaveOldRoom(c)
    <3> SUFFICES ASSUME LeaveOldRoom(c) PROVE FALSE
      OBVIOUS
    <3>1. rooms[r] = oldRoom[c] /\ clients' = [clients EXCEPT ![oldRoom[c]] = @ \ {c}]
      BY <2>1 DEF LeaveOldRoom, RemoveClients
    <3>2. rooms[r] \in RoomStates
      BY <1>1, <2>1
    <3> QED
      BY <1>1, <1>3, <3>1, <3>2 DEF InRoom
  <2>4. CASE SubscribeLookup(c)
    <3>1. oldRoom'[c] = rooms[r] /\ rpc'[c] = "leave" /\ UNCHANGED room
      BY <1>1, <2>1, <2>4, WsHubAssumption DEF SubscribeLookup, Goto
    <3> QED
      BY <1>3, <2>1, <3>1
  <2> QED
    BY <1>3, <2>1, <2>2, <2>3, <2>4, ReaderMoves DEF AdmittedInv
<1> QED
  BY <1>2, <1>3, RoomEntries

LEMMA InitLeaving == Init => Leaving
  BY DEF Init, Leaving, InRoom

\* A client is in no live room but the one its Client.room names.
THEOREM ClientRoomIsCurrentCorrect == Spec => []ClientRoomIsCurrent
<1> DEFINE Inv == AdmittedInv /\ Leaving
<1>1. Init => Inv
  BY InitAdmittedInv, InitLeaving
<1>2. Inv /\ [Next]_vars => Inv'
  BY NextAdmittedInv, NextLeaving
<1>3. Inv => ClientRoomIsCurrent
  BY DEF Leaving, ClientRoomIsCurrent
<1> QED
  BY <1>1, <1>2, <1>3, PTL DEF Spec
-----------------------------------------------------------------------------
(***************************************************************************)
(* Clean-up.  hub.run looks the room up, then removes the client from it:  *)
(* meanwhile no other live room has the client.                            *)
(***************************************************************************)
Departed ==
    /\ \A k \in DOMAIN unregister : rpc[unregister[k]] = "gone"
    /\ hubClient # None =>
        /\ rpc[hubClient] = "gone"
        /\ \A r \in Rooms : InRoom(hubClient, r) => rooms[r] = hubRoom
    /\ GoneMeansRemoved

\* A reader that is gone stays so, and goes by sending on hub.unregister.
LEMMA GoneStays ==
    ASSUME TypeOK, [Next]_vars, NEW c \in Clients
    PROVE  /\ rpc[c] = "gone" => rpc'[c] = "gone"
           /\ rpc'[c] = "gone" => rpc[c] = "gone" \/ Unregister(c)
<1> USE DEF TypeOK, ReadTypeOK
<1>1. CASE UNCHANGED <<room, rpc, inbox, target, oldRoom, newRoom>>
  BY <1>1
<1>2. ASSUME NEW d \in Clients, d # c, Reader(d) PROVE rpc'[c] = rpc[c]
  BY <1>2, OtherReaders
<1>3. ASSUME Reader(c)
      PROVE  \/ rpc[c] # "gone" /\ (rpc'[c] = "gone" => Unregister(c))
             \/ UNCHANGED rpc
  <2>1. CASE Connect(c) \/ Register(c) \/ ReadExit(c) \/ Unregister(c)
             \/ (\E r \in Rooms : HandleRoomJoin(c, r)) \/ BuildRoomBroadcaster(c)
    BY <2>1 DEF Connect, Register, ReadExit, Unregister, HandleRoomJoin, Read,
       BuildRoomBroadcaster, Goto
  <2>2. CASE SubscribeNothing(c) \/ SubscribeLookup(c) \/ LeaveOldRoom(c) \/ JoinRefused(c)
             \/ AddClient(c) \/ AddClientToNil(c) \/ SendSubscribeConfirmation(c)
    BY <2>2 DEF SubscribeNothing, SubscribeLookup, LeaveOldRoom, JoinRefused, AddClient,
       AddClientToNil, Panic, SendSubscribeConfirmation, FinishJoin, Goto
  <2>3. CASE DropFrame(c) \/ HandleChannelMessageAdd(c) \/ HandleDirectMessageAdd(c)
             \/ RateLimited(c)
    BY <2>3 DEF DropFrame, HandleChannelMessageAdd, HandleDirectMessageAdd, Read, Panic, Goto,
       RateLimited
  <2> QED
    BY <1>3, <2>1, <2>2, <2>3, Zenon DEF Reader
<1> QED
  BY <1>1, <1>2, <1>3, ReadSteps

LEMMA NextDeparted ==
    ASSUME AdmittedInv, Leaving, Departed, [Next]_vars
    PROVE  Departed'
<1>1. /\ rpc \in [Clients -> ReaderPC] /\ unregister \in Seq(Clients)
      /\ hubClient \in Clients \cup {None} /\ hubRoom \in RoomStates \cup {None}
      /\ clients \in [RoomStates -> SUBSET Clients]
      /\ rooms \in [Rooms -> RoomStates \cup {None}]
  BY DEF AdmittedInv, TypeOK, ReadTypeOK, RunTypeOK, RoomTypeOK
<1>2. \A c \in Clients : rpc[c] = "gone" => rpc'[c] = "gone"
  BY GoneStays DEF AdmittedInv
\* A client that is gone can only have been in the live room before.
<1>3. ASSUME NEW c \in Clients, NEW r \in Rooms, rpc'[c] = "gone", InRoom(c, r)'
      PROVE  InRoom(c, r) /\ rooms'[r] = rooms[r]
  <2>1. ~AddClient(c)
    BY <1>1, <1>3 DEF AddClient, Goto
  <2> QED
    BY <1>3, <2>1, RoomEntries
<1>4. CASE UNCHANGED <<unregister, hubClient, hubRoom>>
  <2>1. ASSUME NEW c \in Clients, NEW r \in Rooms, rpc'[c] = "gone", InRoom(c, r)',
               hubClient # c, \A k \in DOMAIN unregister : unregister[k] # c
        PROVE  FALSE
    <3>1. InRoom(c, r)
      BY <1>3, <2>1
    <3>2. rpc[c] = "gone" \/ Unregister(c)
      BY <2>1, GoneStays DEF AdmittedInv
    <3>3. ~Unregister(c)
      BY <1>1, <1>4 DEF Unregister
    <3> QED
      BY <2>1, <3>1, <3>2, <3>3 DEF Departed, GoneMeansRemoved
  <2>2. GoneMeansRemoved'
    BY <1>4, <2>1 DEF GoneMeansRemoved
  <2>3. hubClient' # None =>
        /\ rpc'[hubClient'] = "gone"
        /\ \A r \in Rooms : InRoom(hubClient, r)' => rooms'[r] = hubRoom'
    BY <1>1, <1>2, <1>3, <1>4 DEF Departed
  <2>4. \A k \in DOMAIN unregister' : rpc'[unregister'[k]] = "gone"
    BY <1>1, <1>2, <1>4 DEF Departed
  <2> QED
    BY <2>2, <2>3, <2>4 DEF Departed
<1>5. ASSUME NEW d \in Clients, Unregister(d) PROVE Departed'
  <2>1. /\ unregister' = Append(unregister, d) /\ UNCHANGED <<hubClient, hubRoom>>
        /\ rpc'[d] = "gone"
    BY <1>1, <1>5 DEF Unregister, Goto
  <2>2. ASSUME NEW c \in Clients, NEW r \in Rooms, rpc'[c] = "gone", InRoom(c, r)',
               hubClient' # c, \A k \in DOMAIN unregister' : unregister'[k] # c
        PROVE  FALSE
    <3>1. c # d /\ \A k \in DOMAIN unregister : unregister[k] # c
      BY <1>1, <2>1, <2>2
    <3>2. rpc[c] = "gone"
      BY <1>1, <1>5, <2>2, <3>1 DEF Unregister, Goto
    <3> QED
      BY <1>3, <2>1, <2>2, <3>1, <3>2 DEF Departed, GoneMeansRemoved
  <2>3. GoneMeansRemoved'
    BY <2>2 DEF GoneMeansRemoved
  <2>4. hubClient' # None =>
        /\ rpc'[hubClient'] = "gone"
        /\ \A r \in Rooms : InRoom(hubClient, r)' => rooms'[r] = hubRoom'
    BY <1>1, <1>2, <1>3, <2>1 DEF Departed
  <2>5. \A k \in DOMAIN unregister' : rpc'[unregister'[k]] = "gone"
    BY <1>1, <1>2, <2>1 DEF Departed
  <2> QED
    BY <2>3, <2>4, <2>5 DEF Departed
<1>6. CASE RunUnregister
  <2>1. /\ hubClient = None /\ unregister # << >> /\ unregister' = Tail(unregister)
        /\ hubClient' = Head(unregister) /\ UNCHANGED <<rpc, rooms, room, clients>>
        /\ hubRoom' = IF room[hubClient'] = None THEN None ELSE rooms[room[hubClient']]
    BY <1>6 DEF RunUnregister
  <2>2. /\ hubClient' \in Clients /\ rpc[hubClient'] = "gone"
        /\ \A k \in DOMAIN unregister' : rpc[unregister'[k]] = "gone"
    BY <1>1, <2>1 DEF Departed
  <2>3. ASSUME NEW r \in Rooms, InRoom(hubClient, r)' PROVE rooms'[r] = hubRoom'
    <3>1. InRoom(hubClient', r)
      BY <2>1, <2>3 DEF InRoom
    <3> QED
      BY <2>1, <2>2, <3>1, WsHubAssumption DEF Leaving
  <2>4. ASSUME NEW c \in Clients, NEW r \in Rooms, rpc'[c] = "gone", InRoom(c, r)',
               hubClient' # c, \A k \in DOMAIN unregister' : unregister'[k] # c
        PROVE  FALSE
    <3>1. ASSUME NEW k \in DOMAIN unregister PROVE unregister[k] # c
      <4>1. CASE k = 1
        BY <1>1, <2>1, <2>4, <4>1
      <4>2. CASE k # 1
        <5>1. k - 1 \in DOMAIN Tail(unregister) /\ Tail(unregister)[k - 1] = unregister[k]
          BY <1>1, <2>1, <4>2
        <5> QED
          BY <2>1, <2>4, <5>1
      <4> QED
        BY <4>1, <4>2
    <3>2. hubClient # c
      BY <2>1, WsHubAssumption
    <3> QED
      BY <1>3, <2>1, <2>4, <3>1, <3>2 DEF Departed, GoneMeansRemoved
  <2>5. GoneMeansRemoved'
    BY <2>4 DEF GoneMeansRemoved
  <2> QED
    BY <2>1, <2>2, <2>3, <2>5 DEF Departed
<1>7. CASE RunRemove
  <2>1. /\ hubClient \in Clients /\ hubClient' = None
        /\ UNCHANGED <<unregister, rpc, rooms>>
        /\ hubRoom # None => clients' = [clients EXCEPT ![hubRoom] = @ \ {hubClient}]
    BY <1>1, <1>7 DEF RunRemove, RemoveClients
  <2>2. ASSUME NEW c \in Clients, NEW r \in Rooms, rpc'[c] = "gone", InRoom(c, r)',
               \A k \in DOMAIN unregister' : unregister'[k] # c
        PROVE  FALSE
    <3>1. InRoom(c, r)
      BY <1>3, <2>2
    <3>2. CASE c = hubClient
      <4>1. rooms[r] = hubRoom /\ hubRoom \in RoomStates
        BY <1>1, <2>1, <3>1, <3>2, WsHubAssumption DEF Departed, InRoom
      <4> QED
        BY <1>1, <2>1, <2>2, <3>2, <4>1, WsHubAssumption DEF InRoom
    <3> QED
      BY <2>1, <2>2, <3>1, <3>2 DEF Departed, GoneMeansRemoved
  <2>3. GoneMeansRemoved'
    BY <2>2 DEF GoneMeansRemoved
  <2> QED
    BY <2>1, <2>3 DEF Departed
<1>8. CASE (\E d \in Clients : Register(d)) \/ RunRegister
  BY <1>4, <1>8, Zenon DEF Register, RunRegister
<1> QED
  BY <1>4, <1>5, <1>6, <1>7, <1>8, RunSteps, Zenon

LEMMA InitDeparted == Init => Departed
  BY DEF Init, Departed, GoneMeansRemoved

\* What hub.run has unregistered is in no live room.
THEOREM GoneMeansRemovedCorrect == Spec => []GoneMeansRemoved
<1> DEFINE Inv == AdmittedInv /\ Leaving /\ Departed
<1>1. Init => Inv
  BY InitAdmittedInv, InitLeaving, InitDeparted
<1>2. Inv /\ [Next]_vars => Inv'
  BY NextAdmittedInv, NextLeaving, NextDeparted
<1>3. Inv => GoneMeansRemoved
  BY DEF Departed
<1> QED
  BY <1>1, <1>2, <1>3, PTL DEF Spec
-----------------------------------------------------------------------------
(***************************************************************************)
(* A connected client stays a member.  The RoomState may have been deleted *)
(* from the map: what counts is that only RemoveClients takes members out. *)
(***************************************************************************)
Member(c) == \E i \in RoomStates : nameOf[i] = room[c] /\ c \in clients[i]

Joined ==
    \A c \in Clients :
        /\ rpc[c] = "off" => room[c] = None
        /\ conn[c] /\ room[c] # None => Member(c)

\* A connection opens in Connect only, and who loses a membership loses it.
LEMMA ConnGoes ==
    ASSUME TypeOK, [Next]_vars, NEW c \in Clients, conn'[c]
    PROVE  /\ conn[c] \/ Connect(c)
           /\ \A i \in RoomStates : c \in clients[i] => c \in clients'[i]
<1>1. conn \in [Clients -> BOOLEAN] /\ clients \in [RoomStates -> SUBSET Clients]
  BY DEF TypeOK, RoomTypeOK
<1>2. conn[c] \/ Connect(c)
  <2>1. CASE UNCHANGED <<conn>>
    BY <2>1
  <2>2. ASSUME NEW d \in Clients, Connect(d) PROVE conn[c] \/ Connect(c)
    BY <1>1, <2>2 DEF Connect
  <2>3. ASSUME NEW d \in Clients, conn' = [conn EXCEPT ![d] = FALSE] PROVE conn[c]
    BY <1>1, <2>3
  <2>4. ASSUME NEW S, conn' = [e \in Clients |-> conn[e] /\ e \notin S] PROVE conn[c]
    BY <2>4
  <2>5. ASSUME NEW d \in Clients, AddClientToNil(d) \/ HandleDirectMessageAdd(d) \/ PeerClose(d)
        PROVE  conn' = [conn EXCEPT ![d] = FALSE]
    BY <2>5, Zenon DEF AddClientToNil, HandleDirectMessageAdd, PeerClose, Panic
  <2>6. ASSUME (\E d \in Clients : LeaveOldRoom(d)) \/ RunRemove \/ HandleSlowClients
        PROVE  \/ UNCHANGED <<conn>>
               \/ \E S : conn' = [e \in Clients |-> conn[e] /\ e \notin S]
    BY <2>6, Zenon DEF LeaveOldRoom, RunRemove, HandleSlowClients, RemoveClients
  <2> QED
    BY <2>1, <2>2, <2>3, <2>4, <2>5, <2>6, ConnSteps, Zenon
<1>3. ASSUME NEW i \in RoomStates, c \in clients[i] PROVE c \in clients'[i]
  <2>1. CASE UNCHANGED clients
    BY <1>3, <2>1
  <2>2. ASSUME NEW d \in Clients, AddClient(d) PROVE c \in clients'[i]
    BY <1>1, <1>3, <2>2 DEF AddClient
  <2>3. ASSUME NEW j, NEW S, RemoveClients(j, S) PROVE c \in clients'[i]
    <3>1. c \notin S
      BY <2>3, Zenon DEF RemoveClients
    <3>2. clients' = [clients EXCEPT ![j] = @ \ S]
      BY <2>3, Zenon DEF RemoveClients
    <3> QED
      BY <1>1, <1>3, <3>1, <3>2
  <2>4. ASSUME (\E d \in Clients : LeaveOldRoom(d)) \/ RunRemove \/ HandleSlowClients
        PROVE  UNCHANGED clients \/ \E j, S : RemoveClients(j, S)
    BY <2>4, Zenon DEF LeaveOldRoom, RunRemove, HandleSlowClients
  <2>5. ASSUME \/ \E d \in Clients : BuildRoomBroadcaster(d) \/ SubscribeLookup(d)
               \/ \E j \in RoomStates :
                    FlushBatch(j) \/ FinishFlush(j) \/ IdleTick(j) \/ RemoveRoom(j)
        PROVE  UNCHANGED clients
    BY <2>5, Zenon DEF BuildRoomBroadcaster, SubscribeLookup, FlushBatch, FinishFlush,
       IdleTick, RemoveRoom
  <2> QED
    BY <2>1, <2>2, <2>3, <2>4, <2>5, RoomSteps, Zenon
<1> QED
  BY <1>2, <1>3

\* Client.room changes in addClient only, and the reader leaves "off" for good.
LEMMA RoomMoves ==
    ASSUME TypeOK, [Next]_vars, NEW c \in Clients
    PROVE  /\ room'[c] = room[c] \/ AddClient(c)
           /\ rpc'[c] = "off" => rpc[c] = "off" /\ room'[c] = room[c]
<1> USE DEF TypeOK, ReadTypeOK
<1>1. CASE UNCHANGED <<room, rpc, inbox, target, oldRoom, newRoom>>
  BY <1>1
<1>2. ASSUME NEW d \in Clients, d # c, Reader(d)
      PROVE  room'[c] = room[c] /\ rpc'[c] = rpc[c]
  BY <1>2, OtherReaders
<1>3. ASSUME Reader(c)
      PROVE  \/ AddClient(c) /\ rpc'[c] # "off"
             \/ UNCHANGED room /\ (rpc'[c] # "off" \/ UNCHANGED rpc)
  <2>1. CASE Connect(c) \/ Register(c) \/ ReadExit(c) \/ Unregister(c)
             \/ (\E r \in Rooms : HandleRoomJoin(c, r)) \/ BuildRoomBroadcaster(c)
    BY <2>1 DEF Connect, Register, ReadExit, Unregister, HandleRoomJoin,
       BuildRoomBroadcaster, Goto
  <2>2. CASE SubscribeNothing(c) \/ SubscribeLookup(c) \/ LeaveOldRoom(c) \/ JoinRefused(c)
             \/ AddClient(c) \/ AddClientToNil(c) \/ SendSubscribeConfirmation(c)
    BY <2>2 DEF SubscribeNothing, SubscribeLookup, LeaveOldRoom, JoinRefused, AddClient,
       AddClientToNil, Panic, SendSubscribeConfirmation, FinishJoin, Goto
  <2>3. CASE DropFrame(c) \/ HandleChannelMessageAdd(c) \/ HandleDirectMessageAdd(c)
             \/ RateLimited(c)
    BY <2>3 DEF DropFrame, HandleChannelMessageAdd, HandleDirectMessageAdd, Panic, Goto,
       RateLimited
  <2> QED
    BY <1>3, <2>1, <2>2, <2>3, Zenon DEF Reader
<1> QED
  BY <1>1, <1>2, <1>3, ReadSteps

LEMMA NextJoined == ASSUME AdmittedInv, Joined, [Next]_vars PROVE Joined'
<1>1. ASSUME NEW c \in Clients, rpc'[c] = "off" PROVE room'[c] = None
  BY <1>1, RoomMoves DEF AdmittedInv, Joined
<1>2. ASSUME NEW c \in Clients, conn'[c], room'[c] # None PROVE Member(c)'
  <2>1. CASE AddClient(c)
    <3>1. /\ clients' = [clients EXCEPT ![newRoom[c]] = @ \cup {c}]
          /\ room' = [room EXCEPT ![c] = target[c]] /\ UNCHANGED nameOf
          /\ newRoom[c] \in RoomStates /\ nameOf[newRoom[c]] = target[c]
      BY <2>1 DEF AddClient, SetRoom, AdmittedInv, JoinNamed, TypeOK, ReadTypeOK
    <3> QED
      BY <3>1 DEF Member, AdmittedInv, TypeOK, RoomTypeOK, ReadTypeOK
  <2>2. CASE room'[c] = room[c]
    <3>1. conn[c]
      <4>1. ~Connect(c)
        BY <1>2, <2>2 DEF Connect, Joined
      <4> QED
        BY <1>2, <4>1, ConnGoes DEF AdmittedInv
    <3>2. PICK i \in RoomStates : nameOf[i] = room[c] /\ c \in clients[i]
      BY <1>2, <2>2, <3>1 DEF Joined, Member
    <3>3. c \in clients'[i]
      BY <1>2, <3>2, ConnGoes DEF AdmittedInv
    <3>4. nameOf'[i] = nameOf[i]
      BY <1>2, <2>2, <3>2, NamesStay DEF AdmittedInv
    <3> QED
      BY <2>2, <3>2, <3>3, <3>4 DEF Member
  <2> QED
    BY <2>1, <2>2, RoomMoves DEF AdmittedInv
<1> QED
  BY <1>1, <1>2 DEF Joined

LEMMA InitJoined == Init => Joined
  BY DEF Init, Joined

\* A connected client that has joined is a member of a RoomState of its room.
THEOREM JoinedKeepsMembershipCorrect == Spec => []JoinedKeepsMembership
<1> DEFINE Inv == AdmittedInv /\ Joined
<1>1. Init => Inv
  BY InitAdmittedInv, InitJoined
<1>2. Inv /\ [Next]_vars => Inv'
  BY NextAdmittedInv, NextJoined
<1>3. Inv => JoinedKeepsMembership
  BY DEF Joined, Member, JoinedKeepsMembership
<1> QED
  BY <1>1, <1>2, <1>3, PTL DEF Spec
-----------------------------------------------------------------------------
(***************************************************************************)
(* Refinement: Leaving makes AtRoom a function of the state's InRoom, and  *)
(* RoomEntries says who can enter.                                         *)
(***************************************************************************)
LEMMA WhereIs ==
    ASSUME Leaving, NEW c \in Clients
    PROVE  /\ \A r \in Rooms : InRoom(c, r) => AtRoom(c) = r
           /\ (\A r \in Rooms : ~InRoom(c, r)) => AtRoom(c) = None
<1>1. ASSUME NEW r \in Rooms, InRoom(c, r) PROVE AtRoom(c) = r
  <2>1. \A q \in Rooms : InRoom(c, q) => q = r
    BY <1>1 DEF Leaving
  <2> QED
    BY <1>1, <2>1 DEF AtRoom
<1>2. ASSUME \A r \in Rooms : ~InRoom(c, r) PROVE AtRoom(c) = None
  BY <1>2 DEF AtRoom
<1> QED
  BY <1>1, <1>2

LEMMA WhereIsNext ==
    ASSUME Leaving', NEW c \in Clients
    PROVE  /\ \A r \in Rooms : InRoom(c, r)' => AtRoom(c)' = r
           /\ (\A r \in Rooms : ~InRoom(c, r)') => AtRoom(c)' = None
<1>1. ASSUME NEW r \in Rooms, InRoom(c, r)' PROVE AtRoom(c)' = r
  <2>1. \A q \in Rooms : InRoom(c, q)' => q = r
    BY <1>1 DEF Leaving
  <2> QED
    BY <1>1, <2>1 DEF AtRoom
<1>2. ASSUME \A r \in Rooms : ~InRoom(c, r)' PROVE AtRoom(c)' = None
  BY <1>2 DEF AtRoom
<1> QED
  BY <1>1, <1>2

\* A step of the hub is a step of RoomMembership, or leaves everyone in place.
LEMMA StepImplementsMembership ==
    ASSUME AdmittedInv, Leaving, Leaving', [Next]_vars
    PROVE  [Membership!Next]_(Membership!vars)
<1> DEFINE at == [c \in Clients |-> AtRoom(c)]
<1>1. CASE \A c \in Clients : AtRoom(c)' \in {AtRoom(c), None}
  <2> DEFINE S == {c \in Clients : AtRoom(c) # None /\ AtRoom(c)' = None}
  <2>1. at' = [c \in Clients |-> IF c \in S THEN None ELSE at[c]]
    BY <1>1
  <2>2. \A c \in S : at[c] # None
    OBVIOUS
  <2>3. Membership!Leave(S)
    BY <2>1, <2>2, Zenon DEF Membership!Leave
  <2> QED
    BY <2>3 DEF Membership!Next
<1>2. ASSUME NEW c \in Clients, AddClient(c)
      PROVE  [Membership!Next]_(Membership!vars)
  <2>1. /\ \A r \in Rooms : ~InRoom(c, r)
        /\ <<c, target[c]>> \in MayJoin
        /\ UNCHANGED rooms
        /\ clients' = [clients EXCEPT ![newRoom[c]] = @ \cup {c}]
    BY <1>2 DEF AddClient, CanJoin, Leaving
  <2>2. AtRoom(c) = None /\ target[c] \in Rooms
    BY <2>1, WhereIs, WsHubAssumption
  <2>3. ASSUME NEW d \in Clients, d # c PROVE AtRoom(d)' = AtRoom(d)
    <3>1. \A r \in Rooms : InRoom(d, r)' <=> InRoom(d, r)
      BY <2>1, <2>3 DEF InRoom, AdmittedInv, TypeOK, RoomTypeOK
    <3> QED
      BY <3>1, WhereIs, WhereIsNext
  <2>4. AtRoom(c)' \in {None, target[c]}
    <3>1. \A r \in Rooms : InRoom(c, r)' => r = target[c]
      BY <2>1, RoomEntries
    <3> QED
      BY <3>1, WhereIsNext
  <2>5. CASE AtRoom(c)' = None
    BY <1>1, <2>2, <2>3, <2>5
  <2>6. CASE AtRoom(c)' = target[c]
    <3>1. at' = [at EXCEPT ![c] = target[c]]
      BY <2>3, <2>6
    <3>2. Membership!Enter(c, target[c])
      BY <2>1, <2>2, <3>1 DEF Membership!Enter
    <3> QED
      BY <2>2, <3>2 DEF Membership!Next
  <2> QED
    BY <2>4, <2>5, <2>6
<1>3. CASE \A c \in Clients : ~AddClient(c)
  <2>1. ASSUME NEW c \in Clients PROVE AtRoom(c)' \in {AtRoom(c), None}
    <3>1. CASE \A r \in Rooms : ~InRoom(c, r)'
      BY <3>1, WhereIsNext
    <3>2. ASSUME NEW r \in Rooms, InRoom(c, r)' PROVE AtRoom(c)' = AtRoom(c)
      <4>1. InRoom(c, r)
        BY <1>3, <3>2, RoomEntries
      <4> QED
        BY <3>2, <4>1, WhereIs, WhereIsNext
    <3> QED
      BY <3>1, <3>2
  <2> QED
    BY <1>1, <2>1
<1> QED
  BY <1>2, <1>3

\* The hub implements RoomMembership.
THEOREM ImplementsMembershipCorrect == Spec => ImplementsMembership
<1> DEFINE Inv == AdmittedInv /\ Leaving
<1>1. Init => Membership!Init
  BY DEF Init, Membership!Init, AtRoom, InRoom
<1>2. Init => Inv
  BY InitAdmittedInv, InitLeaving
<1>3. Inv /\ [Next]_vars => Inv'
  BY NextAdmittedInv, NextLeaving
<1>4. Inv /\ Inv' /\ [Next]_vars => [Membership!Next]_(Membership!vars)
  BY StepImplementsMembership
<1> QED
  BY <1>1, <1>2, <1>3, <1>4, PTL DEF Spec, ImplementsMembership, Membership!Spec
-----------------------------------------------------------------------------
(***************************************************************************)
(* Order.  A message gets its id when it enters the topic and keeps its    *)
(* place behind all with a smaller one.  What is buffered is older than    *)
(* all that is still to come, a batch older than the buffer it was taken   *)
(* from, and the frames of a room older than what its one served RoomState *)
(* has yet to send.  The frames of a client outlive the RoomState they     *)
(* came from, so this is about every client and not about members only.    *)
(*                                                                         *)
(* A rebalance may put the message last fetched in front of the topic      *)
(* again, so its id counts among those to come until it is committed, and  *)
(* while it is handled and not committed what is buffered may have it.     *)
(***************************************************************************)
\* The ids that may be put in a buffer, and those that may be there already.
FutureIds == (IF fetched = None THEN {} ELSE {fetched.id}) \cup IdsOf(topic) \cup {nextId}

Again == repeated \cup (IF fetched # None /\ kmsg = None THEN {fetched.id} ELSE {})

Ahead(q, ids, again) ==
    \A k \in DOMAIN q : \A n \in ids : q[k].id < n \/ (q[k].id = n /\ n \in again)

TopicOrdered ==
    /\ InOrder(topic)
    /\ \A k \in DOMAIN topic : topic[k].id < nextId
    /\ kmsg # None => kmsg = fetched
    /\ fetched # None =>
        fetched.id < nextId /\ \A k \in DOMAIN topic : Precedes(fetched.id, topic[k].id)

BufferOrdered(i) ==
    /\ InOrder(batch[i]) /\ InOrder(outBuffer[i]) /\ Before(batch[i], outBuffer[i])
    /\ Ahead(batch[i], FutureIds, Again) /\ Ahead(outBuffer[i], FutureIds, Again)

FramesInOrder(q, ids, again) ==
    \A k \in DOMAIN q :
        /\ InOrder(q[k].msgs) /\ Ahead(q[k].msgs, ids, again)
        /\ \A l \in DOMAIN q : k < l /\ q[k].room = q[l].room => Before(q[k].msgs, q[l].msgs)

FramesOrdered(c) == FramesInOrder(send[c], FutureIds, Again)

\* i has yet to send its batch to c, if c is a member when it takes the snapshot.
Owing(i, c) == ~(bpc[i] = "deliver" /\ c \notin snapshot[i])

ServedInOrder(i, c) ==
    Serving(i) =>
        \A k \in DOMAIN send[c] : send[c][k].room = nameOf[i] =>
            /\ Before(send[c][k].msgs, outBuffer[i])
            /\ Owing(i, c) => Before(send[c][k].msgs, batch[i])

FeedInv ==
    /\ AdmittedInv
    /\ TopicOrdered
    /\ \A i \in RoomStates : BufferOrdered(i)
    /\ \A c \in Clients : FramesOrdered(c)
    /\ \A i \in RoomStates, c \in Clients : ServedInOrder(i, c)

\* What cutting, joining and adding do to the order of messages.
LEMMA OrderNothing ==
    /\ InOrder(<<>>)
    /\ \A q : Before(<<>>, q) /\ Before(q, <<>>)
    /\ \A ids, again : Ahead(<<>>, ids, again)
  BY DEF InOrder, Before, Ahead

LEMMA OrderAppend ==
    ASSUME NEW q \in Seq(Message), NEW m \in Message, NEW ids, NEW again, NEW p \in Seq(Message)
    PROVE  /\ InOrder(q) /\ (\A k \in DOMAIN q : Precedes(q[k].id, m.id)) => InOrder(Append(q, m))
           /\ Ahead(q, ids, again) /\ (\A n \in ids : m.id < n \/ (m.id = n /\ n \in again))
                => Ahead(Append(q, m), ids, again)
           /\ Before(p, q) /\ (\A k \in DOMAIN p : Precedes(p[k].id, m.id))
                => Before(p, Append(q, m))
<1>1. /\ Len(Append(q, m)) = Len(q) + 1 /\ Append(q, m)[Len(q) + 1] = m
      /\ DOMAIN Append(q, m) = 1 .. Len(q) + 1 /\ DOMAIN q = 1 .. Len(q)
      /\ \A k \in 1 .. Len(q) : Append(q, m)[k] = q[k]
  OBVIOUS
<1> QED
  BY <1>1 DEF InOrder, Ahead, Before

LEMMA OrderCut ==
    ASSUME NEW q \in Seq(Message), NEW n \in 0 .. Len(q), InOrder(q),
           NEW ids, NEW again, NEW p \in Seq(Message)
    PROVE  LET first == SubSeq(q, 1, n)
               rest  == SubSeq(q, n + 1, Len(q))
           IN  /\ first \in Seq(Message) /\ rest \in Seq(Message)
               /\ InOrder(first) /\ InOrder(rest) /\ Before(first, rest)
               /\ Ahead(q, ids, again) => Ahead(first, ids, again) /\ Ahead(rest, ids, again)
               /\ Before(p, q) => Before(p, first) /\ Before(p, rest)
<1> DEFINE first == SubSeq(q, 1, n)
           rest  == SubSeq(q, n + 1, Len(q))
<1>1. /\ first \in Seq(Message) /\ rest \in Seq(Message)
      /\ DOMAIN first = 1 .. n /\ DOMAIN rest = 1 .. Len(q) - n
      /\ \A k \in 1 .. n : first[k] = q[k]
      /\ \A k \in 1 .. Len(q) - n : rest[k] = q[n + k]
  <2>1. n \in Nat /\ Len(q) \in Nat /\ n <= Len(q) /\ DOMAIN q = 1 .. Len(q)
    OBVIOUS
  <2>2. first \in Seq(Message) /\ rest \in Seq(Message)
    BY <2>1
  <2>3. DOMAIN first = 1 .. n /\ \A k \in 1 .. n : first[k] = q[k]
    BY <2>1
  <2>4. DOMAIN rest = 1 .. Len(q) - n
    BY <2>1
  <2>5. \A k \in 1 .. Len(q) - n : rest[k] = q[n + k]
    BY <2>1
  <2> QED
    BY <2>2, <2>3, <2>4, <2>5
<1>2. \A k \in DOMAIN first : k \in DOMAIN q /\ first[k] = q[k] /\ k \in Int /\ k <= n
  BY <1>1
<1>3. \A k \in DOMAIN rest : n + k \in DOMAIN q /\ rest[k] = q[n + k] /\ k \in Int /\ k >= 1
  BY <1>1
<1> HIDE DEF first, rest
<1>4. InOrder(first) /\ InOrder(rest)
  <2>1. InOrder(first)
    BY <1>2 DEF InOrder
  <2>2. ASSUME NEW j \in DOMAIN rest, NEW k \in DOMAIN rest, j < k
        PROVE  Precedes(rest[j].id, rest[k].id)
    <3>1. n + j < n + k
      BY <1>3, <2>2
    <3> QED
      BY <1>3, <3>1 DEF InOrder
  <2> QED
    BY <2>1, <2>2 DEF InOrder
<1>5. ASSUME NEW j \in DOMAIN first, NEW k \in DOMAIN rest PROVE Precedes(first[j].id, rest[k].id)
  <2>1. j \in Int /\ k \in Int /\ n \in Int /\ j < n + k
    BY <1>2, <1>3
  <2>2. j \in DOMAIN q /\ n + k \in DOMAIN q
    BY <1>2, <1>3
  <2>3. Precedes(q[j].id, q[n + k].id)
    BY <2>1, <2>2 DEF InOrder
  <2> QED
    BY <1>2, <1>3, <2>3
<1>6. Ahead(q, ids, again) => Ahead(first, ids, again) /\ Ahead(rest, ids, again)
  BY <1>2, <1>3 DEF Ahead
<1>7. Before(p, q) => Before(p, first) /\ Before(p, rest)
  BY <1>2, <1>3 DEF Before
<1> QED
  BY <1>1, <1>4, <1>5, <1>6, <1>7 DEF first, rest, Before

LEMMA JoinedParts ==
    ASSUME NEW p \in Seq(Message), NEW q \in Seq(Message)
    PROVE  /\ DOMAIN p = 1 .. Len(p) /\ DOMAIN q = 1 .. Len(q)
           /\ Len(p) \in Nat /\ Len(q) \in Nat
           /\ DOMAIN (p \o q) = 1 .. Len(p) + Len(q)
           /\ \A k \in 1 .. Len(p) : (p \o q)[k] = p[k]
           /\ \A k \in Len(p) + 1 .. Len(p) + Len(q) : (p \o q)[k] = q[k - Len(p)]
<1>1. /\ DOMAIN p = 1 .. Len(p) /\ DOMAIN q = 1 .. Len(q)
      /\ Len(p) \in Nat /\ Len(q) \in Nat
      /\ p \o q \in Seq(Message) /\ Len(p \o q) = Len(p) + Len(q)
  OBVIOUS
<1>2. DOMAIN (p \o q) = 1 .. Len(p) + Len(q)
  BY <1>1
<1>3. \A k \in 1 .. Len(p) : (p \o q)[k] = p[k]
  OBVIOUS
<1>4. \A k \in Len(p) + 1 .. Len(p) + Len(q) : (p \o q)[k] = q[k - Len(p)]
  OBVIOUS
<1> QED
  BY <1>1, <1>2, <1>3, <1>4

LEMMA OrderJoin ==
    ASSUME NEW p \in Seq(Message), NEW q \in Seq(Message), NEW r \in Seq(Message), NEW ids, NEW again
    PROVE  /\ InOrder(p) /\ InOrder(q) /\ Before(p, q) => InOrder(p \o q)
           /\ Ahead(p, ids, again) /\ Ahead(q, ids, again) => Ahead(p \o q, ids, again)
           /\ Before(p, r) /\ Before(q, r) => Before(p \o q, r)
           /\ Before(r, p) /\ Before(r, q) => Before(r, p \o q)
<1>1. /\ DOMAIN p = 1 .. Len(p) /\ DOMAIN q = 1 .. Len(q)
      /\ Len(p) \in Nat /\ Len(q) \in Nat
      /\ DOMAIN (p \o q) = 1 .. Len(p) + Len(q)
      /\ \A k \in 1 .. Len(p) : (p \o q)[k] = p[k]
      /\ \A k \in Len(p) + 1 .. Len(p) + Len(q) : (p \o q)[k] = q[k - Len(p)]
  BY JoinedParts
<1>2. ASSUME InOrder(p), InOrder(q), Before(p, q) PROVE InOrder(p \o q)
  <2>1. ASSUME NEW j \in DOMAIN (p \o q), NEW k \in DOMAIN (p \o q), j < k
        PROVE  Precedes((p \o q)[j].id, (p \o q)[k].id)
    <3>1. CASE k \in DOMAIN p
      BY <1>1, <1>2, <2>1, <3>1 DEF InOrder
    <3>2. CASE j \notin DOMAIN p
      BY <1>1, <1>2, <2>1, <3>2 DEF InOrder
    <3>3. CASE j \in DOMAIN p /\ k \notin DOMAIN p
      BY <1>1, <1>2, <2>1, <3>3 DEF Before
    <3> QED
      BY <1>1, <2>1, <3>1, <3>2, <3>3
  <2> QED
    BY <2>1 DEF InOrder
<1>3. Ahead(p, ids, again) /\ Ahead(q, ids, again) => Ahead(p \o q, ids, again)
  BY <1>1 DEF Ahead
<1>4. Before(p, r) /\ Before(q, r) => Before(p \o q, r)
  BY <1>1 DEF Before
<1>5. Before(r, p) /\ Before(r, q) => Before(r, p \o q)
  BY <1>1 DEF Before
<1> QED
  BY <1>2, <1>3, <1>4, <1>5

LEMMA MessageAtHand ==
    ASSUME AdmittedInv
    PROVE  /\ topic \in Seq(Message) /\ nextId \in Nat
           /\ kmsg # None => kmsg \in Message /\ kroom \in RoomStates /\ nameOf[kroom] = kmsg.room
           /\ \A m \in Message : m.id \in Nat
<1>1. topic \in Seq(Message) /\ nextId \in Nat /\ (kmsg # None => kmsg \in Message)
  BY DEF AdmittedInv, TypeOK, KafkaTypeOK
<1>2. kmsg # None => kroom \in RoomStates /\ nameOf[kroom] = kmsg.room
  BY DEF AdmittedInv, TypeOK, KafkaTypeOK, MessagesNamed
<1>3. \A m \in Message : m.id \in Nat
  BY DEF Message
<1> QED
  BY <1>1, <1>2, <1>3

\* How the topic, the consumer's message and the handler's change.
LEMMA TopicMoves ==
    ASSUME AdmittedInv, [Next]_vars
    PROVE  \/ UNCHANGED <<topic, kmsg, fetched, repeated, nextId>>
           \/ /\ \E r \in Rooms : topic' = Append(topic, [room |-> r, id |-> nextId])
              /\ nextId' = nextId + 1 /\ UNCHANGED <<kmsg, fetched, repeated>>
           \/ /\ fetched = None /\ topic # <<>>
              /\ topic' = Tail(topic) /\ fetched' = Head(topic)
              /\ kmsg' \in {kmsg, Head(topic)} /\ UNCHANGED <<repeated, nextId>>
           \/ kmsg # None /\ kmsg' = None /\ UNCHANGED <<topic, fetched, repeated, nextId>>
           \/ /\ kmsg = None /\ fetched # None /\ fetched' = None
              /\ UNCHANGED <<topic, kmsg, repeated, nextId>>
           \/ /\ fetched # None
              /\ topic' = <<fetched>> \o topic /\ repeated' = repeated \cup {fetched.id}
              /\ UNCHANGED <<kmsg, fetched, nextId>>
           \/ /\ topic' = <<>> \/ (topic # <<>> /\ topic' = Tail(topic))
              /\ UNCHANGED <<kmsg, fetched, repeated, nextId>>
<1>1. ASSUME NEW c \in Clients, HandleChannelMessageAdd(c)
      PROVE  /\ \E r \in Rooms : topic' = Append(topic, [room |-> r, id |-> nextId])
             /\ nextId' = nextId + 1 /\ UNCHANGED <<kmsg, fetched, repeated>>
  <2>1. room[c] \in Rooms
    BY <1>1 DEF HandleChannelMessageAdd, AdmittedInv, TypeOK, ReadTypeOK
  <2> QED
    BY <1>1, <2>1, Zenon DEF HandleChannelMessageAdd
<1>2. CASE FetchBroadcast
  <2>1. kmsg' = kmsg \/ kmsg' = Head(topic)
    BY <1>2, Zenon DEF FetchBroadcast
  <2> QED
    BY <1>2, <2>1, Zenon DEF FetchBroadcast
<1>3. CASE BroadcastSend \/ BroadcastTimeout
  BY <1>3, Zenon DEF BroadcastSend, BroadcastTimeout, HandlerDone
<1>4. CASE CommitBroadcast
  BY <1>4, Zenon DEF CommitBroadcast
<1>5. CASE Rebalance
  BY <1>5, Zenon DEF Rebalance
<1> QED
  BY <1>1, <1>2, <1>3, <1>4, <1>5, KafkaSteps, Zenon

LEMMA RepeatedGrows == ASSUME AdmittedInv, [Next]_vars PROVE repeated \subseteq repeated'
<1>1. repeated' = repeated \/ repeated' = repeated \cup {fetched.id}
  BY TopicMoves, Zenon
<1> QED
  BY <1>1

LEMMA NextTopicOrdered ==
    ASSUME AdmittedInv, TopicOrdered, [Next]_vars
    PROVE  TopicOrdered'
<1>1. /\ topic \in Seq(Message) /\ nextId \in Nat
      /\ fetched # None => fetched \in Message /\ fetched.id \in Nat
      /\ \A k \in DOMAIN topic : k \in Int /\ topic[k].id \in Nat
  <2>1. \A k \in DOMAIN topic : k \in Int /\ topic[k] \in Message
    BY MessageAtHand
  <2>2. fetched # None => fetched \in Message
    BY DEF AdmittedInv, TypeOK, KafkaTypeOK
  <2> QED
    BY <2>1, <2>2, MessageAtHand
<1>2. /\ \A k \in DOMAIN topic : topic[k].id < nextId
      /\ fetched # None => /\ fetched.id < nextId
                           /\ \A k \in DOMAIN topic : Precedes(fetched.id, topic[k].id)
      /\ \A j, k \in DOMAIN topic : j < k => Precedes(topic[j].id, topic[k].id)
      /\ kmsg # None => kmsg = fetched
  BY DEF TopicOrdered, InOrder
\* The parts, under the old and the larger set of ids that were brought back.
<1>3. ASSUME NEW t, NEW f, t = topic', f = fetched',
             \A j, k \in DOMAIN t : j < k => Precedes(t[j].id, t[k].id),
             \A k \in DOMAIN t : t[k].id < nextId',
             kmsg' # None => kmsg' = f,
             f # None => f.id < nextId' /\ \A k \in DOMAIN t : Precedes(f.id, t[k].id)
      PROVE  TopicOrdered'
  BY <1>3, RepeatedGrows DEF TopicOrdered, InOrder, Precedes
<1>4. CASE UNCHANGED <<topic, kmsg, fetched, repeated, nextId>>
  BY <1>2, <1>3, <1>4
<1>5. ASSUME NEW r \in Rooms, topic' = Append(topic, [room |-> r, id |-> nextId]),
             nextId' = nextId + 1, UNCHANGED <<kmsg, fetched, repeated>>
      PROVE  TopicOrdered'
  <2>1. \A k \in DOMAIN topic' :
          /\ k \in Int
          /\ \/ k \in DOMAIN topic /\ topic'[k] = topic[k]
             \/ topic'[k].id = nextId
    <3>1. /\ DOMAIN topic' = 1 .. Len(topic) + 1 /\ DOMAIN topic = 1 .. Len(topic)
          /\ Len(topic) \in Nat /\ topic'[Len(topic) + 1].id = nextId
          /\ \A k \in 1 .. Len(topic) : topic'[k] = topic[k]
      BY <1>1, <1>5
    <3> QED
      BY <3>1
  <2>2. \A j, k \in DOMAIN topic' : j < k => j \in DOMAIN topic /\ topic'[j] = topic[j]
    <3>1. /\ DOMAIN topic' = 1 .. Len(topic) + 1 /\ DOMAIN topic = 1 .. Len(topic)
          /\ Len(topic) \in Nat
          /\ \A k \in 1 .. Len(topic) : topic'[k] = topic[k]
      BY <1>1, <1>5
    <3> QED
      BY <3>1
  <2>3. \A j, k \in DOMAIN topic' : j < k => Precedes(topic'[j].id, topic'[k].id)
    BY <1>2, <2>1, <2>2 DEF Precedes
  <2>4. \A k \in DOMAIN topic' : topic'[k].id < nextId'
    BY <1>1, <1>2, <1>5, <2>1
  <2>5. fetched' # None => fetched'.id < nextId'
                           /\ \A k \in DOMAIN topic' : Precedes(fetched'.id, topic'[k].id)
    BY <1>1, <1>2, <1>5, <2>1 DEF Precedes
  <2> QED
    BY <1>2, <1>3, <1>5, <2>3, <2>4, <2>5
<1>6. ASSUME topic # <<>>
      PROVE  /\ \A j, k \in DOMAIN Tail(topic) : j < k => Precedes(Tail(topic)[j].id, Tail(topic)[k].id)
             /\ \A k \in DOMAIN Tail(topic) :
                  /\ Tail(topic)[k].id < nextId
                  /\ Precedes(Head(topic).id, Tail(topic)[k].id)
                  /\ fetched # None => Precedes(fetched.id, Tail(topic)[k].id)
             /\ Head(topic).id < nextId
  <2>1. /\ \A k \in DOMAIN Tail(topic) :
             k \in Int /\ 1 < k + 1 /\ k + 1 \in DOMAIN topic /\ Tail(topic)[k] = topic[k + 1]
        /\ 1 \in DOMAIN topic /\ Head(topic) = topic[1]
    BY <1>1, <1>6
  <2>2. \A j, k \in DOMAIN Tail(topic) : j < k => j + 1 < k + 1
    BY <2>1
  <2> QED
    BY <1>2, <2>1, <2>2
<1>7. CASE /\ fetched = None /\ topic # <<>>
           /\ topic' = Tail(topic) /\ fetched' = Head(topic)
           /\ kmsg' \in {kmsg, Head(topic)} /\ UNCHANGED <<repeated, nextId>>
  <2>1. kmsg' # None => kmsg' = fetched'
    BY <1>2, <1>7
  <2> QED
    BY <1>3, <1>6, <1>7, <2>1
<1>8. CASE \/ kmsg # None /\ kmsg' = None /\ UNCHANGED <<topic, fetched, repeated, nextId>>
           \/ /\ kmsg = None /\ fetched # None /\ fetched' = None
              /\ UNCHANGED <<topic, kmsg, repeated, nextId>>
  BY <1>2, <1>3, <1>8
<1>9. CASE /\ fetched # None
           /\ topic' = <<fetched>> \o topic /\ repeated' = repeated \cup {fetched.id}
           /\ UNCHANGED <<kmsg, fetched, nextId>>
  <2>1. \A k \in DOMAIN topic' :
          /\ k \in Int
          /\ \/ k = 1 /\ topic'[k] = fetched
             \/ k > 1 /\ k - 1 \in DOMAIN topic /\ topic'[k] = topic[k - 1]
    <3> DEFINE first == <<fetched>>
    <3>1. fetched \in Message /\ topic' = first \o topic
      BY <1>1, <1>9
    <3>2. first \in Seq(Message) /\ Len(first) = 1 /\ first[1] = fetched
      BY <3>1
    <3> HIDE DEF first
    <3>3. /\ DOMAIN topic = 1 .. Len(topic) /\ Len(topic) \in Nat
          /\ DOMAIN topic' = 1 .. Len(first) + Len(topic)
          /\ \A k \in 1 .. Len(first) : topic'[k] = first[k]
          /\ \A k \in Len(first) + 1 .. Len(first) + Len(topic) :
                topic'[k] = topic[k - Len(first)]
      BY <1>1, <3>1, <3>2, JoinedParts, Zenon
    <3> QED
      BY <3>2, <3>3
  <2>2. \A j, k \in DOMAIN topic' : j < k => k > 1 /\ (j > 1 => j - 1 < k - 1)
    BY <2>1
  <2>3. \A j, k \in DOMAIN topic' : j < k => Precedes(topic'[j].id, topic'[k].id)
    BY <1>2, <1>9, <2>1, <2>2
  <2>4. \A k \in DOMAIN topic' : topic'[k].id < nextId'
    BY <1>2, <1>9, <2>1
  <2>5. \A k \in DOMAIN topic' :
          \/ fetched.id < topic'[k].id
          \/ fetched.id = topic'[k].id /\ fetched.id \in repeated'
    BY <1>2, <1>9, <2>1 DEF Precedes
  <2>6. InOrder(topic)'
    BY <2>3, RepeatedGrows DEF InOrder, Precedes
  <2>7. fetched.id < nextId /\ (kmsg # None => kmsg = fetched)
    BY <1>2, <1>9
  <2> QED
    BY <1>9, <2>4, <2>5, <2>6, <2>7 DEF TopicOrdered, Precedes
<1>10. CASE /\ topic' = <<>> \/ (topic # <<>> /\ topic' = Tail(topic))
            /\ UNCHANGED <<kmsg, fetched, repeated, nextId>>
  <2>1. CASE topic' = <<>>
    <3>1. DOMAIN topic' = {}
      BY <2>1
    <3> QED
      BY <1>2, <1>3, <1>10, <3>1
  <2>2. CASE topic # <<>> /\ topic' = Tail(topic)
    BY <1>2, <1>3, <1>6, <1>10, <2>2
  <2> QED
    BY <1>10, <2>1, <2>2
<1> QED
  BY <1>4, <1>5, <1>7, <1>8, <1>9, <1>10, TopicMoves, Zenon

\* Only a new id, larger than all, joins what is still to come.
LEMMA FutureMoves ==
    ASSUME AdmittedInv, [Next]_vars
    PROVE  FutureIds' \subseteq FutureIds \cup {nextId + 1}
<1> USE MessageAtHand
<1>1. CASE UNCHANGED <<topic, kmsg, fetched, repeated, nextId>>
  BY <1>1 DEF FutureIds, IdsOf
<1>2. ASSUME NEW r \in Rooms, topic' = Append(topic, [room |-> r, id |-> nextId]),
             nextId' = nextId + 1, UNCHANGED <<kmsg, fetched, repeated>>
      PROVE  FutureIds' \subseteq FutureIds \cup {nextId + 1}
  <2>1. IdsOf(topic') \subseteq IdsOf(topic) \cup {nextId}
    <3>1. ASSUME NEW k \in DOMAIN topic' PROVE topic'[k].id \in IdsOf(topic) \cup {nextId}
      <4>1. (k \in DOMAIN topic /\ topic'[k] = topic[k]) \/ topic'[k] = [room |-> r, id |-> nextId]
        BY <1>2, <3>1
      <4> QED
        BY <4>1 DEF IdsOf
    <3> QED
      BY <3>1 DEF IdsOf
  <2> QED
    BY <1>2, <2>1 DEF FutureIds
<1>3. ASSUME topic # <<>>
      PROVE  IdsOf(Tail(topic)) \subseteq IdsOf(topic) /\ Head(topic).id \in IdsOf(topic)
  <2>1. /\ \A k \in DOMAIN Tail(topic) : k + 1 \in DOMAIN topic /\ Tail(topic)[k] = topic[k + 1]
        /\ 1 \in DOMAIN topic /\ Head(topic) = topic[1]
    BY <1>3
  <2> QED
    BY <2>1 DEF IdsOf
<1>4. CASE /\ fetched = None /\ topic # <<>>
           /\ topic' = Tail(topic) /\ fetched' = Head(topic)
           /\ kmsg' \in {kmsg, Head(topic)} /\ UNCHANGED <<repeated, nextId>>
  BY <1>3, <1>4 DEF FutureIds
<1>5. CASE \/ kmsg # None /\ kmsg' = None /\ UNCHANGED <<topic, fetched, repeated, nextId>>
           \/ /\ kmsg = None /\ fetched # None /\ fetched' = None
              /\ UNCHANGED <<topic, kmsg, repeated, nextId>>
  BY <1>5 DEF FutureIds, IdsOf
<1>6. CASE /\ fetched # None
           /\ topic' = <<fetched>> \o topic /\ repeated' = repeated \cup {fetched.id}
           /\ UNCHANGED <<kmsg, fetched, nextId>>
  <2>1. fetched \in Message
    BY <1>6 DEF AdmittedInv, TypeOK, KafkaTypeOK
  <2>2. \A k \in DOMAIN topic' :
          topic'[k] = fetched \/ (k - 1 \in DOMAIN topic /\ topic'[k] = topic[k - 1])
    BY <1>6, <2>1
  <2> QED
    BY <1>6, <2>2 DEF FutureIds, IdsOf
<1>7. CASE /\ topic' = <<>> \/ (topic # <<>> /\ topic' = Tail(topic))
           /\ UNCHANGED <<kmsg, fetched, repeated, nextId>>
  <2>1. IdsOf(<<>>) = {}
    BY DEF IdsOf
  <2> QED
    BY <1>3, <1>7, <2>1 DEF FutureIds
<1> QED
  BY <1>1, <1>2, <1>4, <1>5, <1>6, <1>7, TopicMoves, Zenon

\* An id that may be there already stays one, but for the id of a message
\* that is committed, and then it may still come only if it was brought back.
LEMMA AgainMoves ==
    ASSUME AdmittedInv, TopicOrdered, [Next]_vars, NEW n \in FutureIds', n \in Again
    PROVE  n \in Again'
<1>1. CASE UNCHANGED <<topic, kmsg, fetched, repeated, nextId>>
  BY <1>1 DEF Again
<1>2. CASE /\ \E r \in Rooms : topic' = Append(topic, [room |-> r, id |-> nextId])
           /\ nextId' = nextId + 1 /\ UNCHANGED <<kmsg, fetched, repeated>>
  BY <1>2 DEF Again
<1>3. CASE /\ fetched = None /\ topic # <<>>
           /\ topic' = Tail(topic) /\ fetched' = Head(topic)
           /\ kmsg' \in {kmsg, Head(topic)} /\ UNCHANGED <<repeated, nextId>>
  BY <1>3 DEF Again
<1>4. CASE kmsg # None /\ kmsg' = None /\ UNCHANGED <<topic, fetched, repeated, nextId>>
  BY <1>4 DEF Again
<1>5. CASE /\ kmsg = None /\ fetched # None /\ fetched' = None
           /\ UNCHANGED <<topic, kmsg, repeated, nextId>>
  <2>1. n \in IdsOf(topic) \/ n = nextId
    BY <1>5 DEF FutureIds
  <2>2. CASE n = fetched.id /\ n \in IdsOf(topic)
    <3>1. PICK k \in DOMAIN topic : n = topic[k].id
      BY <2>2 DEF IdsOf
    <3>2. fetched.id \in Nat
      BY <1>5, MessageAtHand DEF AdmittedInv, TypeOK, KafkaTypeOK
    <3> QED
      BY <1>5, <2>2, <3>1, <3>2 DEF TopicOrdered, Precedes, Again
  <2>3. n # fetched.id \/ n # nextId
    <3>1. fetched.id \in Nat /\ nextId \in Nat /\ fetched.id < nextId
      BY <1>5, MessageAtHand DEF TopicOrdered, AdmittedInv, TypeOK, KafkaTypeOK
    <3> QED
      BY <3>1
  <2> QED
    BY <1>5, <2>1, <2>2, <2>3 DEF Again
<1>6. CASE /\ fetched # None
           /\ topic' = <<fetched>> \o topic /\ repeated' = repeated \cup {fetched.id}
           /\ UNCHANGED <<kmsg, fetched, nextId>>
  BY <1>6 DEF Again
<1>7. CASE /\ topic' = <<>> \/ (topic # <<>> /\ topic' = Tail(topic))
           /\ UNCHANGED <<kmsg, fetched, repeated, nextId>>
  BY <1>7 DEF Again
<1> QED
  BY <1>1, <1>2, <1>3, <1>4, <1>5, <1>6, <1>7, TopicMoves, Zenon

\* What is buffered stays ahead of all that is to come.
LEMMA AheadStays ==
    ASSUME AdmittedInv, TopicOrdered, [Next]_vars,
           NEW q \in Seq(Message), Ahead(q, FutureIds, Again)
    PROVE  Ahead(q, FutureIds', Again')
<1>1. \A k \in DOMAIN q : q[k].id \in Nat /\ q[k].id <= nextId
  <2>1. nextId \in FutureIds /\ nextId \in Nat
    BY MessageAtHand DEF FutureIds
  <2>2. \A k \in DOMAIN q : q[k].id \in Nat
    BY MessageAtHand
  <2>3. \A k \in DOMAIN q : q[k].id < nextId \/ q[k].id = nextId
    BY <2>1 DEF Ahead
  <2> QED
    BY <2>1, <2>2, <2>3
<1>2. ASSUME NEW k \in DOMAIN q, NEW n \in FutureIds'
      PROVE  q[k].id < n \/ (q[k].id = n /\ n \in Again')
  <2>1. CASE n = nextId + 1
    BY <1>1, <2>1, MessageAtHand
  <2>2. CASE n \in FutureIds
    BY <1>2, <2>2, AgainMoves DEF Ahead
  <2> QED
    BY <2>1, <2>2, FutureMoves
<1> QED
  BY <1>2 DEF Ahead

\* Strictly ahead of the message in the handler, and of those in the topic.
LEMMA AheadPrecedes ==
    ASSUME AdmittedInv, TopicOrdered, NEW q, Ahead(q, FutureIds, Again), NEW k \in DOMAIN q
    PROVE  /\ kmsg # None => Precedes(q[k].id, kmsg.id)
           /\ \A l \in DOMAIN topic : Precedes(q[k].id, topic[l].id)
<1>1. ASSUME kmsg # None PROVE Precedes(q[k].id, kmsg.id)
  <2>1. kmsg.id \in FutureIds /\ Again = repeated
    BY <1>1 DEF TopicOrdered, FutureIds, Again
  <2> QED
    BY <2>1 DEF Ahead, Precedes
<1>2. ASSUME NEW l \in DOMAIN topic PROVE Precedes(q[k].id, topic[l].id)
  <2>1. topic[l].id \in FutureIds
    BY DEF FutureIds, IdsOf
  <2>2. CASE topic[l].id \in repeated
    BY <2>1, <2>2 DEF Ahead, Precedes
  <2>3. CASE topic[l].id \notin repeated
    <3>1. fetched # None => topic[l].id # fetched.id
      <4>1. fetched # None => fetched.id \in Nat
        BY MessageAtHand DEF AdmittedInv, TypeOK, KafkaTypeOK
      <4> QED
        BY <2>3, <4>1 DEF TopicOrdered, Precedes
    <3>2. topic[l].id \notin Again
      BY <2>3, <3>1 DEF Again
    <3> QED
      BY <2>1, <3>2 DEF Ahead, Precedes
  <2> QED
    BY <2>2, <2>3
<1> QED
  BY <1>1, <1>2

LEMMA FeedTypes ==
    ASSUME AdmittedInv
    PROVE  /\ outBuffer \in [RoomStates -> Seq(Message)] /\ batch \in [RoomStates -> Seq(Message)]
           /\ snapshot \in [RoomStates -> SUBSET Clients]
           /\ bpc \in [RoomStates -> BroadcasterPC]
           /\ nameOf \in [RoomStates -> Rooms \cup {None}]
           /\ send \in [Clients -> Seq(Frame)]
           /\ \A f \in Frame : f.msgs \in Seq(Message)
           /\ \A i \in RoomStates : Len(batch[i]) <= MaxBatch
<1>1. \A f \in Frame : f.msgs \in Seq(Message)
  BY DEF Frame
<1> QED
  BY <1>1 DEF AdmittedInv, TypeOK, RoomTypeOK, BufferTypeOK, FlushTypeOK, WriteTypeOK

\* The broadcaster takes a first part of the buffer.
LEMMA ReceiveDrains ==
    ASSUME AdmittedInv, NEW j \in RoomStates, BroadcasterReceive(j)
    PROVE  \E n \in 0 .. Len(outBuffer[j]) : Drain(j, n)
<1>1. Smaller(Len(outBuffer[j]), MaxBatch - Len(batch[j])) \in 0 .. Len(outBuffer[j])
  BY FeedTypes, WsHubAssumption DEF Smaller
<1> QED
  BY <1>1 DEF BroadcasterReceive

\* Once the handler has put its message in a buffer, the same id may come again.
LEMMA HeldIsFirst ==
    ASSUME AdmittedInv, TopicOrdered, kmsg # None, kmsg' = None,
           UNCHANGED <<topic, fetched, repeated, nextId>>, NEW n \in FutureIds'
    PROVE  kmsg.id < n \/ (kmsg.id = n /\ n \in Again')
<1>1. fetched = kmsg /\ kmsg.id < nextId /\ \A k \in DOMAIN topic : Precedes(kmsg.id, topic[k].id)
  BY DEF TopicOrdered
<1>2. repeated \cup {kmsg.id} \subseteq Again'
  BY <1>1 DEF Again
<1>3. n = kmsg.id \/ n \in IdsOf(topic) \/ n = nextId
  BY <1>1 DEF FutureIds
<1>4. CASE n \in IdsOf(topic)
  BY <1>1, <1>2, <1>4 DEF IdsOf, Precedes
<1>5. kmsg.id \in Again'
  BY <1>2
<1> QED
  BY <1>1, <1>3, <1>4, <1>5

LEMMA NextBufferOrdered ==
    ASSUME FeedInv, [Next]_vars, NEW i \in RoomStates
    PROVE  BufferOrdered(i)'
<1>1. AdmittedInv /\ BufferOrdered(i) /\ TopicOrdered
  BY DEF FeedInv
<1>2. batch[i] \in Seq(Message) /\ outBuffer[i] \in Seq(Message)
  BY <1>1, FeedTypes
<1>3. Ahead(batch[i], FutureIds', Again') /\ Ahead(outBuffer[i], FutureIds', Again')
  BY <1>1, <1>2, AheadStays DEF BufferOrdered
\* In order as far as was brought back before the step is in order after it.
<1>4. ASSUME InOrder(batch'[i]), InOrder(outBuffer'[i]), Before(batch'[i], outBuffer'[i]),
             Ahead(batch'[i], FutureIds', Again'), Ahead(outBuffer'[i], FutureIds', Again')
      PROVE  BufferOrdered(i)'
  BY <1>1, <1>4, RepeatedGrows DEF BufferOrdered, InOrder, Before, Ahead, Precedes
<1>5. CASE batch'[i] = batch[i] /\ outBuffer'[i] = outBuffer[i]
  BY <1>1, <1>3, <1>5, <1>4 DEF BufferOrdered
<1>6. CASE BroadcastSend
  <2>1. /\ kmsg # None /\ kmsg' = None
        /\ UNCHANGED <<topic, fetched, repeated, nextId, batch>>
        /\ outBuffer' = [outBuffer EXCEPT ![kroom] = Append(@, kmsg)]
    BY <1>6 DEF BroadcastSend, HandlerDone
  <2>2. kmsg \in Message /\ kroom \in RoomStates
    BY <1>1, <2>1, MessageAtHand
  <2>3. CASE kroom # i
    BY <1>1, <1>5, <2>1, <2>2, <2>3, FeedTypes
  <2>4. CASE kroom = i
    <3>1. outBuffer'[i] = Append(outBuffer[i], kmsg) /\ batch'[i] = batch[i]
      BY <1>1, <2>1, <2>2, <2>4, FeedTypes
    <3>2. \A n \in FutureIds' : kmsg.id < n \/ (kmsg.id = n /\ n \in Again')
      BY <1>1, <2>1, HeldIsFirst
    <3>3. /\ \A k \in DOMAIN outBuffer[i] : Precedes(outBuffer[i][k].id, kmsg.id)
          /\ \A k \in DOMAIN batch[i] : Precedes(batch[i][k].id, kmsg.id)
      BY <1>1, <2>1, AheadPrecedes DEF BufferOrdered
    <3>4. InOrder(outBuffer'[i])
      BY <1>1, <1>2, <2>2, <3>1, <3>3, OrderAppend DEF BufferOrdered
    <3>5. Before(batch'[i], outBuffer'[i])
      BY <1>1, <1>2, <2>2, <3>1, <3>3, OrderAppend DEF BufferOrdered
    <3>6. Ahead(outBuffer'[i], FutureIds', Again')
      BY <1>2, <1>3, <2>2, <3>1, <3>2, OrderAppend
    <3> QED
      BY <1>1, <1>3, <1>4, <3>1, <3>4, <3>5, <3>6 DEF BufferOrdered
  <2> QED
    BY <2>3, <2>4
<1>7. ASSUME NEW j \in RoomStates, BroadcasterReceive(j)
      PROVE  BufferOrdered(i)'
  <2>1. PICK n \in 0 .. Len(outBuffer[j]) : Drain(j, n)
    BY <1>1, <1>7, ReceiveDrains
  <2>2. CASE j # i
    BY <1>1, <1>5, <2>1, <2>2, FeedTypes DEF Drain
  <2>3. CASE j = i
    <3> DEFINE first == SubSeq(outBuffer[i], 1, n)
               rest  == SubSeq(outBuffer[i], n + 1, Len(outBuffer[i]))
    <3>1. batch'[i] = batch[i] \o first /\ outBuffer'[i] = rest
      BY <1>1, <2>1, <2>3, FeedTypes DEF Drain
    <3>2. /\ first \in Seq(Message) /\ rest \in Seq(Message)
          /\ InOrder(first) /\ InOrder(rest) /\ Before(first, rest)
          /\ Ahead(first, FutureIds', Again') /\ Ahead(rest, FutureIds', Again')
          /\ Before(batch[i], first) /\ Before(batch[i], rest)
      BY <1>1, <1>2, <1>3, <2>3, OrderCut DEF BufferOrdered
    <3> HIDE DEF first, rest
    <3>3. InOrder(batch[i] \o first) /\ Ahead(batch[i] \o first, FutureIds', Again')
      BY <1>1, <1>2, <1>3, <3>2, OrderJoin DEF BufferOrdered
    <3>4. Before(batch[i] \o first, rest)
      BY <1>2, <3>2, OrderJoin
    <3>5. InOrder(batch'[i]) /\ Ahead(batch'[i], FutureIds', Again')
      BY <3>1, <3>3
    <3>6. InOrder(outBuffer'[i]) /\ Ahead(outBuffer'[i], FutureIds', Again') /\ Before(batch'[i], outBuffer'[i])
      BY <3>1, <3>2, <3>4
    <3> QED
      BY <1>4, <3>5, <3>6
  <2> QED
    BY <2>2, <2>3
<1>8. ASSUME NEW j \in RoomStates, FinishFlush(j)
      PROVE  BufferOrdered(i)'
  <2>1. outBuffer'[i] = outBuffer[i] /\ batch'[i] \in {batch[i], <<>>}
    BY <1>1, <1>8, FeedTypes DEF FinishFlush, ClearBatch
  <2>2. CASE batch'[i] = <<>>
    <3>1. InOrder(batch'[i]) /\ Before(batch'[i], outBuffer'[i]) /\ Ahead(batch'[i], FutureIds', Again')
      BY <2>2, OrderNothing
    <3>2. InOrder(outBuffer'[i]) /\ Ahead(outBuffer'[i], FutureIds', Again')
      BY <1>1, <1>3, <2>1 DEF BufferOrdered
    <3> QED
      BY <1>4, <3>1, <3>2
  <2> QED
    BY <1>5, <2>1, <2>2
<1>9. CASE UNCHANGED <<outBuffer, batch>>
  BY <1>5, <1>9
<1> QED
  BY <1>6, <1>7, <1>8, <1>9, BufferSteps, Zenon

\* What writing a frame and queueing one do to the order of the frames.
LEMMA FramesTail ==
    ASSUME NEW q \in Seq(Frame), q # <<>>, NEW ids, NEW again, FramesInOrder(q, ids, again)
    PROVE  FramesInOrder(Tail(q), ids, again)
<1>1. \A k \in DOMAIN Tail(q) : k \in Int /\ k + 1 \in DOMAIN q /\ Tail(q)[k] = q[k + 1]
  OBVIOUS
<1>2. \A k, l \in DOMAIN Tail(q) : k < l => k + 1 < l + 1
  BY <1>1
<1> QED
  BY <1>1, <1>2 DEF FramesInOrder

LEMMA FramesAppend ==
    ASSUME NEW q \in Seq(Frame), NEW f, NEW ids, NEW again, FramesInOrder(q, ids, again),
           InOrder(f.msgs), Ahead(f.msgs, ids, again),
           \A k \in DOMAIN q : q[k].room = f.room => Before(q[k].msgs, f.msgs)
    PROVE  FramesInOrder(Append(q, f), ids, again)
<1>1. \A k \in DOMAIN Append(q, f) :
        (k \in DOMAIN q /\ Append(q, f)[k] = q[k]) \/ Append(q, f)[k] = f
  OBVIOUS
<1>2. \A k, l \in DOMAIN Append(q, f) : k < l => k \in DOMAIN q /\ Append(q, f)[k] = q[k]
  OBVIOUS
<1>3. ASSUME NEW k \in DOMAIN Append(q, f)
      PROVE  InOrder(Append(q, f)[k].msgs) /\ Ahead(Append(q, f)[k].msgs, ids, again)
  BY <1>1 DEF FramesInOrder
<1>4. ASSUME NEW k \in DOMAIN Append(q, f), NEW l \in DOMAIN Append(q, f), k < l,
             Append(q, f)[k].room = Append(q, f)[l].room
      PROVE  Before(Append(q, f)[k].msgs, Append(q, f)[l].msgs)
  <2>1. k \in DOMAIN q /\ Append(q, f)[k] = q[k]
    BY <1>2, <1>4
  <2>2. CASE l \in DOMAIN q /\ Append(q, f)[l] = q[l]
    BY <1>4, <2>1, <2>2 DEF FramesInOrder
  <2>3. CASE Append(q, f)[l] = f
    BY <1>4, <2>1, <2>3
  <2> QED
    BY <1>1, <2>2, <2>3
<1> QED
  BY <1>3, <1>4 DEF FramesInOrder

\* Frames come and go at the two ends of Client.send, and only Deliver queues
\* one that carries messages.
LEMMA SendMoves ==
    ASSUME AdmittedInv, [Next]_vars
    PROVE  \/ UNCHANGED send
           \/ \E c \in Clients : send[c] # <<>> /\ send' = [send EXCEPT ![c] = Tail(@)]
           \/ \E c \in Clients, r \in Rooms \cup {None} :
                send' = [send EXCEPT ![c] = Append(@, [room |-> r, msgs |-> <<>>])]
           \/ \E i \in RoomStates, c \in Clients :
                /\ Deliver(i, c)
                /\ send' = [send EXCEPT ![c] = Append(@, [room |-> nameOf[i], msgs |-> batch[i]])]
<1>1. ASSUME NEW c \in Clients, Register(c) \/ WritePrepared(c) \/ WriteExit(c)
      PROVE  UNCHANGED send \/ (send[c] # <<>> /\ send' = [send EXCEPT ![c] = Tail(@)])
  BY <1>1, Zenon DEF Register, WritePrepared, WriteExit
<1>2. ASSUME NEW c \in Clients, SendSubscribeConfirmation(c) \/ RateLimited(c)
      PROVE  \E r \in Rooms \cup {None} :
               send' = [send EXCEPT ![c] = Append(@, [room |-> r, msgs |-> <<>>])]
  <2>1. room[c] \in Rooms \cup {None} /\ None \in Rooms \cup {None}
    BY DEF AdmittedInv, TypeOK, ReadTypeOK
  <2> QED
    BY <1>2, <2>1, Zenon DEF SendSubscribeConfirmation, RateLimited
<1>3. ASSUME NEW i \in RoomStates, NEW c \in Clients, Deliver(i, c)
      PROVE  \/ UNCHANGED send
             \/ send' = [send EXCEPT ![c] = Append(@, [room |-> nameOf[i], msgs |-> batch[i]])]
  BY <1>3, Zenon DEF Deliver
<1> QED
  BY <1>1, <1>2, <1>3, WriteSteps, Zenon

LEMMA NextFramesOrdered ==
    ASSUME FeedInv, [Next]_vars, NEW c \in Clients
    PROVE  FramesOrdered(c)'
<1>1. AdmittedInv /\ TopicOrdered /\ FramesInOrder(send[c], FutureIds, Again)
  BY DEF FeedInv, FramesOrdered
<1>2. send \in [Clients -> Seq(Frame)] /\ send[c] \in Seq(Frame)
  BY <1>1, FeedTypes
\* In order with respect to what was to come before the step ...
<1>3. FramesInOrder(send'[c], FutureIds, Again)
  <2>1. CASE UNCHANGED send
    BY <1>1, <2>1
  <2>2. ASSUME NEW d \in Clients, send[d] # <<>>, send' = [send EXCEPT ![d] = Tail(@)]
        PROVE  FramesInOrder(send'[c], FutureIds, Again)
    <3>1. send'[c] \in {send[c], Tail(send[c])} /\ (send'[c] # send[c] => send[c] # <<>>)
      BY <1>2, <2>2
    <3> QED
      BY <1>1, <1>2, <3>1, FramesTail
  <2>3. ASSUME NEW d \in Clients, NEW f,
               send' = [send EXCEPT ![d] = Append(@, f)],
               InOrder(f.msgs), Ahead(f.msgs, FutureIds, Again),
               \A k \in DOMAIN send[d] : send[d][k].room = f.room => Before(send[d][k].msgs, f.msgs)
        PROVE  FramesInOrder(send'[c], FutureIds, Again)
    <3>1. send'[c] = IF d = c THEN Append(send[c], f) ELSE send[c]
      BY <1>2, <2>3
    <3> QED
      BY <1>1, <1>2, <2>3, <3>1, FramesAppend
  <2>4. ASSUME NEW d \in Clients, NEW r,
               send' = [send EXCEPT ![d] = Append(@, [room |-> r, msgs |-> <<>>])]
        PROVE  FramesInOrder(send'[c], FutureIds, Again)
    <3> DEFINE f == [room |-> r, msgs |-> <<>>]
    <3>1. f.msgs = <<>>
      OBVIOUS
    <3> HIDE DEF f
    <3>2. InOrder(f.msgs) /\ Ahead(f.msgs, FutureIds, Again)
          /\ \A k \in DOMAIN send[d] : Before(send[d][k].msgs, f.msgs)
      BY <3>1, OrderNothing
    <3>3. send' = [send EXCEPT ![d] = Append(@, f)]
      BY <2>4 DEF f
    <3> QED
      BY <2>3, <3>2, <3>3
  <2>5. ASSUME NEW i \in RoomStates, NEW d \in Clients, Deliver(i, d),
               send' = [send EXCEPT ![d] = Append(@, [room |-> nameOf[i], msgs |-> batch[i]])]
        PROVE  FramesInOrder(send'[c], FutureIds, Again)
    <3> DEFINE f == [room |-> nameOf[i], msgs |-> batch[i]]
    <3>1. f.msgs = batch[i] /\ f.room = nameOf[i]
      OBVIOUS
    <3>2. Serving(i) /\ Owing(i, d)
      BY <2>5 DEF Deliver, Serving, Owing
    <3>3. \A k \in DOMAIN send[d] : send[d][k].room = nameOf[i] => Before(send[d][k].msgs, batch[i])
      BY <3>2 DEF FeedInv, ServedInOrder
    <3>4. InOrder(batch[i]) /\ Ahead(batch[i], FutureIds, Again)
      BY DEF FeedInv, BufferOrdered
    <3>5. send' = [send EXCEPT ![d] = Append(@, f)]
      BY <2>5
    <3> HIDE DEF f
    <3> QED
      BY <2>3, <3>1, <3>3, <3>4, <3>5
  <2> QED
    BY <1>1, <2>1, <2>2, <2>4, <2>5, SendMoves, Zenon
\* ... and so with respect to what is to come after it.
<1>4. send'[c] \in Seq(Frame)
  BY <1>1, NextAdmittedInv, FeedTypes DEF AdmittedInv, TypeOK, WriteTypeOK
<1>5. ASSUME NEW k \in DOMAIN send'[c] PROVE Ahead(send'[c][k].msgs, FutureIds', Again')
  <2>1. send'[c][k] \in Frame
    BY <1>4
  <2> QED
    BY <1>1, <1>3, <2>1, AheadStays, FeedTypes DEF FramesInOrder
<1>6. ASSUME NEW k \in DOMAIN send'[c]
      PROVE  \A i, j \in DOMAIN send'[c][k].msgs : i < j =>
                Precedes(send'[c][k].msgs[i].id, send'[c][k].msgs[j].id)
  BY <1>3 DEF FramesInOrder, InOrder
<1>7. ASSUME NEW k \in DOMAIN send'[c], NEW l \in DOMAIN send'[c],
             k < l, send'[c][k].room = send'[c][l].room
      PROVE  \A i \in DOMAIN send'[c][k].msgs, j \in DOMAIN send'[c][l].msgs :
                Precedes(send'[c][k].msgs[i].id, send'[c][l].msgs[j].id)
  BY <1>3, <1>7 DEF FramesInOrder, Before
<1>8. ASSUME NEW m, NEW n, Precedes(m, n) PROVE m < n \/ (m = n /\ m \in repeated')
  BY <1>1, <1>8, RepeatedGrows DEF Precedes
<1>9. ASSUME NEW k \in DOMAIN send'[c]
      PROVE  \A i, j \in DOMAIN send'[c][k].msgs : i < j =>
                LET m == send'[c][k].msgs[i].id
                    n == send'[c][k].msgs[j].id
                IN  m < n \/ (m = n /\ m \in repeated')
  BY <1>6, <1>8
<1>10. ASSUME NEW k \in DOMAIN send'[c], NEW l \in DOMAIN send'[c],
              k < l, send'[c][k].room = send'[c][l].room
       PROVE  \A i \in DOMAIN send'[c][k].msgs, j \in DOMAIN send'[c][l].msgs :
                LET m == send'[c][k].msgs[i].id
                    n == send'[c][l].msgs[j].id
                IN  m < n \/ (m = n /\ m \in repeated')
  BY <1>7, <1>8, <1>10
<1>11. ASSUME NEW k \in DOMAIN send'[c]
       PROVE  /\ \A i, j \in DOMAIN send'[c][k].msgs : i < j =>
                    Precedes(send[c][k].msgs[i].id, send[c][k].msgs[j].id)'
              /\ \A l \in DOMAIN send'[c] : k < l /\ send'[c][k].room = send'[c][l].room =>
                    \A i \in DOMAIN send'[c][k].msgs, j \in DOMAIN send'[c][l].msgs :
                        Precedes(send[c][k].msgs[i].id, send[c][l].msgs[j].id)'
  BY <1>9, <1>10 DEF Precedes
<1> QED
  BY <1>5, <1>11 DEF FramesOrdered, FramesInOrder, InOrder, Before

\* A frame with messages in it was there before, unless Deliver queued it.
FramesKept(c) ==
    \A k \in DOMAIN send'[c] :
        send'[c][k].msgs = <<>> \/ \E l \in DOMAIN send[c] : send'[c][k] = send[c][l]

LEMMA FrameMoves ==
    ASSUME AdmittedInv, [Next]_vars, NEW c \in Clients, \A i \in RoomStates : ~Deliver(i, c)
    PROVE  FramesKept(c)
<1>1. send \in [Clients -> Seq(Frame)] /\ send[c] \in Seq(Frame)
  BY FeedTypes
<1>2. CASE send'[c] = send[c]
  BY <1>2 DEF FramesKept
<1>3. CASE send[c] # <<>> /\ send'[c] = Tail(send[c])
  <2>1. \A k \in DOMAIN Tail(send[c]) : k + 1 \in DOMAIN send[c] /\ Tail(send[c])[k] = send[c][k + 1]
    BY <1>1, <1>3
  <2> QED
    BY <1>3, <2>1 DEF FramesKept
<1>4. ASSUME NEW r, send'[c] = Append(send[c], [room |-> r, msgs |-> <<>>])
      PROVE  FramesKept(c)
  <2>1. \A k \in DOMAIN send'[c] :
          \/ k \in DOMAIN send[c] /\ send'[c][k] = send[c][k]
          \/ send'[c][k] = [room |-> r, msgs |-> <<>>]
    BY <1>1, <1>4
  <2>2. [room |-> r, msgs |-> <<>>].msgs = <<>>
    OBVIOUS
  <2> QED
    BY <2>1, <2>2, Zenon DEF FramesKept
<1>5. CASE UNCHANGED send
  BY <1>2, <1>5
<1>6. ASSUME NEW d \in Clients, send[d] # <<>>, send' = [send EXCEPT ![d] = Tail(@)]
      PROVE  FramesKept(c)
  BY <1>1, <1>2, <1>3, <1>6
<1>7. ASSUME NEW d \in Clients, NEW r,
             send' = [send EXCEPT ![d] = Append(@, [room |-> r, msgs |-> <<>>])]
      PROVE  FramesKept(c)
  <2>1. send'[c] = IF d = c THEN Append(send[c], [room |-> r, msgs |-> <<>>]) ELSE send[c]
    BY <1>1, <1>7
  <2> QED
    BY <1>2, <1>4, <2>1
<1>8. ASSUME NEW i \in RoomStates, NEW d \in Clients, Deliver(i, d),
             send' = [send EXCEPT ![d] = Append(@, [room |-> nameOf[i], msgs |-> batch[i]])]
      PROVE  FramesKept(c)
  <2>1. d # c
    BY <1>8
  <2> QED
    BY <1>1, <1>2, <1>8, <2>1
<1> QED
  BY <1>5, <1>6, <1>7, <1>8, SendMoves, Zenon

\* What is before what i holds stays so while the frames are kept and the
\* queues of i take only messages that all frames are before.
LEMMA ServedStays ==
    ASSUME FeedInv, [Next]_vars, NEW i \in RoomStates, NEW c \in Clients, FramesKept(c),
           nameOf'[i] = nameOf[i],
           Serving(i)' => Serving(i),
           \A q \in Seq(Message) :
             Serving(i) /\ Before(q, outBuffer[i]) /\ (Owing(i, c) => Before(q, batch[i]))
                        /\ Ahead(q, FutureIds, Again)
             => Before(q, outBuffer'[i]) /\ (Owing(i, c)' => Before(q, batch'[i]))
    PROVE  ServedInOrder(i, c)'
<1> SUFFICES ASSUME Serving(i)', NEW k \in DOMAIN send'[c], send'[c][k].room = nameOf'[i]
             PROVE  /\ Before(send'[c][k].msgs, outBuffer'[i])
                    /\ Owing(i, c)' => Before(send'[c][k].msgs, batch'[i])
  BY RepeatedGrows DEF FeedInv, ServedInOrder, Before, Precedes
<1>1. CASE send'[c][k].msgs = <<>>
  BY <1>1, OrderNothing
<1>2. ASSUME NEW l \in DOMAIN send[c], send'[c][k] = send[c][l]
      PROVE  /\ Before(send'[c][k].msgs, outBuffer'[i])
             /\ Owing(i, c)' => Before(send'[c][k].msgs, batch'[i])
  <2>1. send[c][l].msgs \in Seq(Message)
    BY FeedTypes DEF FeedInv
  <2>2. Ahead(send[c][l].msgs, FutureIds, Again)
    BY DEF FeedInv, FramesOrdered, FramesInOrder
  <2>3. Before(send[c][l].msgs, outBuffer[i]) /\ (Owing(i, c) => Before(send[c][l].msgs, batch[i]))
    BY <1>2 DEF FeedInv, ServedInOrder
  <2> QED
    BY <1>2, <2>1, <2>2, <2>3
<1> QED
  BY <1>1, <1>2 DEF FramesKept

\* An object that has no name yet is empty.
LEMMA UnnamedEmpty ==
    ASSUME AdmittedInv, NEW i \in RoomStates, nameOf[i] = None
    PROVE  outBuffer[i] = <<>> /\ batch[i] = <<>>
<1>1. outBuffer[i] \in Seq(Message) /\ batch[i] \in Seq(Message)
  BY FeedTypes
<1>2. \A m \in Message : m.room # None
  BY WsHubAssumption DEF Message
<1>3. \A q \in Seq(Message) : q # <<>> => 1 \in DOMAIN q /\ q[1] \in Message
  OBVIOUS
<1> QED
  BY <1>1, <1>2, <1>3 DEF AdmittedInv, MessagesNamed

\* Two served objects have two names.
LEMMA OneServes ==
    ASSUME AdmittedInv, NEW i \in RoomStates, NEW j \in RoomStates,
           Serving(i), Serving(j), nameOf[i] = nameOf[j]
    PROVE  i = j
<1>1. nameOf[i] # None /\ bpc[i] # "stopped" /\ nameOf[j] # None /\ bpc[j] # "stopped"
  BY DEF AdmittedInv, RoomIdentity, Serving
<1> QED
  BY <1>1 DEF AdmittedInv, RoomIdentity

\* An object that is named stops being served, but is never served again.
LEMMA ServingMoves ==
    ASSUME AdmittedInv, [Next]_vars, NEW i \in RoomStates, nameOf[i] # None,
           \A j \in RoomStates : ~FlushBatch(j) /\ ~FinishFlush(j)
    PROVE  bpc'[i] = bpc[i] \/ ~Serving(i)'
<1>1. bpc \in [RoomStates -> BroadcasterPC]
  BY FeedTypes
<1>2. ASSUME NEW j \in RoomStates, IdleTick(j) \/ RemoveRoom(j)
      PROVE  bpc'[i] = bpc[i] \/ ~Serving(i)'
  <2>1. bpc' = [bpc EXCEPT ![j] = "remove"] \/ bpc' = [bpc EXCEPT ![j] = "stopped"]
    BY <1>2, Zenon DEF IdleTick, RemoveRoom
  <2> QED
    BY <1>1, <2>1 DEF Serving
<1>3. ASSUME NEW c \in Clients, BuildRoomBroadcaster(c) \/ SubscribeLookup(c)
      PROVE  bpc'[i] = bpc[i]
  <2>1. UNCHANGED bpc \/ \E serving : CreateRoom(target[c], serving)
    BY <1>3, Zenon DEF BuildRoomBroadcaster, SubscribeLookup
  <2>2. ASSUME NEW serving, CreateRoom(target[c], serving)
        PROVE  bpc'[i] = bpc[i]
    <3>1. PICK j \in RoomStates :
            nameOf[j] = None /\ bpc' = [bpc EXCEPT ![j] = serving]
      BY <2>2, CreateRoomTakes
    <3> QED
      BY <1>1, <3>1
  <2> QED
    BY <2>1, <2>2
<1>4. ASSUME \/ \E c \in Clients : LeaveOldRoom(c) \/ AddClient(c)
             \/ RunRemove \/ HandleSlowClients
      PROVE  UNCHANGED bpc
  BY <1>4, Zenon DEF LeaveOldRoom, AddClient, RunRemove, HandleSlowClients
<1> QED
  BY <1>2, <1>3, <1>4, RoomSteps

LEMMA NextServedInOrder ==
    ASSUME FeedInv, [Next]_vars, NEW i \in RoomStates, NEW c \in Clients
    PROVE  ServedInOrder(i, c)'
<1>1. AdmittedInv /\ BufferOrdered(i) /\ TopicOrdered
  BY DEF FeedInv
<1>2. /\ outBuffer \in [RoomStates -> Seq(Message)] /\ batch \in [RoomStates -> Seq(Message)]
      /\ outBuffer[i] \in Seq(Message) /\ batch[i] \in Seq(Message)
      /\ snapshot \in [RoomStates -> SUBSET Clients]
      /\ bpc \in [RoomStates -> BroadcasterPC]
  BY <1>1, FeedTypes
\* An object that gets its name in this step has nothing to send.
<1>3. CASE nameOf[i] = None
  <2>1. outBuffer[i] = <<>> /\ batch[i] = <<>> /\ bpc[i] = "none"
    BY <1>1, <1>3, UnnamedEmpty DEF AdmittedInv, RoomIdentity
  <2>2. ASSUME BroadcastSend PROVE outBuffer'[i] = <<>> /\ batch'[i] = <<>>
    <3>1. kmsg # None /\ outBuffer' = [outBuffer EXCEPT ![kroom] = Append(@, kmsg)] /\ UNCHANGED batch
      BY <2>2 DEF BroadcastSend
    <3>2. kmsg \in Message /\ nameOf[kroom] = kmsg.room /\ kmsg.room # None
      BY <1>1, <3>1, MessageAtHand, WsHubAssumption DEF Message
    <3> QED
      BY <1>2, <1>3, <2>1, <3>1, <3>2
  <2>3. ASSUME NEW j \in RoomStates, BroadcasterReceive(j) \/ FinishFlush(j)
        PROVE  outBuffer'[i] = <<>> /\ batch'[i] = <<>>
    <3>1. j # i
      BY <2>1, <2>3 DEF BroadcasterReceive, FinishFlush, Selecting
    <3>2. outBuffer'[i] = outBuffer[i] /\ batch'[i] = batch[i]
      BY <1>2, <2>3, <3>1 DEF BroadcasterReceive, FinishFlush, Drain, ClearBatch
    <3> QED
      BY <2>1, <3>2
  <2>4. outBuffer'[i] = <<>> /\ batch'[i] = <<>>
    BY <2>1, <2>2, <2>3, BufferSteps
  <2> QED
    BY <2>4, OrderNothing DEF ServedInOrder, Before
<1>4. ASSUME nameOf[i] # None, NEW j \in RoomStates, Deliver(j, c)
      PROVE  ServedInOrder(i, c)'
  <2>1. /\ UNCHANGED <<nameOf, outBuffer, batch, bpc>>
        /\ bpc[j] = "deliver"
        /\ snapshot' = [snapshot EXCEPT ![j] = @ \ {c}]
        /\ \/ UNCHANGED send
           \/ send' = [send EXCEPT ![c] = Append(@, [room |-> nameOf[j], msgs |-> batch[j]])]
    BY <1>4, Zenon DEF Deliver
  <2>2. send[c] \in Seq(Frame) /\ send \in [Clients -> Seq(Frame)]
    BY <1>1, FeedTypes
  <2>3. ASSUME Serving(i)', NEW k \in DOMAIN send'[c], send'[c][k].room = nameOf[i]
        PROVE  /\ Before(send'[c][k].msgs, outBuffer[i])
               /\ Owing(i, c)' => Before(send'[c][k].msgs, batch[i])
    <3>1. \/ k \in DOMAIN send[c] /\ send'[c][k] = send[c][k]
          \/ send'[c][k].room = nameOf[j] /\ send'[c][k].msgs = batch[j]
      <4>1. CASE UNCHANGED send
        BY <2>3, <4>1
      <4>2. ASSUME NEW f, send' = [send EXCEPT ![c] = Append(@, f)]
            PROVE  (k \in DOMAIN send[c] /\ send'[c][k] = send[c][k]) \/ send'[c][k] = f
        <5>1. send'[c] = Append(send[c], f)
          BY <2>2, <4>2
        <5>2. k \in 1 .. Len(send[c]) + 1 /\ DOMAIN send[c] = 1 .. Len(send[c])
          BY <2>2, <2>3, <5>1
        <5>3. \A l \in 1 .. Len(send[c]) : Append(send[c], f)[l] = send[c][l]
          BY <2>2
        <5>4. Append(send[c], f)[Len(send[c]) + 1] = f
          BY <2>2
        <5>5. k \in 1 .. Len(send[c]) \/ k = Len(send[c]) + 1
          BY <2>2, <5>2
        <5> QED
          BY <5>1, <5>2, <5>3, <5>4, <5>5, Zenon
      <4>3. CASE send' = [send EXCEPT ![c] = Append(@, [room |-> nameOf[j], msgs |-> batch[j]])]
        <5>1. \/ k \in DOMAIN send[c] /\ send'[c][k] = send[c][k]
              \/ send'[c][k] = [room |-> nameOf[j], msgs |-> batch[j]]
          BY <4>2, <4>3, Zenon
        <5> QED
          BY <5>1
      <4> QED
        BY <2>1, <4>1, <4>3, Zenon
    <3>2. Serving(i)
      BY <2>1, <2>3 DEF Serving
    <3>3. Owing(i, c)' => Owing(i, c)
      BY <1>2, <2>1 DEF Owing
    <3>4. CASE k \in DOMAIN send[c] /\ send'[c][k] = send[c][k]
      BY <2>3, <3>2, <3>3, <3>4 DEF FeedInv, ServedInOrder
    <3>5. CASE send'[c][k].room = nameOf[j] /\ send'[c][k].msgs = batch[j]
      <4>1. Serving(j)
        BY <2>1 DEF Serving
      <4>2. i = j
        BY <1>1, <2>3, <3>2, <3>5, <4>1, OneServes
      <4>3. ~Owing(i, c)'
        BY <1>2, <2>1, <4>2 DEF Owing
      <4> QED
        BY <1>1, <3>5, <4>2, <4>3 DEF BufferOrdered
    <3> QED
      BY <3>1, <3>4, <3>5
  <2> QED
    BY <1>1, <2>1, <2>3, RepeatedGrows DEF ServedInOrder, Before, Precedes
<1>5. ASSUME nameOf[i] # None, Serving(i)', \A j \in RoomStates : ~Deliver(j, c)
      PROVE  ServedInOrder(i, c)'
  <2>1. FramesKept(c) /\ nameOf'[i] = nameOf[i]
    BY <1>1, <1>5, FrameMoves, NamesStay DEF AdmittedInv
  <2> DEFINE Kept ==
        /\ Serving(i)' => Serving(i)
        /\ \A q \in Seq(Message) :
             Serving(i) /\ Before(q, outBuffer[i]) /\ (Owing(i, c) => Before(q, batch[i]))
                        /\ Ahead(q, FutureIds, Again)
             => Before(q, outBuffer'[i]) /\ (Owing(i, c)' => Before(q, batch'[i]))
  <2> SUFFICES Kept
    BY <2>1, ServedStays
  \* The queues of i and the snapshot stay.
  <2>2. ASSUME outBuffer'[i] = outBuffer[i], batch'[i] = batch[i],
               Serving(i)' => Serving(i), Owing(i, c)' /\ Serving(i) => Owing(i, c)
        PROVE  Kept
    BY <2>2
  <2>3. CASE BroadcastSend
    <3>1. /\ kmsg # None /\ UNCHANGED <<batch, bpc, snapshot>>
          /\ outBuffer' = [outBuffer EXCEPT ![kroom] = Append(@, kmsg)]
      BY <2>3 DEF BroadcastSend
    <3>2. kmsg \in Message
      BY <1>1, <3>1, MessageAtHand
    <3>3. outBuffer'[i] = IF kroom = i THEN Append(outBuffer[i], kmsg) ELSE outBuffer[i]
      BY <1>2, <3>1
    <3>4. ASSUME NEW q \in Seq(Message), Before(q, outBuffer[i]), Ahead(q, FutureIds, Again)
          PROVE  Before(q, Append(outBuffer[i], kmsg))
      <4>1. \A k \in DOMAIN q : Precedes(q[k].id, kmsg.id)
        BY <1>1, <3>1, <3>4, AheadPrecedes
      <4> QED
        BY <1>2, <3>2, <3>4, <4>1, OrderAppend
    <3>5. (Serving(i)' <=> Serving(i)) /\ (Owing(i, c)' <=> Owing(i, c)) /\ batch'[i] = batch[i]
      BY <3>1 DEF Serving, Owing
    <3> QED
      BY <3>3, <3>4, <3>5
  <2>4. ASSUME NEW j \in RoomStates, BroadcasterReceive(j)
        PROVE  Kept
    <3>1. UNCHANGED <<bpc, snapshot>> /\ bpc[j] = "select"
      BY <2>4 DEF BroadcasterReceive, Selecting
    <3>2. (Serving(i)' <=> Serving(i)) /\ (Owing(i, c)' <=> Owing(i, c))
      BY <3>1 DEF Serving, Owing
    <3>3. PICK n \in 0 .. Len(outBuffer[j]) : Drain(j, n)
      BY <1>1, <2>4, ReceiveDrains
    <3>4. CASE j # i
      BY <1>2, <2>2, <3>2, <3>3, <3>4 DEF Drain
    <3>5. CASE j = i
      <4> DEFINE first == SubSeq(outBuffer[i], 1, n)
                 rest  == SubSeq(outBuffer[i], n + 1, Len(outBuffer[i]))
      <4>1. batch'[i] = batch[i] \o first /\ outBuffer'[i] = rest
        BY <1>2, <3>3, <3>5 DEF Drain
      <4>2. Owing(i, c)
        BY <3>1, <3>5 DEF Owing
      <4>3. ASSUME NEW q \in Seq(Message), Before(q, outBuffer[i]), Before(q, batch[i])
            PROVE  Before(q, rest) /\ Before(q, batch[i] \o first)
        <5>1. first \in Seq(Message) /\ Before(q, first) /\ Before(q, rest)
          BY <1>1, <1>2, <3>5, <4>3, OrderCut DEF BufferOrdered
        <5> HIDE DEF first, rest
        <5> QED
          BY <1>2, <4>3, <5>1, OrderJoin
      <4> HIDE DEF first, rest
      <4> QED
        BY <3>2, <4>1, <4>2, <4>3
    <3> QED
      BY <3>4, <3>5
  <2>5. ASSUME NEW j \in RoomStates, FinishFlush(j)
        PROVE  Kept
    <3>1. /\ UNCHANGED <<outBuffer, snapshot>> /\ bpc[j] = "deliver"
          /\ bpc' = [bpc EXCEPT ![j] = "select"] /\ batch' = [batch EXCEPT ![j] = <<>>]
      BY <2>5 DEF FinishFlush, ClearBatch
    <3>2. CASE j # i
      <4>1. bpc'[i] = bpc[i] /\ batch'[i] = batch[i] /\ outBuffer'[i] = outBuffer[i]
        BY <1>2, <3>1, <3>2
      <4>2. (Serving(i)' <=> Serving(i)) /\ (Owing(i, c)' <=> Owing(i, c))
        BY <3>1, <4>1 DEF Serving, Owing
      <4> QED
        BY <2>2, <4>1, <4>2
    <3>3. CASE j = i
      <4>1. Serving(i) /\ batch'[i] = <<>> /\ outBuffer'[i] = outBuffer[i]
        BY <1>2, <3>1, <3>3 DEF Serving
      <4> QED
        BY <4>1, OrderNothing
    <3> QED
      BY <3>2, <3>3
  <2>6. ASSUME NEW j \in RoomStates, FlushBatch(j)
        PROVE  Kept
    <3>1. /\ UNCHANGED <<outBuffer, batch>> /\ bpc[j] = "select"
          /\ bpc' = [bpc EXCEPT ![j] = "deliver"]
          /\ snapshot' = [snapshot EXCEPT ![j] = clients[j]]
      BY <2>6 DEF FlushBatch
    <3>2. Serving(i)' => Serving(i)
      BY <1>2, <3>1 DEF Serving
    <3>3. Owing(i, c)' => Owing(i, c)
      BY <1>2, <3>1 DEF Owing
    <3> QED
      BY <2>2, <3>1, <3>2, <3>3
  <2>7. ASSUME NEW j \in RoomStates, NEW d \in Clients, Deliver(j, d)
        PROVE  Kept
    <3>1. /\ UNCHANGED <<outBuffer, batch, bpc>>
          /\ snapshot' = [snapshot EXCEPT ![j] = @ \ {d}]
      BY <2>7 DEF Deliver
    <3>2. (Serving(i)' <=> Serving(i)) /\ (Owing(i, c)' => Owing(i, c))
      BY <1>2, <3>1 DEF Serving, Owing
    <3> QED
      BY <2>2, <3>1, <3>2
  \* Any other step leaves them as they are.
  <2>8. CASE /\ ~BroadcastSend
             /\ \A j \in RoomStates : ~BroadcasterReceive(j) /\ ~FinishFlush(j) /\ ~FlushBatch(j)
             /\ \A j \in RoomStates, d \in Clients : ~Deliver(j, d)
    <3>1. UNCHANGED <<outBuffer, batch>>
      BY <2>8, BufferSteps, Zenon
    <3>2. HandleSlowClients => UNCHANGED snapshot
      BY DEF HandleSlowClients
    <3>3. UNCHANGED snapshot
      BY <2>8, <3>2, FlushSteps, Zenon
    <3>4. bpc'[i] = bpc[i]
      BY <1>1, <1>5, <2>8, ServingMoves, Zenon
    <3>5. (Serving(i)' <=> Serving(i)) /\ (Owing(i, c)' <=> Owing(i, c))
      BY <3>3, <3>4 DEF Serving, Owing
    <3> QED
      BY <2>2, <3>1, <3>5
  <2> HIDE DEF Kept
  <2> QED
    BY <2>3, <2>4, <2>5, <2>6, <2>7, <2>8, Zenon
<1>6. CASE ~Serving(i)'
  BY <1>6 DEF ServedInOrder
<1> QED
  BY <1>3, <1>4, <1>5, <1>6, Zenon

LEMMA InitFeedInv == Init => FeedInv
<1> SUFFICES ASSUME Init PROVE FeedInv
  OBVIOUS
<1>1. AdmittedInv
  BY InitAdmittedInv
<1>2. TopicOrdered
  BY DEF Init, TopicOrdered, InOrder
<1>3. ASSUME NEW i \in RoomStates PROVE BufferOrdered(i)
  <2>1. batch[i] = <<>> /\ outBuffer[i] = <<>>
    BY DEF Init
  <2> QED
    BY <2>1, OrderNothing DEF BufferOrdered
<1>4. ASSUME NEW c \in Clients PROVE send[c] = <<>>
  BY DEF Init
<1>5. ASSUME NEW c \in Clients PROVE FramesOrdered(c)
  BY <1>4 DEF FramesOrdered, FramesInOrder
<1>6. ASSUME NEW i \in RoomStates, NEW c \in Clients PROVE ServedInOrder(i, c)
  BY <1>4 DEF ServedInOrder
<1> QED
  BY <1>1, <1>2, <1>3, <1>5, <1>6 DEF FeedInv

LEMMA NextFeedInv == FeedInv /\ [Next]_vars => FeedInv'
<1> SUFFICES ASSUME FeedInv, [Next]_vars PROVE FeedInv'
  OBVIOUS
<1>1. AdmittedInv' /\ TopicOrdered'
  BY NextAdmittedInv, NextTopicOrdered DEF FeedInv
<1>2. \A i \in RoomStates : BufferOrdered(i)'
  BY NextBufferOrdered
<1>3. \A c \in Clients : FramesOrdered(c)'
  BY NextFramesOrdered
<1>4. \A i \in RoomStates, c \in Clients : ServedInOrder(i, c)'
  BY NextServedInOrder
<1> QED
  BY <1>1, <1>2, <1>3, <1>4 DEF FeedInv

\* Stages that follow one another.
Chain(stages) ==
    \A j, k \in DOMAIN stages : InOrder(stages[j]) /\ (j < k => Before(stages[j], stages[k]))

LEMMA ChainJoin ==
    ASSUME NEW s \in Seq(Seq(Message)), NEW t \in Seq(Seq(Message)), Chain(s), Chain(t),
           \A j \in DOMAIN s, k \in DOMAIN t : Before(s[j], t[k])
    PROVE  Chain(s \o t)
<1>1. \A k \in DOMAIN (s \o t) :
        \/ k \in DOMAIN s /\ (s \o t)[k] = s[k]
        \/ k - Len(s) \in DOMAIN t /\ (s \o t)[k] = t[k - Len(s)]
  OBVIOUS
<1>2. ASSUME NEW k \in DOMAIN (s \o t) PROVE InOrder((s \o t)[k])
  BY <1>1 DEF Chain
<1>3. ASSUME NEW j \in DOMAIN (s \o t), NEW k \in DOMAIN (s \o t), j < k
      PROVE  Before((s \o t)[j], (s \o t)[k])
  <2>1. CASE j \in DOMAIN s /\ (s \o t)[j] = s[j]
    <3>1. CASE k \in DOMAIN s /\ (s \o t)[k] = s[k]
      BY <1>3, <2>1, <3>1 DEF Chain
    <3>2. CASE k - Len(s) \in DOMAIN t /\ (s \o t)[k] = t[k - Len(s)]
      BY <2>1, <3>2
    <3> QED
      BY <1>1, <3>1, <3>2
  <2>2. CASE j \notin DOMAIN s
    <3>1. /\ j - Len(s) \in DOMAIN t /\ (s \o t)[j] = t[j - Len(s)]
          /\ k - Len(s) \in DOMAIN t /\ (s \o t)[k] = t[k - Len(s)]
          /\ j - Len(s) < k - Len(s)
      <4>1. /\ DOMAIN s = 1 .. Len(s) /\ DOMAIN t = 1 .. Len(t)
            /\ Len(s) \in Nat /\ Len(t) \in Nat
            /\ DOMAIN (s \o t) = 1 .. Len(s) + Len(t)
        OBVIOUS
      <4>2. /\ j \in Int /\ k \in Int /\ j > Len(s) /\ k > Len(s) /\ k \notin DOMAIN s
        BY <1>3, <2>2, <4>1
      <4>3. j - Len(s) < k - Len(s)
        BY <1>3, <4>1, <4>2
      <4> QED
        BY <1>1, <2>2, <4>2, <4>3
    <3> QED
      BY <3>1 DEF Chain
  <2> QED
    BY <1>1, <2>1, <2>2
<1> QED
  BY <1>2, <1>3 DEF Chain

LEMMA StagesFollow ==
    ASSUME FeedInv, NEW i \in RoomStates, NEW c \in Clients, Serving(i)
    PROVE  Chain(Stages(i, c))
<1> DEFINE Sent == [k \in DOMAIN send[c] |-> IF send[c][k].room = nameOf[i] THEN send[c][k].msgs ELSE <<>>]
           due  == IF bpc[i] = "deliver" /\ c \notin snapshot[i] THEN <<>> ELSE batch[i]
           held == IF kmsg # None /\ kroom = i THEN <<kmsg>> ELSE <<>>
           Waiting == [k \in DOMAIN topic |-> IF topic[k].room = nameOf[i] THEN <<topic[k]>> ELSE <<>>]
<1>1. AdmittedInv /\ BufferOrdered(i) /\ TopicOrdered
  BY DEF FeedInv
<1>2. /\ send[c] \in Seq(Frame) /\ \A k \in DOMAIN send[c] : send[c][k].msgs \in Seq(Message)
      /\ batch[i] \in Seq(Message) /\ outBuffer[i] \in Seq(Message)
      /\ topic \in Seq(Message) /\ (kmsg # None => kmsg \in Message)
  <2>1. \A k \in DOMAIN send[c] : send[c][k] \in Frame
    BY <1>1, FeedTypes
  <2> QED
    BY <1>1, <2>1, FeedTypes, MessageAtHand
\* What the stages hold.
<1>3. ASSUME NEW k \in DOMAIN Sent
      PROVE  /\ k \in DOMAIN send[c]
             /\ Sent[k] = <<>> \/ (Sent[k] = send[c][k].msgs /\ send[c][k].room = nameOf[i])
  OBVIOUS
<1>4. ASSUME NEW k \in DOMAIN Waiting
      PROVE  k \in DOMAIN topic /\ (Waiting[k] = <<>> \/ Waiting[k] = <<topic[k]>>)
  OBVIOUS
<1>5. due = <<>> \/ (due = batch[i] /\ Owing(i, c))
  BY DEF Owing
<1>6. held = <<>> \/ (held = <<kmsg>> /\ kmsg # None)
  OBVIOUS
<1>7. /\ Sent \in Seq(Seq(Message)) /\ Waiting \in Seq(Seq(Message))
      /\ due \in Seq(Message) /\ held \in Seq(Message)
  <2>1. \A k \in DOMAIN topic : <<topic[k]>> \in Seq(Message)
    BY <1>2
  <2>2. <<>> \in Seq(Message) /\ (kmsg # None => <<kmsg>> \in Seq(Message))
    BY <1>2
  <2>3. Sent \in [1 .. Len(send[c]) -> Seq(Message)] /\ Len(send[c]) \in Nat
    BY <1>2, <2>2
  <2>4. Waiting \in [1 .. Len(topic) -> Seq(Message)] /\ Len(topic) \in Nat
    BY <1>2, <2>1, <2>2
  <2>5. due \in Seq(Message) /\ held \in Seq(Message)
    BY <1>2, <2>2
  <2>6. ASSUME NEW S, NEW n \in Nat, NEW f \in [1 .. n -> S] PROVE f \in Seq(S)
    OBVIOUS
  <2> HIDE DEF Sent, Waiting
  <2>7. Sent \in Seq(Seq(Message))
    BY <2>3, <2>6
  <2>8. Waiting \in Seq(Seq(Message))
    BY <2>4, <2>6
  <2> QED
    BY <2>5, <2>7, <2>8
<1>8. Stages(i, c) = Sent \o <<due, outBuffer[i], held>> \o Waiting
  BY DEF Stages
<1> HIDE DEF Sent, due, held, Waiting
\* Ahead means before every single message to come.
<1>9. ASSUME NEW q, Ahead(q, FutureIds, Again)
      PROVE  Before(q, held) /\ \A k \in DOMAIN Waiting : Before(q, Waiting[k])
  <2>1. ASSUME NEW m, \A k \in DOMAIN q : Precedes(q[k].id, m.id) PROVE Before(q, <<m>>)
    BY <2>1 DEF Before
  <2>2. \A k \in DOMAIN q :
          /\ kmsg # None => Precedes(q[k].id, kmsg.id)
          /\ \A l \in DOMAIN topic : Precedes(q[k].id, topic[l].id)
    BY <1>1, <1>9, AheadPrecedes
  <2> QED
    BY <1>4, <1>6, <2>1, <2>2, OrderNothing
<1>10. Chain(Sent)
  <2>1. ASSUME NEW k \in DOMAIN Sent PROVE InOrder(Sent[k])
    BY <1>3, OrderNothing DEF FeedInv, FramesOrdered, FramesInOrder
  <2>2. ASSUME NEW j \in DOMAIN Sent, NEW k \in DOMAIN Sent, j < k PROVE Before(Sent[j], Sent[k])
    BY <1>3, <2>2, OrderNothing DEF FeedInv, FramesOrdered, FramesInOrder
  <2> QED
    BY <2>1, <2>2 DEF Chain
<1>11. /\ InOrder(due) /\ InOrder(outBuffer[i]) /\ InOrder(held)
       /\ Before(due, outBuffer[i])
       /\ Ahead(due, FutureIds, Again) /\ Ahead(outBuffer[i], FutureIds, Again)
  <2>1. InOrder(held)
    BY <1>6 DEF InOrder
  <2> QED
    BY <1>1, <1>5, <2>1, OrderNothing DEF BufferOrdered
<1>12. Chain(<<due, outBuffer[i], held>>)
  BY <1>9, <1>11 DEF Chain
<1>13. Chain(Waiting)
  <2>1. ASSUME NEW k \in DOMAIN Waiting PROVE InOrder(Waiting[k])
    BY <1>4 DEF InOrder
  <2>2. ASSUME NEW j \in DOMAIN Waiting, NEW k \in DOMAIN Waiting, j < k
        PROVE  Before(Waiting[j], Waiting[k])
    <3>1. Precedes(topic[j].id, topic[k].id)
      BY <1>1, <1>4, <2>2 DEF TopicOrdered, InOrder
    <3>2. Before(<<topic[j]>>, <<topic[k]>>)
      BY <3>1 DEF Before
    <3> QED
      BY <1>4, <3>2, OrderNothing
  <2> QED
    BY <2>1, <2>2 DEF Chain
<1>14. ASSUME NEW j \in DOMAIN Sent
       PROVE  /\ Before(Sent[j], due) /\ Before(Sent[j], outBuffer[i]) /\ Before(Sent[j], held)
              /\ \A k \in DOMAIN Waiting : Before(Sent[j], Waiting[k])
  <2>1. CASE Sent[j] = <<>>
    BY <2>1, OrderNothing
  <2>2. CASE Sent[j] = send[c][j].msgs /\ send[c][j].room = nameOf[i]
    <3>1. Ahead(Sent[j], FutureIds, Again)
      BY <1>3, <2>2 DEF FeedInv, FramesOrdered, FramesInOrder
    <3>2. Before(Sent[j], outBuffer[i]) /\ (Owing(i, c) => Before(Sent[j], batch[i]))
      BY <1>3, <2>2 DEF FeedInv, ServedInOrder
    <3> QED
      BY <1>5, <1>9, <3>1, <3>2, OrderNothing
  <2> QED
    BY <1>3, <2>1, <2>2
<1>15. \A k \in DOMAIN Waiting : Before(held, Waiting[k])
  <2>1. \A k \in DOMAIN topic : kmsg # None => Before(<<kmsg>>, <<topic[k]>>)
    BY <1>1 DEF TopicOrdered, Before
  <2> QED
    BY <1>4, <1>6, <2>1, OrderNothing
<1> DEFINE here == <<due, outBuffer[i], held>>
<1>16. /\ here \in Seq(Seq(Message))
       /\ \A k \in DOMAIN here : here[k] \in {due, outBuffer[i], held}
  BY <1>2, <1>7
<1>17. Chain(here)
  BY <1>12
<1>18. Stages(i, c) = (Sent \o here) \o Waiting
  BY <1>8
<1> HIDE DEF here
<1>19. Chain(Sent \o here)
  BY <1>7, <1>10, <1>14, <1>16, <1>17, ChainJoin
<1>20. ASSUME NEW j \in DOMAIN (Sent \o here), NEW k \in DOMAIN Waiting
       PROVE  Before((Sent \o here)[j], Waiting[k])
  <2>1. \/ j \in DOMAIN Sent /\ (Sent \o here)[j] = Sent[j]
        \/ \E l \in DOMAIN here : (Sent \o here)[j] = here[l]
    BY <1>7, <1>16
  <2> QED
    BY <1>9, <1>11, <1>14, <1>15, <1>16, <2>1
<1>21. Sent \o here \in Seq(Seq(Message))
  BY <1>7, <1>16
<1> QED
  BY <1>7, <1>13, <1>18, <1>19, <1>20, <1>21, ChainJoin

\* A member of a served room is handed the room's messages in the order of
\* the topic, and none of them twice but one that a rebalance brought back
\* between its fetch and its commit: what it has been queued, what the
\* broadcaster holds for it, what waits in outBuffer, in the handler and in
\* the topic are in the order of their ids, through the greedy drain, the
\* flush, the snapshot and the removal and re-creation of the room.
THEOREM PipelineInOrderCorrect == Spec => []PipelineInOrder
<1>1. FeedInv => PipelineInOrder
  <2> SUFFICES ASSUME FeedInv, NEW i \in RoomStates, Serving(i), NEW c \in clients[i]
               PROVE  Chain(Stages(i, c))
    BY DEF PipelineInOrder, Chain
  <2>1. c \in Clients
    BY DEF FeedInv, AdmittedInv, TypeOK, RoomTypeOK
  <2> QED
    BY <2>1, StagesFollow
<1> QED
  BY <1>1, InitFeedInv, NextFeedInv, PTL DEF Spec

-----------------------------------------------------------------------------
(***************************************************************************)
(* Delivery.  What a step may do with a message that is owed to a member:  *)
(* move it on, hand it over, or start to drop the member.  That it moves   *)
(* on at all is a matter of fairness.                                      *)
(***************************************************************************)
\* The id n waits in i for c: in the buffer, or in the batch and not yet sent.
Owed(i, c, n) ==
    \/ c \in clients[i] /\ n \in IdsOf(outBuffer[i])
    \/ /\ c \in IF bpc[i] = "deliver" THEN snapshot[i] ELSE clients[i]
       /\ n \in IdsOf(batch[i])

\* A full send channel was seen, and c has yet to be disconnected for it.
Dropping(c) == (\E i \in RoomStates : c \in slow[i]) \/ \E g \in removals : c \in g[2]

SettledOrOwed(i, c, n) ==
    (Serving(i) /\ Owed(i, c, n)) \/ n \in handed[c] \/ Dropping(c)

OwedUntilSettled ==
    [][\A i \in RoomStates, c \in Clients : conn[c] /\ conn'[c] =>
         /\ \A n \in Nat : Serving(i) /\ Owed(i, c, n) => SettledOrOwed(i, c, n)'
         /\ Dropping(c) => Dropping(c)']_vars

LEMMA DroppingStays ==
    ASSUME AdmittedInv, [Next]_vars, NEW c \in Clients, Dropping(c), conn'[c]
    PROVE  Dropping(c)'
<1>1. slow \in [RoomStates -> SUBSET Clients]
  BY DEF AdmittedInv, TypeOK, FlushTypeOK
<1>2. CASE UNCHANGED <<slow, removals>>
  BY <1>2 DEF Dropping
<1>3. CASE HandleSlowClients
  <2>1. PICK g \in removals : removals' = removals \ {g} /\ RemoveClients(g[1], g[2]) /\ UNCHANGED slow
    BY <1>3, Zenon DEF HandleSlowClients
  <2>2. c \notin g[2]
    BY <2>1, Zenon DEF RemoveClients
  <2> QED
    BY <2>1, <2>2 DEF Dropping
<1>4. ASSUME NEW i \in RoomStates, FlushBatch(i)
      PROVE  Dropping(c)'
  BY <1>2, <1>4 DEF FlushBatch
<1>5. ASSUME NEW i \in RoomStates, NEW d \in Clients, Deliver(i, d)
      PROVE  Dropping(c)'
  <2>1. UNCHANGED removals /\ (UNCHANGED slow \/ slow' = [slow EXCEPT ![i] = @ \cup {d}])
    BY <1>5, Zenon DEF Deliver
  <2> QED
    BY <1>1, <2>1 DEF Dropping
<1>6. ASSUME NEW i \in RoomStates, FinishFlush(i)
      PROVE  Dropping(c)'
  <2>1. /\ removals' = IF slow[i] = {} THEN removals ELSE removals \cup {<<i, slow[i]>>}
        /\ slow' = [slow EXCEPT ![i] = {}]
    BY <1>6 DEF FinishFlush, HandOverSlow
  <2>2. removals \subseteq removals'
    BY <2>1
  <2>3. CASE c \in slow[i]
    <3>1. <<i, slow[i]>> \in removals' /\ c \in <<i, slow[i]>>[2]
      BY <2>1, <2>3
    <3> QED
      BY <3>1, Zenon DEF Dropping
  <2>4. CASE c \notin slow[i]
    <3>1. \A j \in RoomStates : c \in slow[j] => c \in slow'[j]
      BY <1>1, <2>1, <2>4
    <3> QED
      BY <2>2, <3>1 DEF Dropping
  <2> QED
    BY <2>3, <2>4
<1> QED
  BY <1>2, <1>3, <1>4, <1>5, <1>6, FlushSteps, Zenon

\* A RoomState is served until its broadcaster finds it empty and idle.
LEMMA ServingEnds ==
    ASSUME AdmittedInv, [Next]_vars, NEW i \in RoomStates, Serving(i)
    PROVE  Serving(i)' \/ IdleTick(i)
<1>1. bpc \in [RoomStates -> BroadcasterPC] /\ nameOf[i] # None
  BY FeedTypes DEF AdmittedInv, RoomIdentity, Serving
<1>2. ASSUME NEW j \in RoomStates, FlushBatch(j) \/ FinishFlush(j)
      PROVE  Serving(i)'
  <2>1. \E l \in {"select", "deliver"} : bpc' = [bpc EXCEPT ![j] = l]
    BY <1>2, Zenon DEF FlushBatch, FinishFlush
  <2> QED
    BY <1>1, <2>1 DEF Serving
<1>3. ASSUME NEW j \in RoomStates, IdleTick(j) \/ RemoveRoom(j)
      PROVE  Serving(i)' \/ IdleTick(i)
  <2>1. CASE j # i
    <3>1. bpc'[i] = bpc[i]
      BY <1>1, <1>3, <2>1 DEF IdleTick, RemoveRoom
    <3> QED
      BY <3>1 DEF Serving
  <2>2. CASE j = i
    <3>1. ~RemoveRoom(i)
      BY DEF RemoveRoom, Serving
    <3> QED
      BY <1>3, <2>2, <3>1
  <2> QED
    BY <2>1, <2>2
<1>4. ASSUME NEW c \in Clients, BuildRoomBroadcaster(c) \/ SubscribeLookup(c)
      PROVE  Serving(i)'
  <2>1. UNCHANGED bpc \/ \E serving : CreateRoom(target[c], serving)
    BY <1>4, Zenon DEF BuildRoomBroadcaster, SubscribeLookup
  <2>2. ASSUME NEW serving, CreateRoom(target[c], serving)
        PROVE  bpc'[i] = bpc[i]
    <3>1. PICK j \in RoomStates :
            nameOf[j] = None /\ bpc' = [bpc EXCEPT ![j] = serving]
      BY <2>2, CreateRoomTakes
    <3> QED
      BY <1>1, <3>1
  <2> QED
    BY <2>1, <2>2 DEF Serving
<1>5. ASSUME \/ \E c \in Clients : LeaveOldRoom(c) \/ AddClient(c)
             \/ RunRemove \/ HandleSlowClients \/ UNCHANGED <<rooms, nameOf, clients, bpc>>
      PROVE  Serving(i)'
  <2>1. UNCHANGED bpc
    BY <1>5, Zenon DEF LeaveOldRoom, AddClient, RunRemove, HandleSlowClients
  <2> QED
    BY <2>1 DEF Serving
<1> QED
  BY <1>2, <1>3, <1>4, <1>5, RoomSteps, Zenon

\* No id is lost by adding to a sequence, joining two or cutting one.
LEMMA IdsWithin ==
    ASSUME NEW r, NEW s, NEW t,
           \A k \in DOMAIN r : \/ \E l \in DOMAIN s : s[l] = r[k]
                              \/ \E l \in DOMAIN t : t[l] = r[k]
    PROVE  IdsOf(r) \subseteq IdsOf(s) \cup IdsOf(t)
  BY DEF IdsOf

LEMMA IdsAppend ==
    ASSUME NEW q \in Seq(Message), NEW m
    PROVE  IdsOf(q) \subseteq IdsOf(Append(q, m))
<1>1. \A k \in DOMAIN q : k \in DOMAIN Append(q, m) /\ Append(q, m)[k] = q[k]
  OBVIOUS
<1> QED
  BY <1>1, IdsWithin

LEMMA IdsJoin ==
    ASSUME NEW p \in Seq(Message), NEW q \in Seq(Message)
    PROVE  IdsOf(p) \cup IdsOf(q) \subseteq IdsOf(p \o q)
<1>1. \A k \in DOMAIN p : k \in DOMAIN (p \o q) /\ (p \o q)[k] = p[k]
  OBVIOUS
<1>2. \A k \in DOMAIN q : k + Len(p) \in DOMAIN (p \o q) /\ (p \o q)[k + Len(p)] = q[k]
  OBVIOUS
<1>3. IdsOf(p) \subseteq IdsOf(p \o q)
  BY <1>1, IdsWithin
<1>4. IdsOf(q) \subseteq IdsOf(p \o q)
  BY <1>2, IdsWithin
<1> QED
  BY <1>3, <1>4

LEMMA IdsCut ==
    ASSUME NEW q \in Seq(Message), NEW n \in 0 .. Len(q)
    PROVE  IdsOf(q) \subseteq IdsOf(SubSeq(q, 1, n)) \cup IdsOf(SubSeq(q, n + 1, Len(q)))
<1> DEFINE first == SubSeq(q, 1, n)
           rest  == SubSeq(q, n + 1, Len(q))
<1>1. /\ DOMAIN first = 1 .. n /\ DOMAIN rest = 1 .. Len(q) - n
      /\ DOMAIN q = 1 .. Len(q) /\ Len(q) \in Nat
      /\ \A l \in 1 .. n : first[l] = q[l]
      /\ \A l \in 1 .. Len(q) - n : rest[l] = q[n + l]
  OBVIOUS
<1> HIDE DEF first, rest
<1>2. ASSUME NEW k \in DOMAIN q
      PROVE  (\E l \in DOMAIN first : first[l] = q[k]) \/ (\E l \in DOMAIN rest : rest[l] = q[k])
  <2>1. CASE k <= n
    BY <1>1, <2>1
  <2>2. CASE k > n
    <3>1. k - n \in 1 .. Len(q) - n /\ n + (k - n) = k
      BY <1>1, <2>2
    <3> QED
      BY <1>1, <3>1
  <2> QED
    BY <1>1, <2>1, <2>2
<1>3. IdsOf(q) \subseteq IdsOf(first) \cup IdsOf(rest)
  BY <1>2, IdsWithin
<1> QED
  BY <1>3 DEF first, rest

LEMMA OwedStays ==
    ASSUME AdmittedInv, [Next]_vars, NEW i \in RoomStates, NEW c \in Clients, NEW n,
           Serving(i), Owed(i, c, n), conn'[c]
    PROVE  SettledOrOwed(i, c, n)'
<1>1. /\ outBuffer \in [RoomStates -> Seq(Message)] /\ batch \in [RoomStates -> Seq(Message)]
      /\ outBuffer[i] \in Seq(Message) /\ batch[i] \in Seq(Message)
      /\ snapshot \in [RoomStates -> SUBSET Clients]
      /\ bpc \in [RoomStates -> BroadcasterPC]
  BY FeedTypes
<1>2. handed \in [Clients -> SUBSET Nat] /\ slow \in [RoomStates -> SUBSET Clients]
  BY DEF AdmittedInv, TypeOK, WriteTypeOK, FlushTypeOK
\* Whom something is owed keeps its place in the room, which is not idle.
<1>3. c \in clients[i] => c \in clients'[i]
  BY ConnGoes DEF AdmittedInv
<1>4. ASSUME IdleTick(i) PROVE FALSE
  BY <1>4 DEF IdleTick, Selecting, Owed
<1>5. Serving(i)'
  BY <1>4, ServingEnds
\* The queues keep their ids.
<1>6. ASSUME bpc'[i] = bpc[i], snapshot'[i] = snapshot[i],
             IdsOf(outBuffer[i]) \subseteq IdsOf(outBuffer'[i]),
             IdsOf(batch[i]) \subseteq IdsOf(batch'[i])
      PROVE  Owed(i, c, n)'
  BY <1>3, <1>6 DEF Owed, IdsOf
<1>7. CASE BroadcastSend
  <2>1. /\ kmsg # None /\ UNCHANGED <<batch, bpc, snapshot>>
        /\ outBuffer' = [outBuffer EXCEPT ![kroom] = Append(@, kmsg)]
    BY <1>7 DEF BroadcastSend
  <2>2. kmsg \in Message
    BY <2>1, MessageAtHand
  <2>3. outBuffer'[i] = IF kroom = i THEN Append(outBuffer[i], kmsg) ELSE outBuffer[i]
    BY <1>1, <2>1
  <2>4. IdsOf(outBuffer[i]) \subseteq IdsOf(Append(outBuffer[i], kmsg))
    BY <1>1, IdsAppend
  <2>5. Owed(i, c, n)'
    BY <1>6, <2>1, <2>3, <2>4
  <2> QED
    BY <1>5, <2>5 DEF SettledOrOwed
<1>8. ASSUME NEW j \in RoomStates, BroadcasterReceive(j)
      PROVE  SettledOrOwed(i, c, n)'
  <2>1. UNCHANGED <<bpc, snapshot>> /\ bpc[j] = "select"
    BY <1>8 DEF BroadcasterReceive, Selecting
  <2>2. PICK k \in 0 .. Len(outBuffer[j]) : Drain(j, k)
    BY <1>8, ReceiveDrains
  <2>3. CASE j # i
    <3>1. Owed(i, c, n)'
      BY <1>1, <1>6, <2>1, <2>2, <2>3 DEF Drain
    <3> QED
      BY <1>5, <3>1 DEF SettledOrOwed
  <2>4. CASE j = i
    <3> DEFINE first == SubSeq(outBuffer[i], 1, k)
               rest  == SubSeq(outBuffer[i], k + 1, Len(outBuffer[i]))
    <3>1. batch'[i] = batch[i] \o first /\ outBuffer'[i] = rest
      BY <1>1, <2>2, <2>4 DEF Drain
    <3>2. first \in Seq(Message)
      BY <1>1, <2>4
    <3>3. IdsOf(outBuffer[i]) \subseteq IdsOf(first) \cup IdsOf(rest)
      BY <1>1, <2>4, IdsCut
    <3> HIDE DEF first, rest
    <3>4. IdsOf(batch[i]) \cup IdsOf(first) \subseteq IdsOf(batch[i] \o first)
      BY <1>1, <3>2, IdsJoin
    <3>5. c \in clients[i] /\ n \in IdsOf(batch'[i]) \cup IdsOf(outBuffer'[i])
      BY <2>1, <2>4, <3>1, <3>3, <3>4 DEF Owed
    <3>6. Owed(i, c, n)'
      BY <1>3, <2>1, <2>4, <3>5 DEF Owed, IdsOf
    <3> QED
      BY <1>5, <3>6 DEF SettledOrOwed
  <2> QED
    BY <2>3, <2>4
<1>9. ASSUME NEW j \in RoomStates, FlushBatch(j)
      PROVE  SettledOrOwed(i, c, n)'
  <2>1. /\ UNCHANGED <<outBuffer, batch>> /\ bpc[j] = "select"
        /\ bpc' = [bpc EXCEPT ![j] = "deliver"]
        /\ snapshot' = [snapshot EXCEPT ![j] = clients[j]]
    BY <1>9 DEF FlushBatch
  <2>2. CASE j # i
    <3>1. Owed(i, c, n)'
      BY <1>1, <1>6, <2>1, <2>2
    <3> QED
      BY <1>5, <3>1 DEF SettledOrOwed
  <2>3. CASE j = i
    <3>1. bpc[i] = "select" /\ bpc'[i] = "deliver" /\ snapshot'[i] = clients[i]
      BY <1>1, <2>1, <2>3
    <3>2. Owed(i, c, n)'
      BY <1>3, <2>1, <3>1 DEF Owed, IdsOf
    <3> QED
      BY <1>5, <3>2 DEF SettledOrOwed
  <2> QED
    BY <2>2, <2>3
<1>10. ASSUME NEW j \in RoomStates, NEW d \in Clients, Deliver(j, d)
       PROVE  SettledOrOwed(i, c, n)'
  <2>1. /\ UNCHANGED <<outBuffer, batch, bpc, clients>> /\ bpc[j] = "deliver"
        /\ snapshot' = [snapshot EXCEPT ![j] = @ \ {d}]
        /\ \/ handed' = [handed EXCEPT ![d] = @ \cup IdsOf(batch[j])]
           \/ slow' = [slow EXCEPT ![j] = @ \cup {d}]
    BY <1>10, Zenon DEF Deliver
  <2>2. CASE j # i \/ d # c
    <3>1. c \in snapshot[i] => c \in snapshot'[i]
      BY <1>1, <2>1, <2>2
    <3>2. Owed(i, c, n)'
      BY <2>1, <3>1 DEF Owed, IdsOf
    <3> QED
      BY <1>5, <3>2 DEF SettledOrOwed
  <2>3. CASE j = i /\ d = c
    <3>1. CASE n \in IdsOf(batch[i])
      <4>1. n \in handed'[c] \/ c \in slow'[i]
        BY <1>2, <2>1, <2>3, <3>1
      <4> QED
        BY <4>1 DEF SettledOrOwed, Dropping
    <3>2. CASE c \in clients[i] /\ n \in IdsOf(outBuffer[i])
      <4>1. Owed(i, c, n)'
        BY <2>1, <3>2 DEF Owed, IdsOf
      <4> QED
        BY <1>5, <4>1 DEF SettledOrOwed
    <3> QED
      BY <3>1, <3>2 DEF Owed
  <2> QED
    BY <2>2, <2>3
<1>11. ASSUME NEW j \in RoomStates, FinishFlush(j)
       PROVE  SettledOrOwed(i, c, n)'
  <2>1. /\ UNCHANGED <<outBuffer, snapshot, clients>> /\ bpc[j] = "deliver" /\ snapshot[j] = {}
        /\ bpc' = [bpc EXCEPT ![j] = "select"]
        /\ batch' = [batch EXCEPT ![j] = <<>>]
    BY <1>11 DEF FinishFlush, ClearBatch
  <2>2. CASE j # i
    <3>1. Owed(i, c, n)'
      BY <1>1, <1>6, <2>1, <2>2
    <3> QED
      BY <1>5, <3>1 DEF SettledOrOwed
  <2>3. CASE j = i
    <3>1. c \in clients[i] /\ n \in IdsOf(outBuffer[i])
      BY <2>1, <2>3 DEF Owed
    <3>2. Owed(i, c, n)'
      BY <2>1, <3>1 DEF Owed, IdsOf
    <3> QED
      BY <1>5, <3>2 DEF SettledOrOwed
  <2> QED
    BY <2>2, <2>3
<1>12. CASE /\ ~BroadcastSend
            /\ \A j \in RoomStates : ~BroadcasterReceive(j) /\ ~FinishFlush(j) /\ ~FlushBatch(j)
            /\ \A j \in RoomStates, d \in Clients : ~Deliver(j, d)
  <2>1. UNCHANGED <<outBuffer, batch>>
    BY <1>12, BufferSteps, Zenon
  <2>2. HandleSlowClients => UNCHANGED snapshot
    BY DEF HandleSlowClients
  <2>3. UNCHANGED snapshot
    BY <1>12, <2>2, FlushSteps, Zenon
  <2>4. nameOf[i] # None
    BY DEF AdmittedInv, RoomIdentity, Serving
  <2>5. bpc'[i] = bpc[i]
    BY <1>5, <1>12, <2>4, ServingMoves, Zenon
  <2>6. Owed(i, c, n)'
    BY <1>6, <2>1, <2>3, <2>5
  <2> QED
    BY <1>5, <2>6 DEF SettledOrOwed
<1> QED
  BY <1>7, <1>8, <1>9, <1>10, <1>11, <1>12, Zenon

\* The safety half of DeliveredOrDropped.  A message that is owed to a member
\* of a served room stays owed, and the room served, until the member is handed
\* it or its full send channel is seen; and a client whose full channel was
\* seen is on its way out until it is disconnected.  Nothing else - leaving,
\* idling out, a batch finished, a slow client removed twice - settles it.
THEOREM OwedUntilSettledCorrect == Spec => OwedUntilSettled
<1>1. AdmittedInv /\ [Next]_vars =>
        [\A i \in RoomStates, c \in Clients : conn[c] /\ conn'[c] =>
           /\ \A n \in Nat : Serving(i) /\ Owed(i, c, n) => SettledOrOwed(i, c, n)'
           /\ Dropping(c) => Dropping(c)']_vars
  BY OwedStays, DroppingStays
<1> QED
  BY <1>1, InitAdmittedInv, NextAdmittedInv, PTL DEF Spec, OwedUntilSettled

-----------------------------------------------------------------------------
(***************************************************************************)
(* The room that Typing presumes.  What WsHub does to a RoomState is, seen *)
(* from its coalescer, one of the steps that Typing leaves to the rest of  *)
(* the room, or nothing: the two modules are about one outBuffer.          *)
(***************************************************************************)
RoomOf(i) ==
    INSTANCE Typing WITH
        inMap <- bpc[i] # "stopped", queued <- Len(outBuffer[i]), RoomOutBufferLen <- OutCap,
        holding <- {}, typers <- {}, total <- 0, timer <- NoTimer,
        run <- [t \in Timers |-> "idle"], listed <- [t \in Timers |-> NoList], shed <- FALSE

RoomStep(i) ==
    RoomOf(i)!OtherRequest \/ RoomOf(i)!TakeRequests \/ RoomOf(i)!RoomIdlesOut

LEMMA StepIsRoomStep ==
    ASSUME AdmittedInv, [Next]_vars, NEW i \in RoomStates
    PROVE  RoomStep(i) \/ UNCHANGED <<bpc[i] # "stopped", Len(outBuffer[i])>>
<1> USE DEF RoomStep, RoomOf!OtherRequest, RoomOf!TakeRequests, RoomOf!RoomIdlesOut,
        RoomOf!coalescerVars
<1>1. /\ outBuffer \in [RoomStates -> Seq(Message)] /\ batch \in [RoomStates -> Seq(Message)]
      /\ bpc \in [RoomStates -> BroadcasterPC]
      /\ \A j \in RoomStates : Len(outBuffer[j]) \in Nat /\ Len(batch[j]) \in Nat
  BY FeedTypes
<1>2. CASE BroadcastSend
  <2>1. /\ Len(outBuffer[kroom]) < OutCap /\ UNCHANGED bpc
        /\ outBuffer' = [outBuffer EXCEPT ![kroom] = Append(@, kmsg)]
        /\ kmsg \in Message
    BY <1>2, MessageAtHand DEF BroadcastSend
  <2>2. CASE kroom # i
    BY <1>1, <2>1, <2>2
  <2>3. CASE kroom = i
    <3>1. Len(outBuffer'[i]) = Len(outBuffer[i]) + 1
      BY <1>1, <2>1, <2>3
    <3> QED
      BY <2>1, <2>3, <3>1
  <2> QED
    BY <2>2, <2>3
<1>3. ASSUME NEW j \in RoomStates, BroadcasterReceive(j)
      PROVE  RoomStep(i) \/ UNCHANGED <<bpc[i] # "stopped", Len(outBuffer[i])>>
  <2>1. /\ outBuffer[j] # <<>> /\ Len(batch[j]) < MaxBatch /\ bpc[j] = "select" /\ UNCHANGED bpc
        /\ Drain(j, Smaller(Len(outBuffer[j]), MaxBatch - Len(batch[j])))
    BY <1>3 DEF BroadcasterReceive, Selecting
  <2>2. Len(outBuffer[j]) > 0 /\ outBuffer[j] \in Seq(Message)
    BY <1>1, <2>1
  <2>3. PICK n \in 1 .. Len(outBuffer[j]) : Drain(j, n)
    <3>1. Smaller(Len(outBuffer[j]), MaxBatch - Len(batch[j])) \in 1 .. Len(outBuffer[j])
      BY <1>1, <2>1, <2>2, WsHubAssumption DEF Smaller
    <3> QED
      BY <2>1, <3>1
  <2>4. CASE j # i
    BY <1>1, <2>1, <2>3, <2>4 DEF Drain
  <2>5. CASE j = i
    <3>1. Len(outBuffer'[i]) = Len(outBuffer[i]) - n
      BY <1>1, <2>2, <2>3, <2>5 DEF Drain
    <3>2. Len(outBuffer'[i]) \in 0 .. Len(outBuffer[i]) - 1
      BY <1>1, <2>3, <2>5, <3>1
    <3> QED
      BY <2>1, <2>2, <2>5, <3>2
  <2> QED
    BY <2>4, <2>5
<1>4. ASSUME UNCHANGED outBuffer
      PROVE  RoomStep(i) \/ UNCHANGED <<bpc[i] # "stopped", Len(outBuffer[i])>>
  <2>1. CASE (bpc'[i] = "stopped") <=> (bpc[i] = "stopped")
    BY <1>4, <2>1
  <2>2. CASE bpc[i] # "stopped" /\ bpc'[i] = "stopped"
    BY <1>4, <2>2
  <2>3. bpc[i] = "stopped" => bpc'[i] = "stopped"
    <3>1. CASE \E r \in Rooms, j \in RoomStates, serving \in {"select", "none"} :
                 /\ rooms[r] = None /\ nameOf[j] = None
                 /\ rooms' = [rooms EXCEPT ![r] = j]
                 /\ nameOf' = [nameOf EXCEPT ![j] = r]
                 /\ bpc' = [bpc EXCEPT ![j] = serving]
      BY <1>1, <3>1 DEF AdmittedInv, RoomIdentity
    <3>2. CASE \E j \in RoomStates : bpc' = [bpc EXCEPT ![j] = "stopped"]
      BY <1>1, <3>2
    <3>3. CASE \A j \in RoomStates : (bpc'[j] = "stopped") <=> (bpc[j] = "stopped")
      BY <3>3
    <3> QED
      BY <3>1, <3>2, <3>3, RoomChanges, Zenon DEF AdmittedInv
  <2> QED
    BY <2>1, <2>2, <2>3
<1>5. ASSUME NEW j \in RoomStates, FinishFlush(j) PROVE UNCHANGED outBuffer
  BY <1>5 DEF FinishFlush
<1> QED
  BY <1>2, <1>3, <1>4, <1>5, BufferSteps, Zenon

\* For its typing coalescer every RoomState behaves as the room that Typing's
\* theorems and liveness are about.
THEOREM RoomIsTypingsRoom ==
    ASSUME NEW i \in RoomStates
    PROVE  Spec => RoomOf(i)!TypingInit /\ [][RoomOf(i)!TypingNext]_(RoomOf(i)!TypingVars)
<1>1. Init => RoomOf(i)!TypingInit
  BY DEF Init, RoomOf!TypingInit, NoList, RoomOf!NoList
<1>2. AdmittedInv /\ [Next]_vars => [RoomOf(i)!TypingNext]_(RoomOf(i)!TypingVars)
  BY StepIsRoomStep DEF RoomStep, RoomOf!TypingNext, RoomOf!TypingVars, RoomOf!coalescerVars
<1> QED
  BY <1>1, <1>2, InitAdmittedInv, NextAdmittedInv, PTL DEF Spec

-----------------------------------------------------------------------------
(***************************************************************************)
(* Typing.  A step of it is a reader's, a timer's or the room's.           *)
(***************************************************************************)
LEMMA TypingCases ==
    ASSUME [TypingNext]_TypingVars
    PROVE  \/ \E u \in Users : HandleRoomTyping(u) \/ AddAgain(u) \/ AddTyper(u)
           \/ \E t \in Timers :
                \/ Fire(t) \/ Shed(t) \/ PassCheck(t) \/ Grab(t)
                \/ SendTyping(t) \/ SendTimeout(t)
           \/ OtherRequest \/ TakeRequests \/ RoomIdlesOut
           \/ UNCHANGED TypingVars
  BY Zenon DEF TypingNext, ReadTyping, FlushTyping

LEMMA TypersFinite ==
    ASSUME TypingTypeOK
    PROVE  /\ IsFiniteSet(typers)
           /\ Cardinality(typers) \in Nat
           /\ \A u \in Users \ typers : Cardinality(typers \cup {u}) = Cardinality(typers) + 1
<1>1. IsFiniteSet(typers)
  BY TypingAssumption, FS_Subset DEF TypingTypeOK
<1>2. ASSUME NEW u \in Users \ typers
      PROVE  Cardinality(typers \cup {u}) = Cardinality(typers) + 1
  BY <1>1, <1>2, FS_AddElement
<1> QED
  BY <1>1, <1>2, FS_CardinalityType

\* Restart arms a timer and touches no flush that is under way.
LEMMA RestartArms ==
    ASSUME TypingTypeOK, NEW t \in Timers, Restart(t)
    PROVE  /\ timer' = t
           /\ run' \in [Timers -> TimerStates]
           /\ run'[t] = "armed"
  BY DEF Restart, TypingTypeOK, TimerStates

\* flushTyping moves its own timer only.
LEMMA StepMoves ==
    ASSUME TypingTypeOK, NEW t \in Timers, NEW from, NEW to \in TimerStates, Step(t, from, to)
    PROVE  /\ run' \in [Timers -> TimerStates]
           /\ run'[t] = to
           /\ \A s \in Timers \ {t} : run'[s] = run[s]
  BY DEF Step, TypingTypeOK

LEMMA InitTypingTypeOK == TypingInit => TypingTypeOK
<1> SUFFICES ASSUME TypingInit PROVE TypingTypeOK
  OBVIOUS
<1> USE TypingAssumption DEF TypingInit
<1>1. typers \subseteq Users /\ Cardinality(typers) = 0
  BY FS_EmptySet
<1>2. listed \in [Timers -> [users : SUBSET Users, total : 0 .. MaxTotal]]
  BY DEF NoList
<1>3. run \in [Timers -> TimerStates]
  BY DEF TimerStates
<1>4. /\ Cardinality(typers) <= MaxTracked /\ total \in 0 .. MaxTotal
      /\ queued \in 0 .. RoomOutBufferLen
  BY <1>1
<1>5. inMap \in BOOLEAN /\ shed \in BOOLEAN /\ holding \subseteq Users
  OBVIOUS
<1> QED
  BY <1>1, <1>2, <1>3, <1>4, <1>5, Zenon DEF TypingTypeOK

LEMMA NextTypingTypeOK == TypingTypeOK /\ [TypingNext]_TypingVars => TypingTypeOK'
<1> SUFFICES ASSUME TypingTypeOK, [TypingNext]_TypingVars PROVE TypingTypeOK'
  OBVIOUS
<1> USE TypingAssumption DEF TypingTypeOK
<1>1. ASSUME NEW u \in Users, HandleRoomTyping(u) PROVE TypingTypeOK'
  BY <1>1 DEF HandleRoomTyping
<1>2. ASSUME NEW u \in Users, AddAgain(u) PROVE TypingTypeOK'
  BY <1>2 DEF AddAgain
<1>3. ASSUME NEW u \in Users, AddTyper(u) PROVE TypingTypeOK'
  <2>1. typers' \subseteq Users /\ Cardinality(typers') <= MaxTracked
    <3>1. CASE Cardinality(typers) < MaxTracked
      <4>1. typers' = typers \cup {u} /\ u \in Users \ typers
        BY <1>3, <3>1 DEF AddTyper, Track
      <4> QED
        BY <3>1, <4>1, TypersFinite
    <3>2. CASE ~(Cardinality(typers) < MaxTracked)
      BY <1>3, <3>2 DEF AddTyper, Track
    <3> QED
      BY <3>1, <3>2
  <2>2. total' \in 0 .. MaxTotal
    BY <1>3 DEF AddTyper, CountTyper
  <2>3. timer' \in Timers /\ run' \in [Timers -> TimerStates]
    <3>1. PICK t \in Timers : Restart(t)
      BY <1>3 DEF AddTyper
    <3> QED
      BY <3>1, RestartArms
  <2>4. /\ holding' \subseteq Users /\ shed' \in BOOLEAN
        /\ UNCHANGED <<inMap, listed, queued>>
    BY <1>3 DEF AddTyper
  <2> QED
    BY <2>1, <2>2, <2>3, <2>4
<1>4. ASSUME NEW t \in Timers, Fire(t) \/ Shed(t) \/ PassCheck(t) PROVE TypingTypeOK'
  <2>1. PICK from, to \in TimerStates : Step(t, from, to)
    BY <1>4 DEF Fire, Shed, PassCheck, TimerStates
  <2>2. run' \in [Timers -> TimerStates]
    BY <2>1, StepMoves
  <2>3. shed' \in BOOLEAN /\ UNCHANGED <<inMap, holding, coalescerVars, listed, queued>>
    BY <1>4 DEF Fire, Shed, PassCheck
  <2> QED
    BY <2>2, <2>3
<1>5. ASSUME NEW t \in Timers, Grab(t) PROVE TypingTypeOK'
  <2>1. run' \in [Timers -> TimerStates]
    BY <1>5, StepMoves DEF Grab, TimerStates
  <2>2. listed' \in [Timers -> [users : SUBSET Users, total : 0 .. MaxTotal]]
    BY <1>5 DEF Grab, NoList
  <2>3. Cardinality(typers') = 0
    BY <1>5, FS_EmptySet DEF Grab, ClearTyping
  <2> QED
    BY <1>5, <2>1, <2>2, <2>3 DEF Grab, ClearTyping
<1>6. ASSUME NEW t \in Timers, SendTyping(t) \/ SendTimeout(t) PROVE TypingTypeOK'
  <2>1. Done(t) /\ queued' \in 0 .. RoomOutBufferLen
    BY <1>6 DEF SendTyping, SendTimeout
  <2>2. run' \in [Timers -> TimerStates]
    BY <2>1, StepMoves DEF Done, TimerStates
  <2>3. listed' \in [Timers -> [users : SUBSET Users, total : 0 .. MaxTotal]]
    BY <2>1 DEF Done, NoList
  <2>4. /\ inMap' \in BOOLEAN /\ shed' \in BOOLEAN /\ holding' \subseteq Users
        /\ typers' \subseteq Users /\ Cardinality(typers') <= MaxTracked
        /\ total' \in 0 .. MaxTotal /\ timer' \in Timers \cup {NoTimer}
    BY <2>1 DEF Done
  <2> QED
    BY <2>1, <2>2, <2>3, <2>4, Zenon
<1>7. ASSUME OtherRequest \/ TakeRequests \/ RoomIdlesOut PROVE TypingTypeOK'
  <2>1. queued' \in 0 .. RoomOutBufferLen
    BY <1>7 DEF OtherRequest, TakeRequests, RoomIdlesOut
  <2>2. inMap' \in BOOLEAN
    BY <1>7 DEF OtherRequest, TakeRequests, RoomIdlesOut
  <2>3. UNCHANGED <<holding, coalescerVars, run, listed, shed>>
    BY <1>7 DEF OtherRequest, TakeRequests, RoomIdlesOut
  <2> QED
    BY <2>1, <2>2, <2>3
<1>8. ASSUME UNCHANGED TypingVars PROVE TypingTypeOK'
  BY <1>8
<1> QED
  BY <1>1, <1>2, <1>3, <1>4, <1>5, <1>6, <1>7, <1>8, TypingCases

\* The coalescer keeps its types, no more typers than maxTrackedTypers and no
\* more requests than the room's buffer holds.
THEOREM TypingTypeCorrect == TypingSpec => []TypingTypeOK
  BY InitTypingTypeOK, NextTypingTypeOK, PTL DEF TypingSpec

-----------------------------------------------------------------------------
(***************************************************************************)
(* Where a timer or a flush is that has yet to take the typers, it stays   *)
(* so until it takes them, and AddTyper arms one.                          *)
(***************************************************************************)
Coming(t) == run[t] \in {"armed", "check", "lock"}

FlushInv == TypingTypeOK /\ FlushIsComing

LEMMA NextFlush == FlushInv /\ [TypingNext]_TypingVars => FlushIsComing'
<1> SUFFICES ASSUME FlushInv, [TypingNext]_TypingVars, total' > 0, ~shed'
             PROVE  \E t \in Timers : Coming(t)'
  BY DEF FlushIsComing, Coming
<1> USE DEF FlushInv
<1>1. ASSUME NEW u \in Users, AddTyper(u) PROVE \E t \in Timers : Coming(t)'
  <2>1. PICK t \in Timers : Restart(t)
    BY <1>1 DEF AddTyper
  <2> QED
    BY <2>1, RestartArms DEF Coming
<1>2. ASSUME NEW u \in Users, HandleRoomTyping(u) \/ AddAgain(u)
      PROVE  UNCHANGED <<total, shed, run>>
  BY <1>2 DEF HandleRoomTyping, AddAgain
<1>3. ASSUME NEW t \in Timers, NEW from, NEW to \in TimerStates, Step(t, from, to),
             from \in {"armed", "check", "lock"} => to \in {"armed", "check", "lock"},
             UNCHANGED <<total, shed>>
      PROVE  \E s \in Timers : Coming(s)'
  <2>1. PICK s \in Timers : Coming(s)
    BY <1>3 DEF FlushIsComing, Coming
  <2>2. Coming(s)'
    BY <1>3, <2>1, StepMoves DEF Coming, Step
  <2> QED
    BY <2>2
<1>4. ASSUME NEW t \in Timers, Fire(t) \/ PassCheck(t) PROVE \E s \in Timers : Coming(s)'
  <2>1. CASE Fire(t)
    BY <1>3, <2>1 DEF Fire, TimerStates
  <2>2. CASE PassCheck(t)
    BY <1>3, <2>2 DEF PassCheck, TimerStates
  <2> QED
    BY <1>4, <2>1, <2>2
<1>5. ASSUME NEW t \in Timers, Shed(t) \/ Grab(t) PROVE FALSE
  BY <1>5 DEF Shed, Grab, ClearTyping
<1>6. ASSUME NEW t \in Timers, SendTyping(t) \/ SendTimeout(t) PROVE \E s \in Timers : Coming(s)'
  <2>1. Done(t)
    BY <1>6 DEF SendTyping, SendTimeout
  <2> QED
    BY <1>3, <2>1 DEF Done, TimerStates
<1>7. ASSUME OtherRequest \/ TakeRequests \/ RoomIdlesOut \/ UNCHANGED TypingVars
      PROVE  UNCHANGED <<total, shed, run>>
  BY <1>7 DEF OtherRequest, TakeRequests, RoomIdlesOut
<1>8. ASSUME UNCHANGED <<total, shed, run>> PROVE \E t \in Timers : Coming(t)'
  BY <1>8 DEF FlushIsComing, Coming
<1> QED
  BY <1>1, <1>2, <1>4, <1>5, <1>6, <1>7, <1>8, TypingCases

\* No order of AddTyper, timers that fire while they are stopped and flushes
\* that forget a newer timer leaves typers without a flush, unless it was shed.
THEOREM FlushIsComingCorrect == TypingSpec => []FlushIsComing
<1>1. TypingInit => FlushInv
  BY InitTypingTypeOK DEF FlushInv, FlushIsComing, TypingInit
<1>2. FlushInv /\ [TypingNext]_TypingVars => FlushInv'
  BY NextFlush, NextTypingTypeOK DEF FlushInv
<1>3. FlushInv => FlushIsComing
  BY DEF FlushInv
<1> QED
  BY <1>1, <1>2, <1>3, PTL DEF TypingSpec

-----------------------------------------------------------------------------
(***************************************************************************)
(* Names and counts.  Whoever is new is counted, and kept while there is   *)
(* room, so that both grow together up to the limit.                       *)
(***************************************************************************)
AgreeInv == TypingTypeOK /\ NamesAgreeWithTotal

LEMMA AgreeOnNothing == Agree({}, 0)
  BY FS_EmptySet, TypingAssumption DEF Agree

LEMMA AddTyperAgrees ==
    ASSUME TypingTypeOK, Agree(typers, total), NEW u \in Users, AddTyper(u)
    PROVE  Agree(typers, total)'
<1> USE TypingAssumption
<1>1. /\ typers' = Track(u) /\ total' = CountTyper /\ u \in Users \ typers
      /\ total \in 0 .. MaxTotal
  BY DEF AddTyper, TypingTypeOK
<1>2. Cardinality(typers) = IF total < MaxTracked THEN total ELSE MaxTracked
  BY DEF Agree
<1>3. CASE total < MaxTracked
  <2>1. typers' = typers \cup {u} /\ total' = total + 1
    BY <1>1, <1>2, <1>3 DEF Track, CountTyper
  <2>2. Cardinality(typers') = total + 1
    BY <1>1, <1>2, <1>3, <2>1, TypersFinite
  <2> QED
    BY <1>1, <1>3, <2>1, <2>2 DEF Agree
<1>4. CASE ~(total < MaxTracked)
  <2>1. typers' = typers /\ total' >= total /\ total' \in Int
    BY <1>1, <1>2, <1>4 DEF Track, CountTyper
  <2> QED
    BY <1>1, <1>2, <1>4, <2>1 DEF Agree
<1> QED
  BY <1>3, <1>4

LEMMA NextAgree == AgreeInv /\ [TypingNext]_TypingVars => NamesAgreeWithTotal'
<1> SUFFICES ASSUME AgreeInv, [TypingNext]_TypingVars PROVE NamesAgreeWithTotal'
  OBVIOUS
<1> USE DEF AgreeInv
<1>1. ASSUME UNCHANGED <<typers, total, listed>> PROVE NamesAgreeWithTotal'
  BY <1>1 DEF NamesAgreeWithTotal, Agree
<1>2. ASSUME NEW u \in Users, AddTyper(u) PROVE NamesAgreeWithTotal'
  <2>1. Agree(typers, total)' /\ UNCHANGED listed
    BY <1>2, AddTyperAgrees DEF NamesAgreeWithTotal, AddTyper
  <2> QED
    BY <2>1 DEF NamesAgreeWithTotal, Agree
<1>3. ASSUME NEW t \in Timers, Grab(t) PROVE NamesAgreeWithTotal'
  <2>1. Agree(typers, total)'
    BY <1>3, AgreeOnNothing DEF Grab, ClearTyping, Agree
  <2>2. listed' = [listed EXCEPT ![t] = IF total = 0 THEN NoList
                                        ELSE [users |-> typers, total |-> total]]
    BY <1>3 DEF Grab
  <2>3. ASSUME NEW s \in Timers PROVE Agree(listed'[s].users, listed'[s].total)
    BY <2>2, AgreeOnNothing DEF NamesAgreeWithTotal, NoList, TypingTypeOK
  <2> QED
    BY <2>1, <2>3 DEF NamesAgreeWithTotal, Agree
<1>4. ASSUME NEW t \in Timers, SendTyping(t) \/ SendTimeout(t) PROVE NamesAgreeWithTotal'
  <2>1. listed' = [listed EXCEPT ![t] = NoList] /\ UNCHANGED <<typers, total>>
    BY <1>4 DEF SendTyping, SendTimeout, Done
  <2>2. ASSUME NEW s \in Timers PROVE Agree(listed'[s].users, listed'[s].total)
    BY <2>1, AgreeOnNothing DEF NamesAgreeWithTotal, NoList, TypingTypeOK
  <2> QED
    BY <2>1, <2>2 DEF NamesAgreeWithTotal, Agree
<1>5. \/ UNCHANGED <<typers, total, listed>>
      \/ \E u \in Users : AddTyper(u)
      \/ \E t \in Timers : Grab(t) \/ SendTyping(t) \/ SendTimeout(t)
  BY TypingCases, Zenon DEF HandleRoomTyping, AddAgain, Fire, Shed, PassCheck, OtherRequest,
     TakeRequests, RoomIdlesOut
<1> QED
  BY <1>1, <1>2, <1>3, <1>4, <1>5, Zenon

\* In the coalescer and in every list a flush took, names are missing only
\* beyond the limit, and a frame never names more typers than it counts.
THEOREM NamesAgreeCorrect == TypingSpec => []NamesAgreeWithTotal
<1>1. TypingInit => AgreeInv
  <2>1. SUFFICES ASSUME TypingInit PROVE NamesAgreeWithTotal
    BY InitTypingTypeOK DEF AgreeInv
  <2>2. \A t \in Timers : listed[t].users = {} /\ listed[t].total = 0
    BY <2>1 DEF TypingInit, NoList
  <2>3. typers = {} /\ total = 0
    BY <2>1 DEF TypingInit
  <2> QED
    BY <2>2, <2>3, AgreeOnNothing, Zenon DEF NamesAgreeWithTotal
<1>2. AgreeInv /\ [TypingNext]_TypingVars => AgreeInv'
  BY NextAgree, NextTypingTypeOK DEF AgreeInv
<1>3. AgreeInv => NamesAgreeWithTotal
  BY DEF AgreeInv
<1> QED
  BY <1>1, <1>2, <1>3, PTL DEF TypingSpec
=============================================================================
