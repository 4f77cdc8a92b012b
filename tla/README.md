# A verification of the Discore backend in TLA+

Discore is a chat backend in Go: a gateway that authenticates and proxies, and a
module server that holds the core (servers, channels, members, invites), chat
(messages, conversations) and websocket modules. PostgreSQL and MongoDB store,
Redis caches and limits rates, Kafka carries messages between the modules, and
Debezium turns the member table into events. Paths below are relative to the
repository.

This directory models the parts of it whose correctness depends on interleavings,
restarts and partial failures, checks them with TLC on small instances, and proves
the main safety properties with TLAPS for every value of the constants.

    tlc -workers 2 -config WsHubRooms.cfg MCWsHub.tla     # one run
    tlapm WsHubProofs.tla                                 # one module of proofs

## 1. Inventory

| component | state | operations | what makes it correct |
|---|---|---|---|
| websocket hub (`internal/modules/websocket/application`) | `Hub.rooms`, per-room `clients` and `outBuffer`, per-client `room`, `send`, `conn`, the register and unregister channels | connect, join and switch rooms, send channel and direct messages, idle removal, slow client removal, unregister | messages reach only admitted members; a client is in one room; clean-up finds it; messages arrive in order or the client is disconnected; redelivery is the only cause of a repetition |
| typing coalescer (`typing.go`) | per room: typers, their total, the timer | add a typer, flush, load shedding | whoever is kept or counted has a flush coming |
| batch consumer (`base/infrastructure/kafka/consumer.go`) | batch, timer, reader position, committed offset | fetch, handle, dead letter, commit, cancel | a commit covers only handled messages; nothing waits for a full batch |
| chat persistence (`internal/modules/chat/services/kafka`, `base/store/channelMessage`) | `channel_messages`, dead letter topic | bulk insert, give back failures, publish dead letters | what is committed is stored, dead lettered, or lost in a way that is known |
| consumer managers and shutdown (`consumerManager.go`, `servers/module_server.go`) | consumers, wait group, cancel function, signals | Start, Stop with timeout, server shutdown | a Stop without error has ended the consumer; a signal ends the process |
| invites and member creation (`base/cacheStore/server`, `base/lib/serverInvite`) | `server_invites`, `members`, the Info and UsedCount keys in Redis | create with its cache fill, look up, accept (consume, insert, roll back) | no more users than the limit; a failed accept gives its use back, once |
| invite usage (`internal/modules/core/services/kafka`) | `used_count` | add the joins of a batch | each join counted once per delivery, or left out in a known way |
| cache and Bloom filters (`base/infrastructure/redis`) | keys, filters, flights | Set with its goroutine, Get with its singleflight, scripts, Add, MightContain | a stored object is not reported absent |
| cached stores (`base/cacheStore`) | a row and its key | create, update, delete, check, read | a live row's key arrives and stays, or was lost |
| core HTTP handlers (`internal/modules/core/api`) | one request each | create and edit servers and channels, list, accept | a failed request leaves no admin behind |
| authentication (`internal/gateway/authenticationService`) | users, sessions, refresh cookies, user keys | sign up, sign in, Clerk, sign out; refresh only reads | a device with a refresh token has a session, and the other way round |
| CDC set-up (`base/cdc`) | the connector at Kafka Connect | ask for it, create or update, check its status, retry with backoff | success means the connector was there |
| conversations (`base/store/conversation`) | a row per pair of users | get or create: one `INSERT ... ON CONFLICT` | one conversation per pair |
| gateway, gRPC and other handlers, metrics, logging, protobuf, configuration | none of their own | decoding, proxying, one store call each | left to tests |

**How they interact.** A websocket frame `channel-message.add` makes ReadPump send to
two Kafka topics: `channel-message.add`, which the chat consumer stores, and
`broadcast.channel-message.add`, which the hub's own consumer puts into the room's
`outBuffer`, beside what the typing coalescer puts there. The room's broadcaster batches,
takes a snapshot of the members and puts one frame into each member's `send`, which
WritePump writes. The consumer commits a message after its handler, so a rebalance of its
group may bring it back. Joining asks the member cache or the conversation store. An accepted
invite raises the counter in Redis and inserts a member row; Debezium turns the row into
an event, from which the core module's consumer adds to `used_count`, which in turn sets the
counter when Redis has lost it. The gateway's sign-up fills the user keys that the typing
frames take names from. Each module process starts consumers through managers that wait for
the same signal as its main goroutine.

**What is hard.** Each room has a lock of its own beside the hub's, and most
operations take them one after the other, so that what was looked up is stale when it
is used. RoomStates outlive their entry in the map, because goroutines keep pointers.
Slow clients and idle rooms are removed by goroutines that act on earlier
observations; a typing timer may fire while it is being stopped. Batches are committed
cumulatively after a handler whose error nobody reads, by a process that may end, or be
rebalanced away from, at any step. The dead letter producer is asynchronous. Rows come first
and the keys that reads ask come later, from goroutines nobody waits for; keys expire; Redis
and the database can do a thing and lose the answer, and the client of Redis then repeats
the command by itself, also one that counts. The counter that admits users is set
from a count that lags behind it. Start, Stop and the end of the process are not ordered.
`PROJECT.json` lists the hazards at their lines.

## 2. Modules

| module | what it is |
|---|---|
| `WsHub` | the hub: connections, rooms, broadcasters, the broadcast consumer |
| `RoomMembership` | what the hub promises about who is in which room |
| `MCWsHub` | constants for TLC, the joined initial state, and the liveness of delivery |
| `WsHubProofs` | proofs about `WsHub` and `Typing`, and that `Typing`'s room is one of `WsHub`'s |
| `Typing` | the typing coalescer of one room, its timers and the room's buffer |
| `BatchConsumer` | `runBatchManualCommit` for any handlers, one partition, the broker around it |
| `BatchConsumerProofs` | its types, and the coverage argument the consumers share |
| `ConsumerLife` | when a batch consumer runs and ends: implemented by the loop, promised to the managers by `ModuleServer` |
| `ChatMessages`, `ChatMessagesProofs` | the chat consumer: `BatchConsumer` with bulk insert and dead letters |
| `InviteUsage`, `InviteUsageProofs` | the member event consumer: `BatchConsumer` with the counting of joins |
| `JoinCount` | what `used_count` promises: `InviteUsage` implements its counting, `Invites` its joins |
| `Invites`, `MCInvites`, `InvitesProofs` | invites from their creation to the member row, with the counter in Redis |
| `Catalog`, `MCCatalog`, `CatalogProofs` | servers and channels: rows, keys, filters and the core API's requests |
| `Accounts`, `MCAccounts`, `AccountsProofs` | accounts, sessions, refresh tokens and user keys |
| `ModuleServer`, `ModuleServerProofs` | a module process: managers, signals, shutdown, and the connector set-up |

The MC modules hold constants and symmetry sets only (`MCWsHub` also an initial
state and the liveness of delivery). The other runs use their modules directly.

### WsHub

An action is what one goroutine does between two points where another can run: a
channel operation, or the taking and releasing of `hub.mu` or of a room's `mu`.

| in the model | in the code |
|---|---|
| `rooms`, `nameOf`, `clients`, `outBuffer` | `Hub.rooms` and the fields of `RoomState`; a `RoomState` is an object (a member of `RoomStates`) that the map may forget while goroutines hold it |
| `bpc`, `batch`, `snapshot`, `slow`, `removals` | `roomBroadcaster`, its locals, those of `broadcastBatchRequest`, and the `handleSlowClients` goroutines |
| `conn`, `send`, `room`, `rpc`, `wpc` | `Client`, with its two pumps |
| `target`, `oldRoom`, `newRoom` | the locals of `SubscribeRoom` |
| `register`, `unregister`, `hubClient`, `hubRoom` | `hub.run` and its channels |
| `topic`, `kmsg`, `kroom` | the broadcast topic, from the reader's position on, and the handler |
| `fetched`, `committed` | the message `runSingleManualCommit` has in hand, and the group's offset |
| `handed`, `repeated` | ghosts: the ids put into `Client.send`, and those that a rebalance brought back before their commit |

A join is `HandleRoomJoin`, `BuildRoomBroadcaster` (under `hub.mu`), `SubscribeLookup`
(under `hub.mu` again), `LeaveOldRoom` (under the old room's lock), then one of
`JoinRefused`, `AddClient` (under the new room's lock) and `AddClientToNil`, and
`SendSubscribeConfirmation`.

Choices that need a word:

- `client.done` has no variable. `RemoveClients` closes it under the same lock as the
  connection, so a pump that would see it closed finds the connection closed. That
  the pumps read the field without the lock is a data race; no outcome of it lets
  a pump go on that would otherwise stop.
- A panic in a handler (`Panic`) ends the reader. ReadPump's deferred call closes the
  connection, Gin's recovery takes the panic, and the send on `hub.unregister` is skipped.
- `SendDirectMessage` dereferences its nil error on success, so
  `HandleDirectMessageAdd` always panics and the broadcast at
  `readHandlers.go` 183-211 is unreachable. A failing store is `DropFrame`.
- A frame whose publication fails, or whose asynchronous publication is lost, never
  reaches `topic`: `DropFrame`.
- The broadcast consumer fetches a message (`FetchBroadcast`), runs its handler, which may
  take up to 5 s (`HandlerDone`), and then commits it (`CommitBroadcast`). `Rebalance` may
  happen at any time: the reader starts again after the committed offset, or at the end of
  the topic while nothing is committed, but the loop goes on with what it has in hand. So a
  message is handled, and buffered, twice.
- The broadcast consumer keeps running. In the code it ends for good on a commit error or
  on a fetch error other than a cancel (`consumer.go` 136-153), and the manager only logs
  that; this is `ConsumerCrashes` of `ModuleServer`.
- A frame may be read after the connection was closed, as it may wait in the
  connection's buffer.
- The ticker for idle rooms is never forced: `IdleTick` may happen whenever the room
  is empty. In the code the ticker fires 15 minutes apart, at a time that has nothing
  to do with the clients, so the short counterexamples below correspond to a client that
  arrives at the tick of a room that has been empty.
- Typing frames are left out here: `Typing` has the coalescer, which only adds requests to
  `outBuffer`. That `outBuffer` and its broadcaster do here what `Typing` supposes of
  them is a theorem (`RoomIsTypingsRoom`).
- One module server is modelled. Each has its hub, and its consumer shares the group
  `test-broadcast-2` with the others: what they handle reaches their own hubs only, and this
  one misses it. Their commits for a partition that has moved back and forth, which may put its
  offset further back, are not modelled.

### BatchConsumer and ChatMessages

`committed`, `position` and `batch` hold offsets; `committed = -1` is a group without
a commit, for which `StartOffset: LastOffset` counts. `Rebalance`, `EndProcess` and
`StartConsumer` put the reader back to the committed offset. What kafka-go and the
broker do (cumulative commits, an offset that may move backwards, the asynchronous
writer) is external, and modelled from how the code uses it. `HandleBatch(F)` leaves
open what the handler gives back; `ChatMessages` conjoins the bulk insert:

- `BulkInsert`: unordered, each new document is written or fails; bad messages, failed
  ones and duplicate keys are given back. A redelivered message that was stored is a
  duplicate (its `_id` is the trace id), so it is dead lettered although it is stored.
- `BulkInsertFatal`: the insert fails as a whole after writing any part; only the
  bad messages are given back, and the error is not looked at.
- `PublishDeadLetters`, `PublishRejected`, `AsyncWrite`: the writer accepts the batch,
  or fails at once (nothing is committed, the batch is dropped, the loop goes on), and
  writes or gives up in the background. `End` loses what it has not written.
- `ExitCanceled`: a cancellation inside `FetchMessage` returns without the last batch,
  although the branch for `ctx.Done()` says "Process remaining batch before exit". It
  is not committed either, so it comes again.

Ghosts: `handled` (given to the batch handler), `skipped` (passed over by `LastOffset`),
`dropped` (a fatal insert, a rejected batch, a failed or lost dead letter).

### InviteUsage and JoinCount

`MakeInvitedMembersHandler` adds up the joins of a batch by code and writes each sum with
one UPDATE. A message is the code its member row names, or `NoCode` for all that counts
for no invite. `CountJoins`: every UPDATE succeeds. `CountFails`: one fails, the handler
returns at once with the whole batch; any of the others, a Go map having no order, may
have been written, and the failed one too if only its answer was lost. `HasDlq` is FALSE,
so `BatchConsumer` commits what was given back. `EndWhileCounting`: the process ends between
two UPDATEs or before the commit. Ghosts: `counted`, `uncounted` (left out by a failing
UPDATE). A duplicate event of Debezium's is not told apart from a second row.

`JoinCount` has two variables and two actions: somebody joins, or a batch is counted. The
count never falls, and does not exceed the joins times the deliveries. `InviteUsage`
refines it (`joins` is the number of messages that name the code). `Invites` takes its
`Count` as the step of everything between the member row and `used_count`, and its member
rows are the `Join`s of the same specification, which is proved. So the whole loop from
counter to member to event to count and back is covered by two modules that meet in
`JoinCount`.

### Invites

| in the model | in the code |
|---|---|
| `maxUses`, `usedCount`, `joined` | rows of `server_invites` and of `members` |
| `info`, `uses`, `filter` | the Info and UsedCount keys and the Bloom filter |
| `fill` | the goroutine of `CreateServerInvite`, which sets the two keys one after the other |
| `flight`, `seen` | the singleflight load of `GetServerInvite` and the row it has read |
| `step`, `user`, `code` | an accept request: look-up, check, `consumeScript`, insert, `rollbackScript`, and its repetition ("again") |
| `low`, `high` | ghosts: the counter was left below, or above, the seats taken |

A seat is a member who came in with the code, or a request between the consumption of a use
and the member row or the roll back. Every Redis call may fail, before or after it did its
work; so may the insert. `redis.go` 27-35 sets no `MaxRetries`, so go-redis repeats, by its
default, a command or a script whose answer it did not get. Hence a Set may be executed and
its caller stay where it was, which sets the key again later, perhaps over what others have
counted; a use may be consumed and consumed again (`Raise`); and the roll back of one use may
lower the counter twice (`RollbackAgain`). A command that Redis executes only after its client
gave up is the same as a request that takes that much longer.

`FillPanics`: with `max_uses` NULL the goroutine dereferences a nil pointer, which ends the
process. `low` is set where a count that lags behind, an insert that succeeded without an
answer, or a repeated roll back leaves the counter too low; `high` where a use is burnt.
Either Set also starts an Add of the code to the filter (`AddsLater`), as both pass the
filter's key. One server is modelled; codes of several servers do not meet.

### Catalog

| in the model | in the code |
|---|---|
| `row`, `owner`, `home` | rows of `servers` and `channels` |
| `members` | rows of `members`: each user's role in each server |
| `key`, `filter` | the Info keys, of which the code uses only whether they are there, NULL or missing, and the filters |
| `tasks` | the goroutines behind a create, an update, a delete and a Set |
| `flight` | `CacheManager.group`: one flight per key serves all who wait for it |
| `op`, `step`, `item`, `user` | a request of the core API; `user` only while an answer depends on it |
| `lost`, `entitled` | ghosts: live items whose key or filter entry was lost or never written; a request that began while the row was visible and no flight was under way |

Points a reader may trip over, all as in the code: `GetChannelByID`, `GetServerChannels` and
`GetServerMembers` answer "does not exist" when Redis fails or misses, and never refill a key
(`lost`); `UpdateChannelNameType` passes three arguments to a
statement with two parameters, so it always fails; `CreateServer` makes server, channel and
membership in three statements without a transaction, and a failure leaves what the earlier
ones made. An INSERT may be executed and its answer lost (`InsertUnanswered`): the row is
there, no goroutine is started for its key, and the request ends with an error. Members come in
as guests, too, by invites (`CreateServerMember`), at any time after the server's row is there:
`POST /invites` asks neither for ownership nor for membership, and the checks before the row are the
subject of `Invites`. A Set that the client repeats (`SetAgain`) sets the key and leaves the
goroutine where it was. `End` is the end of the process: requests and goroutines go.

### Accounts

A `users` row is its email; a refresh token is the account and the second it was made in, as
its claims hold nothing else, so two sign-ins within a second share a token and a session row
is looked up by it. A device is a cookie jar with at most one request under way. `CreateUser`
(with `tasks`, the goroutine that sets the user key once, without expiry), `CreateSession`,
`DeleteUserSession` may fail or do their work and lose the answer (a device that gets no
answer has no cookie). A token is made (`GenerateToken`, kept in `token`) before the
row is inserted (`CreateSession`), and may be seconds old by then; sign-out parses the token
once, and a token found valid then goes on to the session's lookup though it expires meanwhile
(`SignOut`), while an expired one only loses its cookie (`ForgetExpired`). `LookupFails` is
one step for "no row" and "no database", because the code does not tell them apart: Clerk's
handler then signs up. The refresh cookie is set for `/api/auth/refresh`, so sign-out
usually comes without it (`SignOutNoCookie`), and the session row stays until it expires.
`GetAccessTokenFromRefresh` only reads and is left out. `Tick` is one second;
`Validity` stands for seven days.

### ModuleServer

| in the model | in the code |
|---|---|
| `main` | `main`, `Initialize`, the HTTP server, `Shutdown` |
| `SetUp`, `Notify`, `StartSetsCancel`, `StartRunsConsumer` | a manager's goroutine and `Start`, which sets the cancel function and adds to the wait group without a lock |
| `Stop`, `StopPanics`, `HubStopPanics`, `StopReturns`, `StopTimesOut` | `Stop`; before `Start` the cancel function is nil, and the hub's goroutine recovers nothing |
| `Fetch`, `Handled`, `ConsumerEnds`, `ConsumerCrashes` | the consumer's loop, whose batches are `BatchConsumer`'s subject |
| `ConfigFails` ... `CheckStatus`, `Backoff` | `SetupConnector` and its retry loop |
| `Signal`, `SignalKills` | `signal.Notify`'s fan-out, and the default before the first of them |

Main waits for nobody: it may exit while consumers run. A Stop in the middle of Start
returns at once, as there is nothing in the wait group yet. A signal sent
between the managers' Notify and main's ends the consumers and leaves the process serving.
In `connector.go` the first delay is `baseDelay * (1 << uint(-1))`, which is 0, and
`rand.Intn(0)` panics; a PUT that is answered 201 counts as a failure.

### Typing

One RoomState. `HandleRoomTyping` looks the room up (nobody asks for membership), `AddTyper`
adds under the typing lock, later. A timer stands for the goroutine of its function too:
`Fire`, `Shed` or `PassCheck` (the load test, before the lock), `Grab` (under the lock),
`SendTyping`, `SendTimeout` or `Done`. Stopping a timer that has fired stops nothing, so flushes
overlap. Of `outBuffer` only its length counts; `OtherRequest` fills it, even after the room
was removed, if the handler found it before; `TakeRequests` is the broadcaster, and after
`RoomIdlesOut` nobody drains it. A `Timers` slot is used again only
when it is idle and not the current one, so fairness of one slot is fairness of one timer.
`total` stops counting at `MaxTotal`.

## 3. Runs

| run | module and cfg | instance | result |
|---|---|---|---|
| `hub_rooms` | MCWsHub, WsHubRooms | 2 clients, 2 rooms, 3 RoomStates, one forbidden pair, 3 frames, one leaver | 6 properties hold, about 1,960,000 states |
| `hub_delivery` | MCWsHub, WsHubDelivery | 2 joined members, 2 messages, one brought back, send buffers of 1, batches of 2 | 4 properties hold, about 292,000 states |
| `hub_broadcaster` | MCWsHub, WsHubBroadcaster | 2 clients, 1 room, 2 RoomStates | `RoomHasBroadcaster` violated |
| `hub_idle_removal` | MCWsHub, WsHubIdleRemoval | 2 clients, 1 room | `RemovedWhenEmpty` violated |
| `typing` | Typing, Typing | 2 users, 3 timers, 1 tracked typer, a buffer of 3 | 4 properties hold, about 116,000 states |
| `chat_consumer` | ChatMessages, ChatMessages | 3 messages of 2 kinds, batches of 2, 1 upset | 4 properties hold, about 424,000 states |
| `chat_loss` | ChatMessages, ChatMessagesLoss | the same | `DeadLetteredBeforeCommit` violated |
| `invite_usage` | InviteUsage, InviteUsage | 2 codes, 3 messages, batches of 2, 1 upset | 4 properties hold, about 127,000 states |
| `invites` | MCInvites, Invites | 1 code, 3 users, 2 requests, limits 0, 2 and none | 4 properties hold, about 1,801,000 states |
| `catalog` | MCCatalog, Catalog | 1 server, 1 channel, 2 users, 2 requests | 4 properties hold, about 2,875,000 states |
| `accounts` | MCAccounts, Accounts | 1 email, 2 devices, 3 seconds | 4 properties hold, about 1,453,000 states |
| `module_server` | ModuleServer, ModuleServer | the hub and 1 manager, 5 retries, 1 signal | 5 properties hold, about 80,000 states |

What the passing runs show:

- **hub_rooms.** `AdmittedOnly`: members, and frames in `send`, are of rooms the client may
  join, although admission is asked once and snapshots are stale. `ClientRoomIsCurrent`:
  no client is in two live rooms. `RemovesOwnRoom`: deletion by name hits the right
  object. `GoneMeansRemoved`: after `hub.run` has handled a client, no live room has it.
  `JoinedKeepsMembership`: a connected client that has joined stays a member of an
  object of that name. `ImplementsMembership`: the hub refines `RoomMembership`.
- **hub_delivery.** `PipelineInOrder`: from topic to `send`, messages stay in order, and the
  only one that is there twice, in any handler, buffer, batch or frame on the way to a member, is
  one that a rebalance brought back between its fetch and its commit; its second copy comes right
  after the first.
  `DeliveredOrDropped`: a message buffered in a served room is handed to each
  member or the member is disconnected; the room does not idle out while it is owed.
  `ConsumerProceeds`: the broadcast handler
  always returns (through its timeout if it must).
- **typing.** `FlushIsComing`: typers never wait without an armed timer or a flush that has yet
  to take them, unless a flush was shed. `NamesAgreeWithTotal`: what is named and what is
  counted belong together, in every flush that overlaps another. `OnlyTypersPostpone`: only
  shedding, or new typers for ever, put an announcement off.
- **chat_consumer.** `CommitCoversHandled`: the cumulative commit never covers a message no
  handler has seen. `NothingElseLost`: what is committed is stored, dead lettered, on its
  way there or lost in a listed way. `EventuallyHandled`: no message waits for a full batch.
- **invite_usage.** `CountedOncePerDelivery`: without an upset `used_count` is never too high,
  and each upset adds each join at most once more, though a rebalance leaves a batch behind
  and commits may go backwards. `JoinsCountedOrLeftOut`: a join the group is done with is
  counted, unless an UPDATE of its batch failed or `LastOffset` passed it over.
  `ImplementsJoinCount`: the refinement. That a batch does not wait for ever is
  `EventuallyHandled`'s subject, as the loop is the same.
- **invites.** `SeatsAreCounted`: the counter covers members and pending requests.
  `AdmissionsWithinLimit`: no more members than the limit. `NoUseIsBurnt`: the counter is not
  above the seats. Each holds but for the codes in `low` or `high`. A code gets into `low` in one
  of three ways: its counter was set from a count that lags behind the members, the answer to an
  insert was lost and the use rolled back, or a roll back was executed twice. It gets into `high`
  by a lost answer to a use, a failed roll back, a user who was a member already, a process that
  ends between use and member, or a count set too high. In this model, with the failures it has,
  nothing else moves the counter away from the seats.
- **catalog.** `HiddenOnlyWhenLost`: no order of the goroutines of a create, an update and a
  delete hides a live row for good; what does is an INSERT without an answer, a failed or
  interrupted Set or Add, or an expired key. `EntitledIsFound`: a request that starts when its
  row is visible and no flight of the key is under way is not told "does not exist" by a flight.
  One that joins a flight which has already missed is told so, in the model and in the code: no
  property speaks of it, and `PROJECT.json` lists it among the hazards without one.
  `AdminsMadeServer`: an admin is the owner of the server, and a channel was made for it. This
  is all that three statements without a transaction give: guests can be in a half-made server,
  its owner can be one of them, and the channel can be deleted later.
- **accounts.** `DevicesHaveSessions`: another device's sign-out takes a session away only
  if it holds the very same token. `SessionsHaveDevices`: a session without a holder came
  about in a listed way. `AccountsAreCached`: the user's key is there, on its way, or was lost.
- **module_server.** `StopMeansEnded`, `StopEndsConsumer`, `SignalEndsProcess`,
  `SyncedIsThere`: a set-up reported as done has its connector, unless somebody has deleted it
  since, whatever others did between its three requests.

Three runs state what a comment of the code says and end in a violation. They are the
findings in `PROJECT.json`:

1. `SubscribeRoom` (`subscribe.go:72`) makes a room without a broadcaster if the room
   idled out since `BuildRoomBroadcaster`; it drops the result, so `addClient` panics on
   nil, and later joiners find the room in the map and start no broadcaster either.
2. `roomBroadcaster` (`broadcasting.go:94`) deletes the room after releasing the lock it
   checked it under: a client that joined in between is in a forgotten RoomState and
   receives nothing.
3. A fatal bulk insert is committed (`consumer.go:277`): its messages are neither stored nor
   dead lettered, against "if issue then in dlq then commit".

What follows needs no interleaving to show and has no run of its own. The models do what the
code does, and the properties above name each as one of their exceptions:

- `SendDirectMessage` (`conversation.go:29`) panics on success, and the client is closed and
  never unregistered, so it stays in `RoomState.clients` (`Panic` of `WsHub`).
- `flushTyping` (`typing.go:59`) keeps its typers when it sheds load and arms no timer; for
  those users `AddTyper` then returns early, so they are not announced until somebody else
  types (`shed`), against `readme.md:115`.
- A failed UPDATE of `used_count` is not retried (`serverMembers.go:52`; `uncounted`),
  against `readme.md:93`.
- A key that is missing is answered "does not exist" without a query
  (`channel/query.go:22`; `lost`), against `readme.md:130`.
- The connector's retry loop (`connector.go:47`, "Retry Loop") never retries: the first delay is
  `baseDelay * (1 << uint(-1))`, which is 0, and `rand.Intn(0)` of its half panics, against the
  comments at 64-67 (`Shift`, `HalfDelay`, `Backoff` of `ModuleServer`).
- A broadcast message may reach the members twice (`consumer.go:153`; `repeated`).
- A use may be rolled back twice (`redis.go:27`; `low`).

**Bounds.** Two clients and two rooms give every pair of a client with another, with a
room it leaves and one it enters; three `RoomStates` let a room be removed and made again
beside another one. `SendCap = 1` and `MaxBatch` of 1 or 2 reach the full buffer and
the full batch at once; the code's 20, 100 and 50 behave alike at their limits.
`MaxFrames` bounds what each peer sends, hence the joins (two and one: a switch, or a
join beside a message). The delivery run starts with both members joined (`JoinedInit`),
a reachable state, as the way there is the first run's subject; two messages let
one overtake or follow the other, and a rebalance brings back either (`MaxRepeats = 1`), so
that up to three are on their way. In the consumers' runs three messages and
batches of two give a full and an incomplete batch; one upset is one rebalance or one
end of the process. Three typing timers allow one armed beside two flushes under way, one of
which holds a list; one tracked typer of two reaches the limit. In `invites` a limit of 2
with three users has somebody refused, and two requests race for the last seat, for a flight
and for a roll back; `MaxCount = 3` is one above the limit. In `catalog` two requests of two users race
on one server and one channel, as rows of different items never meet. In `accounts` three
seconds are the same second, another one, and the expiry (`Validity = 2`). In
`module_server` the hub differs from other managers, so one of each is enough; `MaxRetries`,
`BaseDelay` and `MaxDelay` are the code's (seconds). Users, requests and devices are symmetric
where the run has no temporal property. The proofs have none of these bounds.

**Fairness.** Weak fairness for each goroutine that can go on: the Go scheduler is fair and
no lock is held for ever. Nothing is assumed of peers (they need not read, send or
leave), of the idle ticker, of producers, or of restarts. In `ChatMessages` weak
fairness of the whole loop also stands for the batch timer and the broker's delivery.
In `Typing` each timer fires and each flush goes on, and the broadcaster drains. In
`ModuleServer` main, the managers and handlers go on weakly fairly; `ConsumerEnds` is strongly
fair, because the consumer comes back to its select again and again and `select` does not
pass over a cancelled context for ever. `InviteUsage`, `Invites`, `Catalog` and
`Accounts` state no liveness: the first has `ChatMessages`' loop, and the users of the others
need not do anything, and every call they wait for may fail.

**Deadlock** is checked in `invites`, `catalog` and `accounts`, where
somebody can always begin or tick or expire. Elsewhere the bounded systems stop: the peers have
sent their frames, no upset is left, the process has ended, nobody types.

## 4. Proofs

Each module of proofs rests on the named assumptions of the module it extends
(`WsHubAssumption`, `BatchConsumerAssumption`, `ChatMessagesAssumption`,
`InviteUsageAssumption`, `InvitesAssumption`, `CatalogAssumption`, `AccountsAssumption`,
`ModuleServerAssumption`, `TypingAssumption`); TLC evaluates them on every run. Every step
lemma goes over the disjuncts of Next one by one (`NextCases`).

**The hub.** Lemmas first say which actions touch which group of variables (`RoomSteps`,
`BufferSteps`, ...), so that each invariant is proved only against the actions that matter.

- `HubTypeCorrect`: types and capacities, one group of variables at a time.
- `RemovesOwnRoomCorrect`, from `RoomIdentity`: what the map has under a name bears it,
  and an object stays in the map until its own broadcaster has stopped. The property
  alone is not inductive: a second object of the name could be in the map.
- `AdmittedOnlyCorrect`, from `AdmittedInv`: the name asked for is followed through
  `SubscribeRoom`'s locals (`JoinNamed`), members and snapshots (`MembersAdmitted`),
  `Client.room` (`ClientsAdmitted`), messages in buffers (`MessagesNamed`) and frames
  (`FramesAdmitted`). `NamesStay` makes the names of objects constant.
- `ClientRoomIsCurrentCorrect`, from `Leaving`: between the look-up of the old room and
  the removal from it, the client is in no other live room, and before admission in none.
- `GoneMeansRemovedCorrect`, from `Departed`: between `hub.run`'s look-up and its removal,
  only the room it found can have the client.
- `JoinedKeepsMembershipCorrect`, from `Joined`.
- `ImplementsMembershipCorrect`: with `Leaving`, a client's place is unique (`WhereIs`);
  `RoomEntries` says that only `AddClient` brings it anywhere.
- `PipelineInOrderCorrect`, from `FeedInv`: ids in the topic grow (`TopicOrdered`), but for one
  that was brought back (`Precedes`), and what was brought back stays so (`RepeatedGrows`); what is
  buffered is older than all that is still to come, and a batch than its buffer
  (`BufferOrdered`); the frames of a room are in order and older than all that is to come
  (`FramesOrdered`), and older than what the room's served RoomState has yet to send
  (`ServedInOrder`). The property speaks of members; the invariant has to speak of every
  client, because frames stay in `send` after a client has left, and it may come back,
  perhaps to a second object of that name. `StagesFollow` leads from the invariant to the chain
  of stages.
- `OwedUntilSettledCorrect`, an action property: as long as a client stays connected, a step
  keeps what a served room owes it in the buffer or the batch, or hands it over, or has seen
  its send channel full; and a client whose channel was seen full stays due to be dropped.
  In particular neither idling out nor a stale snapshot loses it. It is the safety half of
  `DeliveredOrDropped`, for every message and any number of clients; that the waiting ends
  is left to TLC.

**The typing coalescer** (in `WsHubProofs`, too).

- `TypingTypeCorrect`; `FlushIsComingCorrect` and `NamesAgreeCorrect`, each inductive with the
  types: `AddTyper` arms a timer, and a timer or flush that has yet to take the typers remains
  one until it takes them; names and counts grow together up to the limit.
- `RoomIsTypingsRoom`: seen through `bpc`, as "not removed", and the length of `outBuffer`, each
  of `WsHub`'s RoomStates starts as `Typing`'s room does, and each step of the hub is one of
  `Typing`'s steps of the room (`OtherRequest`, `TakeRequests`, `RoomIdlesOut`) or changes
  nothing there. So the room around the coalescer is not an assumption of `Typing`'s.

**The batch consumers.** `BatchConsumerProofs` proves what both share about any step of the loop
(`ConsumerStep`), the handlers left open: the types, and one coverage argument, `Covers(S)`.
For a set S of settled offsets, every offset up to `committed` is in S; while the loop runs every
one up to `position`, and every one up to an offset of the batch, is in S or in the batch;
and at the commit the batch is in S. It is needed because the commit is cumulative: the
newest offset of a batch speaks for all before it. `CoversStep` keeps it, if the handlers
do their part.

- `ChatTypeCorrect`, `CommitCoversHandledCorrect` (S: handled or skipped),
  `NothingElseLostCorrect` (S: stored, dead lettered, in flight, dropped or skipped).
- `ReadIsDealtWithCorrect`: while the loop runs, whatever its reader has passed is in the batch
  still, or was handed to the handlers and is accounted for. It is the safety half of
  `EventuallyHandled` and, unlike the commits, it holds at once and not only when something
  is committed.
- `UsageTypeCorrect`, `JoinsCountedOrLeftOutCorrect` (S: no join, or counted, left out,
  skipped).
- `CountedOncePerDeliveryCorrect`, from `PassesInv`: `used_count` and what the
  uncounted batch holds are at most the joins times the upsets so far, and what this pass of the
  reader has read. The property alone forgets the batch and the reader, which carry the
  joins that are about to be counted.
- `ImplementsJoinCountCorrect`: `UsageSpec => ImplementsJoinCount`, from the same invariant. A
  message that names a code is a `Join`; a batch counted, in whole or in part, is a `Count`.
- `ChatConsumerLives`, `UsageConsumerLives` and, in `ModuleServerProofs`, `ManagedConsumerLives`:
  the loop ends only if its context was cancelled and between two batches, and this is what
  `ModuleServer` promises each manager but the hub's about a consumer. The three refinements of
  `ConsumerLife` join what the loop does with what Start, Stop and signals do around it.

**Invites.** `IInv` is the types, `RequestOK` (a request under way has a user and a code),
`RowOK` (a code without a row has no counter and no seats) and `SeatsOK`: counter and seats,
and seats and limit, including the pending ones. A request that may repeat its roll back has
given up its seat already (`Pending` leaves it out), which is why a second one counts. `AdmissionsWithinLimit` alone does not see
the requests that have their use and not yet their member. Seats are cardinalities, handled
with the theorems about finite sets. `InvitesImplementJoinCount`: seen as the number of
member rows per code and `used_count`, every step is `JoinCount`'s `Join` or `Count` or changes
neither; a row comes in once, for a known code, and is never taken back.

**Catalog.** `IInv` is the types, `RequestOK`, `CacheOK` (`NullsAreDeleted`: a NULL is set
for deleted rows only; `Findable`: the key comes before its filter entry), `EntitledOK` and
`MadeOK` (`CreationOK`: what `CreateServer` has done so far; `AdminsMadeServer`). An INSERT
without an answer is no obstacle to `Findable`, as it puts the item into `lost`.

**Accounts.** `IInv` is the types, `RequestOK` (a request under way has an account, one that
signs out has a cookie, one that inserts has made a token) and the three properties, which
are inductive together.

**ModuleServer.** `IInv` is the types, `StartOK` and `SetUpOK` (which steps of Start and of the
set-up have been done), `StopMeansEnded` and `ThereOK` (the answer on which success rests).
`StoppedForGoodCorrect` is the action property that goes with `StopMeansEnded`: once Stop has
returned without an error for a consumer that it has not overtaken, only the end of the process
makes that consumer anything but ended.

**Only model-checked**: liveness (`DeliveredOrDropped`, `ConsumerProceeds`,
`EventuallyHandled`, `StopEndsConsumer`, `SignalEndsProcess`,
`OnlyTypersPostpone`), which needs fairness and ENABLED. Every invariant that a passing run
checks, and both refinements, are theorems too. `OwedUntilSettled`,
`ReadIsDealtWith`, `StoppedForGood`, `RoomIsTypingsRoom`, the joins of `JoinCount` and the lives
of the consumers are proved and have no run of their own.

## 5. Plan

1. `WsHub`, `RoomMembership`, `BatchConsumer`, `ChatMessages`, with proofs: done.
2. `InviteUsage` and `JoinCount`, `Invites` on top of it, with proofs: done.
3. `Catalog`, `Accounts`, `ModuleServer`, with proofs: done.
4. `Typing`, with proofs, and its composition with `WsHub`'s rooms: done.
5. Order and delivery of the broadcast pipeline, the joins of `JoinCount`, `ConsumerLife`: proved.

Left, in this order: the other module servers of the broadcast group and their commits; `MGet` and the user names of the
typing frames; a `Catalog` with two channels and three requests; action properties of
`Catalog` and `Accounts` beside their invariants.

## 6. Not modelled

- Conversations: `GetOrCreateConversation` is one `INSERT ... ON CONFLICT` on the ordered
  pair of users, atomic in the database; the rest is queries.
- The refresh handler and the gateway's middleware read and answer; they change nothing. Reverse proxying and redis_rate are one call per request.
- The consumer's auto-commit loops, which no consumer is configured for. Of
  `runSingleManualCommit`, the broadcast consumer's loop, `WsHub` has fetch, handler, commit and
  rebalance for one module server, and `ModuleServer` its end on an error; commits of other
  servers for the same partition are left out.
- `MGet`, which the user store reads names with. `Hub.Shutdown`, the deprecated
  `broadcastRequest` and the one-message chat handler, which nobody calls.
- Handlers that only query, gRPC, configuration, metrics, logging, generated code and the
  unused Elasticsearch client have no control of their own.
- The contents of messages, apart from whether they parse; names, images and permissions of
  servers and channels; password hashes and signatures.
