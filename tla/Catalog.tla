------------------------------- MODULE Catalog -------------------------------
(***************************************************************************)
(* Servers and channels: their rows, the Info keys and Bloom filters that  *)
(* stand before them, and the requests of the core API.  A row is created  *)
(* first and its key is set by a goroutine that nobody waits for; a read   *)
(* asks the key whether the row exists and only then the database.  What   *)
(* the key holds is never used, so a key here is there, NULL or missing.   *)
(***************************************************************************)
EXTENDS Integers, FiniteSets

CONSTANTS
    Servers, Channels, Users, Requests,
    NoItem, NoUser

ASSUME CatalogAssumption ==
    /\ Servers \cap Channels = {}
    /\ NoItem \notin Servers \cup Channels
    /\ NoUser \notin Users

Items == Servers \cup Channels

VARIABLES
    row,       \* servers and channels: "unborn", "live" or "deleted"
    owner,     \* servers: owner_id
    home,      \* channels: server_id
    members,   \* members: the role of <<user, server>>, or "none"
    key,       \* the Info keys in Redis
    filter,    \* the items in the Bloom filters
    tasks,     \* goroutines: <<item, what they do next>>
    flight,    \* CacheManager.group: where the flight of an item's key is
    op,        \* which handler serves a request
    step,      \* what the request does next
    item,      \* the server or channel it is about
    user,      \* whose request it is, while that matters
    lost,      \* ghost: live items whose key or entry was lost or never written
    entitled   \* ghost: requests for a row whose key is there and stays

dbVars == <<row, owner, home, members>>
redisVars == <<key, filter>>
requestVars == <<op, step, item, user>>
ghosts == <<lost, entitled>>
vars == <<dbVars, redisVars, tasks, flight, requestVars, ghosts>>

Reads == {"GetChannel", "ListServer", "HasMember"}
Writes == {"CreateServer", "CreateChannel", "EditServer", "UpdateChannel", "DeleteChannel"}

TypeOK ==
    /\ row \in [Items -> {"unborn", "live", "deleted"}]
    /\ \A s \in Servers : row[s] # "deleted"
    /\ owner \in [Servers -> Users \cup {NoUser}]
    /\ home \in [Channels -> Servers \cup {NoItem}]
    /\ members \in [Users \X Servers -> {"none", "GUEST", "ADMIN"}]
    /\ key \in [Items -> {"missing", "value", "null"}]
    /\ filter \subseteq Items
    /\ tasks \subseteq Items \X {"value", "null", "add"}
    /\ flight \in [Items -> {"none", "filter", "get", "found", "missing", "failed"}]
    /\ op \in [Requests -> Reads \cup Writes \cup {"none"}]
    /\ step \in [Requests -> {"idle", "server", "channel", "member", "update",
                              "get", "wait", "load", "read"}]
    /\ item \in [Requests -> Items \cup {NoItem}]
    /\ user \in [Requests -> Users \cup {NoUser}]
    /\ lost \subseteq Items
    /\ entitled \subseteq Requests

Init ==
    /\ row = [i \in Items |-> "unborn"]
    /\ owner = [s \in Servers |-> NoUser]
    /\ home = [c \in Channels |-> NoItem]
    /\ members = [m \in Users \X Servers |-> "none"]
    /\ key = [i \in Items |-> "missing"]
    /\ filter = {}
    /\ tasks = {}
    /\ flight = [i \in Items |-> "none"]
    /\ op = [r \in Requests |-> "none"]
    /\ step = [r \in Requests |-> "idle"]
    /\ item = [r \in Requests |-> NoItem]
    /\ user = [r \in Requests |-> NoUser]
    /\ lost = {}
    /\ entitled = {}

Live(i) == row[i] = "live"

\* The filter and the key both say that the item exists.
Visible(i) == i \in filter /\ key[i] = "value"

-----------------------------------------------------------------------------
(***************************************************************************)
(* Requests.                                                               *)
(***************************************************************************)
At(r, o, s) == op[r] = o /\ step[r] = s

Goto(r, s) == step' = [step EXCEPT ![r] = s] /\ UNCHANGED <<op, item, user>>

Answer(r) ==
    /\ op' = [op EXCEPT ![r] = "none"]
    /\ step' = [step EXCEPT ![r] = "idle"]
    /\ item' = [item EXCEPT ![r] = NoItem]
    /\ user' = [user EXCEPT ![r] = NoUser]

\* The handlers' calls: nothing, a failure or a row that is not there.
AnswerAs(r) ==
    /\ Answer(r)
    /\ entitled' = entitled \ {r}
    /\ UNCHANGED <<dbVars, redisVars, tasks, flight, lost>>

\* A handler's request, about one of these items, with the first call it makes.
\* If the row's key is there and no flight that may have read it before is under
\* way, the request is to find it.
Begin(r, o, first, items, users) ==
    /\ step[r] = "idle"
    /\ op' = [op EXCEPT ![r] = o]
    /\ step' = [step EXCEPT ![r] = first]
    /\ \E i \in items :
        /\ item' = [item EXCEPT ![r] = i]
        /\ entitled' = IF o \in Reads /\ Live(i) /\ Visible(i) /\ flight[i] = "none"
                       THEN entitled \cup {r} ELSE entitled
    /\ \E u \in users : user' = [user EXCEPT ![r] = u]
    /\ UNCHANGED <<dbVars, redisVars, tasks, flight, lost>>

Anybody == {NoUser}

\* What a request can name: an id that exists or has existed.
Known(items) == {i \in items : row[i] # "unborn"}

CreateServer(r) == Begin(r, "CreateServer", "server", {NoItem}, Users)

CreateChannel(r) == Begin(r, "CreateChannel", "channel", Known(Servers), Anybody)

EditServer(r) == Begin(r, "EditServer", "update", Known(Servers), Users)

\* Its UPDATE has two parameters and is given three: nothing follows it.
UpdateChannelByID(r) == Begin(r, "UpdateChannel", "update", Known(Channels), Anybody)

\* Mutant: any id does for a delete.
DeleteAnyByID(r) == Begin(r, "DeleteChannel", "update", Known(Items), Anybody)

DeleteChannelByID(r) == Begin(r, "DeleteChannel", "update", Known(Channels), Anybody)

GetChannelByID(r) == Begin(r, "GetChannel", "get", Known(Channels), Anybody)

\* UserServerChannels and GetServerMembers, which differ in the rows they read.
ListServer(r) == Begin(r, "ListServer", "member", Known(Servers), Users)

\* The member cache store's check, for an invite.
HasUserServerMember(r) == Begin(r, "HasMember", "get", Known(Servers), Anybody)

Request(r) ==
    \/ CreateServer(r) \/ CreateChannel(r) \/ EditServer(r)
    \/ UpdateChannelByID(r) \/ DeleteChannelByID(r)
    \/ GetChannelByID(r) \/ ListServer(r) \/ HasUserServerMember(r)

-----------------------------------------------------------------------------
(***************************************************************************)
(* CacheManager.Set, whose error no caller looks at, and the keys' time to *)
(* live.  The client of Redis repeats a command whose answer it lost.      *)
(***************************************************************************)
\* Requests that can no longer count on the item's key.
Excused(i) == {r \in Requests : item[r] = i}

\* Mutant: Set is called without the filter's key.
AfterSetNothing(i) == {}

AfterSet(i) == {<<i, "add">>}

Lose(i) == lost' = IF Live(i) THEN lost \cup {i} ELSE lost

SetKey(i) == key' = [key EXCEPT ![i] = "value"]

\* The row exists: its key, and then a goroutine for the filter, unless there is
\* no answer.
SetValue(i, done) ==
    \/ /\ SetKey(i)
       /\ tasks' = (tasks \ done) \cup AfterSet(i)
       /\ lost' = lost \ {i}
    \/ /\ SetKey(i) \/ UNCHANGED key
       /\ tasks' = tasks \ done
       /\ Lose(i)

\* Redis has set the key, and the client is to set it again.
SetAgain(i) == SetKey(i) /\ UNCHANGED <<tasks, lost>>

RunValue(i) ==
    /\ <<i, "value">> \in tasks
    /\ SetValue(i, {<<i, "value">>}) \/ SetAgain(i)
    /\ UNCHANGED <<dbVars, filter, flight, requestVars, entitled>>

\* A NULL leaves the filter alone.
RunNull(i) ==
    /\ <<i, "null">> \in tasks
    /\ tasks' = tasks \ {<<i, "null">>} \/ UNCHANGED tasks
    /\ key' = [key EXCEPT ![i] = "null"] \/ UNCHANGED key
    /\ UNCHANGED <<dbVars, filter, flight, requestVars, ghosts>>

\* BloomManager.Add within two seconds.
RunAdd(i) ==
    /\ <<i, "add">> \in tasks
    /\ tasks' = tasks \ {<<i, "add">>}
    /\ \/ filter' = filter \cup {i} /\ UNCHANGED lost
       \/ (IF i \in filter THEN UNCHANGED lost ELSE Lose(i)) /\ UNCHANGED filter
    /\ UNCHANGED <<dbVars, key, flight, requestVars, entitled>>

Expire(i) ==
    /\ key[i] # "missing"
    /\ key' = [key EXCEPT ![i] = "missing"]
    /\ Lose(i)
    /\ entitled' = entitled \ Excused(i)
    /\ UNCHANGED <<dbVars, filter, tasks, flight, requestVars>>

-----------------------------------------------------------------------------
(***************************************************************************)
(* CacheManager.Get: one flight for a key, whose result every request that *)
(* joins it before it is over shares.                                      *)
(***************************************************************************)
Get(r) ==
    /\ step[r] = "get"
    /\ Goto(r, "wait")
    /\ flight' = [flight EXCEPT ![item[r]] = IF @ = "none" THEN "filter" ELSE @]
    /\ UNCHANGED <<dbVars, redisVars, tasks, ghosts>>

\* Mutant: an error of the filter is a no.
FilterErrorBlocks(i) == {"get", "missing"}

\* MightContain.  An error lets the flight go on to the key.
FilterAnswers(i) == IF i \in filter THEN {"get"} ELSE {"get", "missing"}

FlightFilter(i) ==
    /\ flight[i] = "filter"
    /\ \E next \in FilterAnswers(i) : flight' = [flight EXCEPT ![i] = next]
    /\ UNCHANGED <<dbVars, redisVars, tasks, requestVars, ghosts>>

FlightGet(i) ==
    /\ flight[i] = "get"
    /\ flight' = [flight EXCEPT ![i] = IF key[i] = "value" THEN "found" ELSE "missing"]
    /\ UNCHANGED <<dbVars, redisVars, tasks, requestVars, ghosts>>

FlightFails(i) ==
    /\ flight[i] = "get"
    /\ flight' = [flight EXCEPT ![i] = "failed"]
    /\ entitled' = entitled \ Excused(i)
    /\ UNCHANGED <<dbVars, redisVars, tasks, requestVars, lost>>

Waiting(i) == {r \in Requests : step[r] = "wait" /\ item[r] = i}

\* Who waits and takes the answer for "does not exist": everybody if there is
\* no key, and all but HasUserServerMember if Redis failed.
Refused(i) ==
    CASE flight[i] = "missing" -> Waiting(i)
      [] flight[i] = "failed" -> {r \in Waiting(i) : op[r] # "HasMember"}
      [] OTHER -> {}

\* The flight is over.  HasUserServerMember loads the row after an error; who
\* has found the key reads the database.
Land(i) ==
    LET refused == Refused(i)
        next == IF flight[i] = "failed" THEN "load" ELSE "read"
    IN
    /\ flight[i] \in {"found", "missing", "failed"}
    /\ flight' = [flight EXCEPT ![i] = "none"]
    /\ op' = [r \in Requests |-> IF r \in refused THEN "none" ELSE op[r]]
    /\ step' = [r \in Requests |->
                  CASE r \in refused -> "idle"
                    [] r \in Waiting(i) \ refused -> next
                    [] OTHER -> step[r]]
    /\ item' = [r \in Requests |-> IF r \in refused THEN NoItem ELSE item[r]]
    /\ user' = [r \in Requests |-> IF r \in refused THEN NoUser ELSE user[r]]
    /\ entitled' = entitled \ Waiting(i)
    /\ UNCHANGED <<dbVars, redisVars, tasks, lost>>

-----------------------------------------------------------------------------
(***************************************************************************)
(* The handlers that read.                                                 *)
(***************************************************************************)
\* GetServerMembershipForUser, before a server's channels or members are read.
CheckMembership(r) ==
    /\ At(r, "ListServer", "member")
    /\ members[<<user[r], item[r]>>] # "none"
    /\ step' = [step EXCEPT ![r] = "get"]
    /\ user' = [user EXCEPT ![r] = NoUser]
    /\ UNCHANGED <<dbVars, redisVars, tasks, flight, op, item, ghosts>>

\* GetServerByID after an error of Redis, and the key again.
LoadServer(r) ==
    /\ At(r, "HasMember", "load")
    /\ Live(item[r])
    /\ \/ SetValue(item[r], {}) /\ Goto(r, "read")
       \/ SetAgain(item[r]) /\ UNCHANGED requestVars
    /\ UNCHANGED <<dbVars, filter, flight, entitled>>

\* The database's answer: the row, the rows, or none.
ReadChannel(r) == At(r, "GetChannel", "read") /\ AnswerAs(r)

ReadServer(r) == At(r, "ListServer", "read") /\ AnswerAs(r)

ReadMember(r) == At(r, "HasMember", "read") /\ AnswerAs(r)

Read(r) == ReadChannel(r) \/ ReadServer(r) \/ ReadMember(r)

\* The database fails, or says that the user is no member or the row is gone.
ReadFails(r) ==
    /\ op[r] \in Reads /\ step[r] \in {"member", "load"}
    /\ AnswerAs(r)

-----------------------------------------------------------------------------
(***************************************************************************)
(* The handlers that write.                                                *)
(***************************************************************************)
\* Mutant: CreateServer forgets the General channel.
AfterServerNoChannel == "member"

AfterServer == "channel"

\* The goroutine behind a new or updated row, and the one behind a deleted one.
WriteAround(i) == <<i, "value">>

WriteNull(i) == <<i, "null">>

\* Without the answer of an INSERT that was executed there is no goroutine, and
\* the request fails.
InsertUnanswered(r, i) ==
    /\ lost' = lost \cup {i}
    /\ Answer(r)
    /\ UNCHANGED tasks

\* CreateServer: the server's row, the General channel's and the admin's.
InsertServer(r) ==
    /\ At(r, "CreateServer", "server")
    /\ \E s \in Servers :
        /\ row[s] = "unborn"
        /\ row' = [row EXCEPT ![s] = "live"]
        /\ owner' = [owner EXCEPT ![s] = user[r]]
        /\ \/ /\ tasks' = tasks \cup {WriteAround(s)}
              /\ item' = [item EXCEPT ![r] = s]
              /\ step' = [step EXCEPT ![r] = AfterServer]
              /\ UNCHANGED <<op, user, lost>>
           \/ InsertUnanswered(r, s)
    /\ UNCHANGED <<home, members, redisVars, flight, entitled>>

InsertChannel(r) ==
    /\ op[r] \in {"CreateServer", "CreateChannel"} /\ step[r] = "channel"
    /\ \E c \in Channels :
        /\ row[c] = "unborn"
        /\ row' = [row EXCEPT ![c] = "live"]
        /\ home' = [home EXCEPT ![c] = item[r]]
        /\ \/ /\ tasks' = tasks \cup {WriteAround(c)}
              /\ IF op[r] = "CreateServer" THEN Goto(r, "member") ELSE Answer(r)
              /\ UNCHANGED lost
           \/ InsertUnanswered(r, c)
    /\ UNCHANGED <<owner, members, redisVars, flight, entitled>>

\* CreateMember.  It fails if the user is a member: whoever knows the server's id
\* makes an invite for it, at any time, and whoever has the code accepts it.
InsertAdmin(r) ==
    /\ At(r, "CreateServer", "member")
    /\ members[<<user[r], item[r]>>] = "none"
    /\ members' = [members EXCEPT ![<<user[r], item[r]>>] = "ADMIN"]
    /\ Answer(r)
    /\ UNCHANGED <<row, owner, home, redisVars, tasks, flight, ghosts>>

\* What AcceptServerInvite inserts; what comes before it is in Invites.
CreateServerMember(u, s) ==
    /\ row[s] # "unborn"
    /\ members[<<u, s>>] = "none"
    /\ members' = [members EXCEPT ![<<u, s>>] = "GUEST"]
    /\ UNCHANGED <<row, owner, home, redisVars, tasks, flight, requestVars, ghosts>>

\* HasUserOwnServer, whose answer cannot change.
OwnsServer(r) == owner[item[r]] = user[r]

\* EditServer: the UPDATE and the key again.
UpdateServerNameImage(r) ==
    /\ At(r, "EditServer", "update")
    /\ OwnsServer(r)
    /\ Live(item[r])
    /\ tasks' = tasks \cup {WriteAround(item[r])}
    /\ Answer(r)
    /\ UNCHANGED <<dbVars, redisVars, flight, ghosts>>

\* DeleteChannelByID: without the answer of the DELETE there is no NULL.
HardDeleteChannel(r) ==
    LET c == item[r] IN
    /\ At(r, "DeleteChannel", "update")
    /\ Live(c)
    /\ row' = [row EXCEPT ![c] = "deleted"]
    /\ \/ tasks' = tasks \cup {WriteNull(c)}
       \/ UNCHANGED tasks
    /\ Answer(r)
    /\ entitled' = entitled \ Excused(c)
    /\ lost' = lost \ {c}
    /\ UNCHANGED <<owner, home, members, redisVars, flight>>

\* A statement fails, or finds no row: what went before it stays.
WriteFails(r) ==
    /\ op[r] \in Writes /\ step[r] # "idle"
    /\ AnswerAs(r)

-----------------------------------------------------------------------------
\* The process ends with its requests, its flights and its goroutines.
End ==
    /\ op' = [r \in Requests |-> "none"]
    /\ step' = [r \in Requests |-> "idle"]
    /\ item' = [r \in Requests |-> NoItem]
    /\ user' = [r \in Requests |-> NoUser]
    /\ flight' = [i \in Items |-> "none"]
    /\ tasks' = {}
    /\ lost' = lost \cup {i \in Items : Live(i) /\ ~Visible(i) /\ \E t \in tasks : t[1] = i}
    /\ entitled' = {}
    /\ UNCHANGED <<dbVars, redisVars>>

Run(i) == RunValue(i) \/ RunNull(i) \/ RunAdd(i)

Flight(i) == FlightFilter(i) \/ FlightGet(i) \/ FlightFails(i) \/ Land(i)

Serve(r) ==
    \/ Get(r) \/ CheckMembership(r) \/ LoadServer(r) \/ Read(r) \/ ReadFails(r)
    \/ InsertServer(r) \/ InsertChannel(r) \/ InsertAdmin(r)
    \/ UpdateServerNameImage(r) \/ HardDeleteChannel(r)
    \/ WriteFails(r)

Next ==
    \/ \E r \in Requests : Request(r) \/ Serve(r)
    \/ \E u \in Users, s \in Servers : CreateServerMember(u, s)
    \/ \E i \in Items : Run(i) \/ Flight(i) \/ Expire(i)
    \/ End

Spec == Init /\ [][Next]_vars

-----------------------------------------------------------------------------
(***************************************************************************)
(* A row is hidden from the reads only for a while, until the goroutine    *)
(* behind it has set its key and added it to the filter, or if the key or  *)
(* the entry was lost: an INSERT whose answer was lost, so that there is   *)
(* no goroutine, a Set or an Add that failed or died with the process, or  *)
(* a key that expired.  No order of the goroutines of a create, an update, *)
(* a delete and a refill hides it.                                         *)
(***************************************************************************)
HiddenOnlyWhenLost ==
    \A i \in Items :
        Live(i) => Visible(i) \/ i \in lost
                     \/ <<i, "value">> \in tasks \/ <<i, "add">> \in tasks

(***************************************************************************)
(* A request that starts when its row can be seen and no flight is under   *)
(* way does not get "does not exist" from a flight, not even from one that *)
(* another request has started, unless the key expires, Redis fails or the *)
(* row is deleted meanwhile.                                               *)
(***************************************************************************)
EntitledIsFound ==
    \A r \in entitled : step[r] = "wait" => flight[item[r]] \notin {"missing", "failed"}

(***************************************************************************)
(* Nobody is the admin of a server but its owner, and not of one that      *)
(* CreateServer left half made: a channel was made for it before (it may   *)
(* be deleted since).  This says nothing of guests, who come in by invites *)
(* to any server, half made or not, and its owner may be one of them.      *)
(***************************************************************************)
AdminsMadeServer ==
    \A u \in Users, s \in Servers :
        members[<<u, s>>] = "ADMIN" => owner[s] = u /\ \E c \in Channels : home[c] = s
=============================================================================
