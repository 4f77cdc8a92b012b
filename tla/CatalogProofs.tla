---------------------------- MODULE CatalogProofs ----------------------------
(***************************************************************************)
(* Proofs about Catalog: the type invariant, what rows the reads can miss, *)
(* what an entitled request is answered, and what CreateServer leaves.     *)
(***************************************************************************)
EXTENDS Catalog, TLAPS

USE DEF dbVars, redisVars, requestVars, ghosts, vars

-----------------------------------------------------------------------------
(***************************************************************************)
(* The parts of the inductive invariant.                                   *)
(***************************************************************************)
\* A request is about an item of the kind its handler works on.
RequestOK ==
    \A r \in Requests :
        /\ op[r] = "none" <=> step[r] = "idle"
        /\ op[r] \in {"CreateServer", "EditServer"} => user[r] \in Users
        /\ step[r] \in {"get", "wait", "load", "read"} => item[r] \in Items
        /\ op[r] = "DeleteChannel" => item[r] \in Channels
        /\ op[r] \in {"CreateChannel", "EditServer", "ListServer", "HasMember"}
              => item[r] \in Servers
        /\ step[r] = "channel" => op[r] \in {"CreateServer", "CreateChannel"}
        /\ step[r] \in {"channel", "member"} => item[r] \in Servers

\* What CreateServer has done so far.  Rows that do not exist yet refer to
\* nothing.
CreationOK ==
    /\ \A s \in Servers : row[s] = "unborn" => owner[s] = NoUser
    /\ \A c \in Channels : row[c] = "unborn" => home[c] = NoItem
    /\ \A r \in Requests :
        op[r] = "CreateServer" /\ step[r] \in {"channel", "member"} =>
            /\ owner[item[r]] = user[r]
            /\ step[r] = "member" => \E c \in Channels : home[c] = item[r]

\* A NULL is set for deleted rows only.
NullsAreDeleted ==
    \A i \in Items : key[i] = "null" \/ <<i, "null">> \in tasks => row[i] = "deleted"

\* HiddenOnlyWhenLost, with the key set before its filter entry.
Findable ==
    \A i \in Items :
        Live(i) => \/ i \in lost
                   \/ <<i, "value">> \in tasks
                   \/ key[i] = "value" /\ (i \in filter \/ <<i, "add">> \in tasks)

\* An entitled request's row stays visible, and no flight has missed it.
EntitledOK ==
    \A r \in entitled :
        /\ op[r] \in Reads /\ item[r] \in Items
        /\ Live(item[r]) /\ Visible(item[r])
        /\ flight[item[r]] \notin {"missing", "failed"}

\* The disjuncts of Next, one by one.
LEMMA NextCases ==
    ASSUME [Next]_vars
    PROVE  \/ \E r \in Requests : Request(r)
           \/ \E r \in Requests : Get(r)
           \/ \E r \in Requests : CheckMembership(r)
           \/ \E r \in Requests : LoadServer(r)
           \/ \E r \in Requests : Read(r)
           \/ \E r \in Requests : ReadFails(r)
           \/ \E r \in Requests : InsertServer(r)
           \/ \E r \in Requests : InsertChannel(r)
           \/ \E r \in Requests : InsertAdmin(r)
           \/ \E r \in Requests : UpdateServerNameImage(r)
           \/ \E r \in Requests : HardDeleteChannel(r)
           \/ \E r \in Requests : WriteFails(r)
           \/ \E u \in Users, s \in Servers : CreateServerMember(u, s)
           \/ \E i \in Items : RunValue(i)
           \/ \E i \in Items : RunNull(i)
           \/ \E i \in Items : RunAdd(i)
           \/ \E i \in Items : FlightFilter(i)
           \/ \E i \in Items : FlightGet(i)
           \/ \E i \in Items : FlightFails(i)
           \/ \E i \in Items : Land(i)
           \/ \E i \in Items : Expire(i)
           \/ End
           \/ UNCHANGED vars
  BY Zenon DEF Next, Serve, Run, Flight

-----------------------------------------------------------------------------
(***************************************************************************)
(* What a step does to the requests and to the cache.                      *)
(***************************************************************************)
RequestTypeOK ==
    /\ op \in [Requests -> Reads \cup Writes \cup {"none"}]
    /\ step \in [Requests -> {"idle", "server", "channel", "member", "update",
                              "get", "wait", "load", "read"}]
    /\ item \in [Requests -> Items \cup {NoItem}]
    /\ user \in [Requests -> Users \cup {NoUser}]

LEMMA AnswerTypes ==
    ASSUME TypeOK, NEW r \in Requests, Answer(r)
    PROVE  RequestTypeOK'
  BY DEF TypeOK, Answer, RequestTypeOK

LEMMA GotoTypes ==
    ASSUME TypeOK, NEW r \in Requests,
           NEW s \in {"idle", "server", "channel", "member", "update", "get", "wait",
                      "load", "read"},
           Goto(r, s)
    PROVE  RequestTypeOK'
  BY DEF TypeOK, Goto, RequestTypeOK

LEMMA AnswerRequestOK ==
    ASSUME TypeOK, RequestOK, NEW r \in Requests, Answer(r)
    PROVE  RequestOK'
  BY DEF TypeOK, RequestOK, Answer

\* The ways a Set can go: answered, given up, executed and to be repeated.
LEMMA SetValueCases ==
    ASSUME NEW i \in Items, NEW done, SetValue(i, done) \/ SetAgain(i)
    PROVE  \/ /\ key' = [key EXCEPT ![i] = "value"]
              /\ tasks' = (tasks \ done) \cup {<<i, "add">>}
              /\ lost' = lost \ {i}
           \/ /\ tasks' = tasks \ done
              /\ lost' = (IF Live(i) THEN lost \cup {i} ELSE lost)
              /\ key' = [key EXCEPT ![i] = "value"] \/ key' = key
           \/ /\ key' = [key EXCEPT ![i] = "value"]
              /\ tasks' = tasks /\ lost' = lost
  BY DEF SetValue, SetAgain, SetKey, Lose, AfterSet

LEMMA SetValueTypes ==
    ASSUME TypeOK, NEW i \in Items, NEW done, SetValue(i, done) \/ SetAgain(i)
    PROVE  /\ key' \in [Items -> {"missing", "value", "null"}]
           /\ tasks' \subseteq Items \X {"value", "null", "add"}
           /\ lost' \subseteq Items
  BY SetValueCases DEF TypeOK

\* The rows and the redis variables' types, which most requests leave alone.
LEMMA RestTypes ==
    ASSUME TypeOK, RequestTypeOK', entitled' \subseteq Requests,
           UNCHANGED <<dbVars, redisVars, tasks, flight, lost>>
    PROVE  TypeOK'
  BY DEF TypeOK, RequestTypeOK

LEMMA AnswerAsTypes ==
    ASSUME TypeOK, NEW r \in Requests, AnswerAs(r)
    PROVE  TypeOK'
  BY AnswerTypes, RestTypes DEF AnswerAs, TypeOK

\* What a request does once it has picked its item, and which items that can be.
Begun(r, o, s, i) ==
    /\ step[r] = "idle"
    /\ op' = [op EXCEPT ![r] = o]
    /\ step' = [step EXCEPT ![r] = s]
    /\ item' = [item EXCEPT ![r] = i]
    /\ entitled' = IF o \in Reads /\ Live(i) /\ Visible(i) /\ flight[i] = "none"
                   THEN entitled \cup {r} ELSE entitled
    /\ \E u \in Users \cup {NoUser} :
        /\ user' = [user EXCEPT ![r] = u]
        /\ o \in {"CreateServer", "EditServer"} => u \in Users
    /\ UNCHANGED <<dbVars, redisVars, tasks, flight, lost>>

Fits(o, s, i) ==
    /\ o \in Reads => i \in Items
    /\ o = "CreateServer" => s = "server" /\ i = NoItem
    /\ o = "DeleteChannel" => i \in Channels
    /\ o \in {"CreateChannel", "EditServer", "ListServer", "HasMember"} => i \in Servers
    /\ i \in Items \cup {NoItem}
    /\ s \in {"server", "channel", "update", "get", "member"}
    /\ s = "get" => i \in Items
    /\ s = "channel" => o = "CreateChannel"
    /\ s = "member" => o = "ListServer"

LEMMA BeginBegun ==
    ASSUME NEW r \in Requests, NEW o, NEW s, NEW items, NEW users,
           users \subseteq Users \cup {NoUser},
           o \in {"CreateServer", "EditServer"} => users = Users,
           Begin(r, o, s, items, users)
    PROVE  \E i \in items : Begun(r, o, s, i)
<1>1. PICK i \in items :
          /\ item' = [item EXCEPT ![r] = i]
          /\ entitled' = IF o \in Reads /\ Live(i) /\ Visible(i) /\ flight[i] = "none"
                         THEN entitled \cup {r} ELSE entitled
  BY Zenon DEF Begin
<1>2. PICK u \in users : user' = [user EXCEPT ![r] = u]
  BY Zenon DEF Begin
<1>3. u \in Users \cup {NoUser} /\ (o \in {"CreateServer", "EditServer"} => u \in Users)
  BY <1>2
<1> QED
  BY <1>1, <1>2, <1>3, Zenon DEF Begin, Begun

LEMMA RequestCases ==
    ASSUME NEW r \in Requests, Request(r)
    PROVE  \E o \in Reads \cup Writes : \E s, i : Begun(r, o, s, i) /\ Fits(o, s, i)
<1> USE DEF Reads, Writes, Anybody
<1>1. CASE CreateServer(r)
  <2>1. Begun(r, "CreateServer", "server", NoItem)
    BY <1>1, BeginBegun DEF CreateServer
  <2>2. Fits("CreateServer", "server", NoItem)
    BY DEF Fits
  <2> QED
    BY <2>1, <2>2
<1>2. CASE CreateChannel(r)
  <2>1. PICK i \in Known(Servers) : Begun(r, "CreateChannel", "channel", i)
    BY <1>2, BeginBegun DEF CreateChannel
  <2>2. Fits("CreateChannel", "channel", i)
    BY DEF Fits, Known, Items
  <2> QED
    BY <2>1, <2>2
<1>3. CASE EditServer(r)
  <2>1. PICK i \in Known(Servers) : Begun(r, "EditServer", "update", i)
    BY <1>3, BeginBegun DEF EditServer
  <2>2. Fits("EditServer", "update", i)
    BY DEF Fits, Known, Items
  <2> QED
    BY <2>1, <2>2
<1>4. CASE UpdateChannelByID(r)
  <2>1. PICK i \in Known(Channels) : Begun(r, "UpdateChannel", "update", i)
    BY <1>4, BeginBegun DEF UpdateChannelByID
  <2>2. Fits("UpdateChannel", "update", i)
    BY DEF Fits, Known, Items
  <2> QED
    BY <2>1, <2>2
<1>5. CASE DeleteChannelByID(r)
  <2>1. PICK i \in Known(Channels) : Begun(r, "DeleteChannel", "update", i)
    BY <1>5, BeginBegun DEF DeleteChannelByID
  <2>2. Fits("DeleteChannel", "update", i)
    BY DEF Fits, Known, Items
  <2> QED
    BY <2>1, <2>2
<1>6. CASE GetChannelByID(r)
  <2>1. PICK i \in Known(Channels) : Begun(r, "GetChannel", "get", i)
    BY <1>6, BeginBegun DEF GetChannelByID
  <2>2. Fits("GetChannel", "get", i)
    BY DEF Fits, Known, Items
  <2> QED
    BY <2>1, <2>2
<1>7. CASE ListServer(r)
  <2>1. PICK i \in Known(Servers) : Begun(r, "ListServer", "member", i)
    BY <1>7, BeginBegun DEF ListServer
  <2>2. Fits("ListServer", "member", i)
    BY DEF Fits, Known, Items
  <2> QED
    BY <2>1, <2>2
<1>8. CASE HasUserServerMember(r)
  <2>1. PICK i \in Known(Servers) : Begun(r, "HasMember", "get", i)
    BY <1>8, BeginBegun DEF HasUserServerMember
  <2>2. Fits("HasMember", "get", i)
    BY DEF Fits, Known, Items
  <2> QED
    BY <2>1, <2>2
<1> QED
  BY <1>1, <1>2, <1>3, <1>4, <1>5, <1>6, <1>7, <1>8 DEF Request

LEMMA InitInv ==
    Init => TypeOK /\ RequestOK /\ CreationOK /\ NullsAreDeleted /\ Findable /\ EntitledOK
              /\ AdminsMadeServer
<1> SUFFICES ASSUME Init
             PROVE TypeOK /\ RequestOK /\ CreationOK /\ NullsAreDeleted /\ Findable
                     /\ EntitledOK /\ AdminsMadeServer
  OBVIOUS
<1> USE DEF Init
<1>1. TypeOK
  BY DEF TypeOK, Items
<1>2. RequestOK /\ CreationOK /\ EntitledOK
  BY DEF RequestOK, CreationOK, EntitledOK
<1>3. NullsAreDeleted /\ Findable /\ AdminsMadeServer
  BY DEF NullsAreDeleted, Findable, AdminsMadeServer, Live
<1> QED
  BY <1>1, <1>2, <1>3

-----------------------------------------------------------------------------
LEMMA NextTypeOK == TypeOK /\ RequestOK /\ [Next]_vars => TypeOK'
<1> SUFFICES ASSUME TypeOK, RequestOK, [Next]_vars PROVE TypeOK'
  OBVIOUS
<1>1. ASSUME NEW r \in Requests, Request(r) PROVE TypeOK'
  <2>1. PICK o, s, i : o \in Reads \cup Writes /\ Begun(r, o, s, i) /\ Fits(o, s, i)
    BY <1>1, RequestCases
  <2>2. RequestTypeOK'
    BY <2>1 DEF Begun, Fits, TypeOK, RequestTypeOK
  <2>3. entitled' \subseteq Requests
    BY <2>1 DEF Begun, TypeOK
  <2> QED
    BY <2>1, <2>2, <2>3, RestTypes DEF Begun
<1>2. ASSUME NEW r \in Requests, Get(r) PROVE TypeOK'
  <2>1. RequestTypeOK'
    BY <1>2, GotoTypes DEF Get
  <2>2. flight' \in [Items -> {"none", "filter", "get", "found", "missing", "failed"}]
    BY <1>2 DEF Get, TypeOK
  <2> QED
    BY <1>2, <2>1, <2>2 DEF Get, TypeOK, RequestTypeOK
<1>3. ASSUME NEW r \in Requests, CheckMembership(r) PROVE TypeOK'
  <2>1. RequestTypeOK' /\ entitled' \subseteq Requests
    BY <1>3 DEF CheckMembership, TypeOK, RequestTypeOK
  <2> QED
    BY <1>3, <2>1, RestTypes DEF CheckMembership
<1>4. ASSUME NEW r \in Requests, LoadServer(r) PROVE TypeOK'
  <2>1. RequestTypeOK' /\ UNCHANGED <<dbVars, filter, flight, entitled>>
    <3>1. CASE UNCHANGED requestVars
      BY <1>4, <3>1 DEF LoadServer, TypeOK, RequestTypeOK
    <3>2. CASE Goto(r, "read")
      BY <1>4, <3>2, GotoTypes DEF LoadServer
    <3> QED
      BY <1>4, <3>1, <3>2 DEF LoadServer
  <2>2. item[r] \in Items
    BY <1>4 DEF LoadServer, At, RequestOK
  <2>3. /\ key' \in [Items -> {"missing", "value", "null"}]
        /\ tasks' \subseteq Items \X {"value", "null", "add"}
        /\ lost' \subseteq Items
    BY <1>4, <2>2, SetValueTypes DEF LoadServer
  <2> QED
    BY <2>1, <2>3 DEF TypeOK, RequestTypeOK
<1>5. ASSUME NEW r \in Requests, Read(r) \/ ReadFails(r) \/ WriteFails(r) PROVE TypeOK'
  BY <1>5, AnswerAsTypes DEF Read, ReadChannel, ReadServer, ReadMember, ReadFails, WriteFails
<1>6. ASSUME NEW r \in Requests, InsertServer(r) PROVE TypeOK'
  <2>1. PICK s \in Servers :
            /\ row[s] = "unborn"
            /\ row' = [row EXCEPT ![s] = "live"]
            /\ owner' = [owner EXCEPT ![s] = user[r]]
            /\ \/ /\ tasks' = tasks \cup {<<s, "value">>}
                  /\ item' = [item EXCEPT ![r] = s]
                  /\ step' = [step EXCEPT ![r] = "channel"]
                  /\ UNCHANGED <<op, user, lost>>
               \/ InsertUnanswered(r, s)
    BY <1>6 DEF WriteAround, InsertServer, AfterServer
  <2>2. UNCHANGED <<home, members, redisVars, flight, entitled>>
    BY <1>6 DEF InsertServer
  <2>3. s \in Items
    BY DEF Items
  <2>4. row' \in [Items -> {"unborn", "live", "deleted"}] /\ \A x \in Servers : row'[x] # "deleted"
    BY <2>1, <2>3 DEF TypeOK, Items
  <2>5. /\ owner' \in [Servers -> Users \cup {NoUser}]
        /\ tasks' \subseteq Items \X {"value", "null", "add"}
        /\ lost' \subseteq Items
    BY <2>1, <2>3 DEF TypeOK, InsertUnanswered
  <2>6. RequestTypeOK'
    <3>1. CASE InsertUnanswered(r, s)
      BY <3>1, AnswerTypes DEF InsertUnanswered
    <3> QED
      BY <2>1, <2>3, <3>1 DEF TypeOK, RequestTypeOK
  <2> QED
    BY <2>2, <2>4, <2>5, <2>6 DEF TypeOK, RequestTypeOK
<1>7. ASSUME NEW r \in Requests, InsertChannel(r) PROVE TypeOK'
  <2>1. PICK c \in Channels :
            /\ row[c] = "unborn"
            /\ row' = [row EXCEPT ![c] = "live"]
            /\ home' = [home EXCEPT ![c] = item[r]]
            /\ \/ /\ tasks' = tasks \cup {<<c, "value">>}
                  /\ Goto(r, "member") \/ Answer(r)
                  /\ UNCHANGED lost
               \/ InsertUnanswered(r, c)
    BY <1>7 DEF WriteAround, InsertChannel
  <2>2. RequestTypeOK' /\ UNCHANGED <<owner, members, redisVars, flight, entitled>>
    BY <1>7, <2>1, GotoTypes, AnswerTypes DEF InsertUnanswered, InsertChannel
  <2>3. c \in Items
    BY DEF Items
  <2>4. row' \in [Items -> {"unborn", "live", "deleted"}] /\ \A x \in Servers : row'[x] # "deleted"
    BY <2>1, <2>3 DEF TypeOK, Items
  <2>5. /\ home' \in [Channels -> Servers \cup {NoItem}]
        /\ tasks' \subseteq Items \X {"value", "null", "add"}
        /\ lost' \subseteq Items
    BY <1>7, <2>1, <2>3 DEF TypeOK, InsertUnanswered, InsertChannel, RequestOK
  <2> QED
    BY <2>1, <2>2, <2>4, <2>5 DEF TypeOK, RequestTypeOK
<1>8. ASSUME NEW r \in Requests, InsertAdmin(r) PROVE TypeOK'
  <2>1. members' \in [Users \X Servers -> {"none", "GUEST", "ADMIN"}]
    BY <1>8 DEF InsertAdmin, TypeOK
  <2> QED
    BY <1>8, <2>1, AnswerTypes DEF InsertAdmin, TypeOK, RequestTypeOK
<1>9. ASSUME NEW r \in Requests, UpdateServerNameImage(r) PROVE TypeOK'
  <2>1. item[r] \in Items
    BY <1>9 DEF WriteAround, UpdateServerNameImage, At, RequestOK, Items
  <2>2. tasks' \subseteq Items \X {"value", "null", "add"}
    BY <1>9, <2>1 DEF WriteAround, UpdateServerNameImage, TypeOK
  <2> QED
    BY <1>9, <2>2, AnswerTypes DEF WriteAround, UpdateServerNameImage, TypeOK, RequestTypeOK
<1>10. ASSUME NEW r \in Requests, HardDeleteChannel(r) PROVE TypeOK'
  <2>1. item[r] \in Channels /\ item[r] \in Items
    BY <1>10 DEF WriteNull, HardDeleteChannel, At, RequestOK, Items
  <2>2. row' \in [Items -> {"unborn", "live", "deleted"}] /\ \A x \in Servers : row'[x] # "deleted"
    BY <1>10, <2>1, CatalogAssumption DEF WriteNull, HardDeleteChannel, TypeOK
  <2>3. tasks' \subseteq Items \X {"value", "null", "add"} /\ entitled' \subseteq Requests
    BY <1>10, <2>1 DEF WriteNull, HardDeleteChannel, TypeOK
  <2> QED
    BY <1>10, <2>2, <2>3, AnswerTypes DEF WriteNull, HardDeleteChannel, TypeOK, RequestTypeOK
<1>11. ASSUME NEW i \in Items, RunValue(i) PROVE TypeOK'
  BY <1>11, SetValueTypes DEF RunValue, TypeOK
<1>12. ASSUME NEW i \in Items, RunNull(i) PROVE TypeOK'
  BY <1>12 DEF RunNull, TypeOK
<1>13. ASSUME NEW i \in Items, RunAdd(i) PROVE TypeOK'
  BY <1>13 DEF RunAdd, Lose, TypeOK
<1>14. ASSUME NEW i \in Items, FlightFilter(i) \/ FlightGet(i) \/ FlightFails(i) PROVE TypeOK'
  <2>1. flight' \in [Items -> {"none", "filter", "get", "found", "missing", "failed"}]
    BY <1>14 DEF FlightFilter, FlightGet, FlightFails, FilterAnswers, TypeOK
  <2>2. entitled' \subseteq Requests
    BY <1>14 DEF FlightFilter, FlightGet, FlightFails, TypeOK
  <2> QED
    BY <1>14, <2>1, <2>2 DEF FlightFilter, FlightGet, FlightFails, TypeOK
<1>15. ASSUME NEW i \in Items, Land(i) PROVE TypeOK'
  <2>1. /\ flight' = [flight EXCEPT ![i] = "none"]
        /\ entitled' = entitled \ Waiting(i)
        /\ UNCHANGED <<dbVars, redisVars, tasks, lost>>
    BY <1>15 DEF Land
  <2>2. RequestTypeOK'
    BY <1>15 DEF Land, TypeOK, RequestTypeOK
  <2> QED
    BY <2>1, <2>2 DEF TypeOK, RequestTypeOK
<1>16. ASSUME NEW i \in Items, Expire(i) PROVE TypeOK'
  BY <1>16 DEF Expire, Lose, TypeOK
<1>17. CASE End
  BY <1>17 DEF End, TypeOK
<1>18. CASE UNCHANGED vars
  BY <1>18 DEF TypeOK
<1>19. ASSUME NEW u \in Users, NEW s \in Servers, CreateServerMember(u, s) PROVE TypeOK'
  BY <1>19 DEF CreateServerMember, TypeOK
<1> QED
  BY <1>1, <1>2, <1>3, <1>4, <1>5, <1>6, <1>7, <1>8, <1>9, <1>10, <1>11, <1>12, <1>13,
     <1>14, <1>15, <1>16, <1>17, <1>18, <1>19, NextCases, Zenon

-----------------------------------------------------------------------------
(***************************************************************************)
(* Requests.                                                               *)
(***************************************************************************)
\* What a flight does to the requests that wait for it.
LEMMA LandRequests ==
    ASSUME TypeOK, NEW i \in Items, Land(i), NEW r \in Requests
    PROVE  \/ op'[r] = "none" /\ step'[r] = "idle" /\ item'[r] = NoItem
           \/ /\ op'[r] = op[r] /\ item'[r] = item[r] /\ user'[r] = user[r]
              /\ \/ step'[r] = step[r]
                 \/ step[r] = "wait" /\ step'[r] \in {"load", "read"}
  BY DEF Land, Waiting

LEMMA NextRequestOK == TypeOK /\ RequestOK /\ [Next]_vars => RequestOK'
<1> SUFFICES ASSUME TypeOK, RequestOK, [Next]_vars PROVE RequestOK'
  OBVIOUS
<1>1. ASSUME NEW r \in Requests, Request(r) PROVE RequestOK'
  <2>1. PICK o, s, i : o \in Reads \cup Writes /\ Begun(r, o, s, i) /\ Fits(o, s, i)
    BY <1>1, RequestCases
  <2>2. PICK u : /\ user' = [user EXCEPT ![r] = u]
                 /\ o \in {"CreateServer", "EditServer"} => u \in Users
    BY <2>1 DEF Begun
  <2>3. /\ o = "DeleteChannel" => i \in Channels
        /\ o \in {"CreateChannel", "EditServer", "ListServer", "HasMember"} => i \in Servers
        /\ s = "get" => i \in Items
        /\ s = "channel" => o = "CreateChannel"
        /\ s = "member" => o = "ListServer"
        /\ s \notin {"idle", "wait", "load", "read"} /\ o # "none"
    BY <2>1 DEF Fits, Reads, Writes
  <2>4. /\ op' = [op EXCEPT ![r] = o] /\ step' = [step EXCEPT ![r] = s]
        /\ item' = [item EXCEPT ![r] = i] /\ user' = [user EXCEPT ![r] = u]
    BY <2>1, <2>2 DEF Begun
  <2>5. \A x \in Requests \ {r} :
            op'[x] = op[x] /\ step'[x] = step[x] /\ item'[x] = item[x] /\ user'[x] = user[x]
    BY <2>4 DEF TypeOK
  <2>6. op'[r] = o /\ step'[r] = s /\ item'[r] = i /\ user'[r] = u
    BY <2>4 DEF TypeOK
  <2> QED
    BY <2>2, <2>3, <2>5, <2>6 DEF RequestOK
<1>2. ASSUME NEW r \in Requests, Get(r) PROVE RequestOK'
  BY <1>2 DEF Get, Goto, RequestOK, TypeOK
<1>3. ASSUME NEW r \in Requests, CheckMembership(r) PROVE RequestOK'
  BY <1>3 DEF CheckMembership, At, RequestOK, TypeOK, Items
<1>4. ASSUME NEW r \in Requests, LoadServer(r) PROVE RequestOK'
  <2>1. At(r, "HasMember", "load") /\ (Goto(r, "read") \/ UNCHANGED requestVars)
    BY <1>4 DEF LoadServer
  <2> QED
    BY <2>1 DEF At, Goto, RequestOK, TypeOK
<1>5. ASSUME NEW r \in Requests,
             \/ Read(r) \/ ReadFails(r) \/ WriteFails(r) \/ InsertAdmin(r)
             \/ UpdateServerNameImage(r) \/ HardDeleteChannel(r)
      PROVE RequestOK'
  BY <1>5, AnswerRequestOK DEF Read, ReadChannel, ReadServer, ReadMember,
        ReadFails, WriteFails, InsertAdmin,
        UpdateServerNameImage, HardDeleteChannel, AnswerAs
<1>6. ASSUME NEW r \in Requests, InsertServer(r) PROVE RequestOK'
  <2>1. op[r] = "CreateServer" /\ step[r] = "server"
    BY <1>6 DEF InsertServer, At
  <2>2. PICK s \in Servers :
            \/ /\ item' = [item EXCEPT ![r] = s] /\ step' = [step EXCEPT ![r] = "channel"]
               /\ UNCHANGED <<op, user>>
            \/ Answer(r)
    BY <1>6 DEF InsertServer, InsertUnanswered, AfterServer
  <2>3. CASE Answer(r)
    BY <2>3, AnswerRequestOK
  <2> QED
    BY <2>1, <2>2, <2>3 DEF RequestOK, TypeOK
<1>7. ASSUME NEW r \in Requests, InsertChannel(r) PROVE RequestOK'
  <2>1. /\ step[r] = "channel"
        /\ Goto(r, "member") \/ Answer(r)
    BY <1>7 DEF InsertUnanswered, InsertChannel
  <2>2. CASE Goto(r, "member")
    BY <2>1, <2>2 DEF Goto, RequestOK, TypeOK
  <2> QED
    BY <2>1, <2>2, AnswerRequestOK
<1>8. ASSUME NEW i \in Items, Land(i) PROVE RequestOK'
  BY <1>8, LandRequests DEF RequestOK
<1>9. CASE End
  BY <1>9 DEF End, RequestOK
<1>10. CASE UNCHANGED requestVars
  BY <1>10 DEF RequestOK
<1>11. ASSUME NEW i \in Items,
              \/ RunValue(i) \/ RunNull(i) \/ RunAdd(i) \/ FlightFilter(i)
              \/ FlightGet(i) \/ FlightFails(i) \/ Expire(i)
       PROVE RequestOK'
  BY <1>10, <1>11 DEF RunValue, RunNull, RunAdd, FlightFilter, FlightGet, FlightFails, Expire
<1>12. CASE UNCHANGED vars
  BY <1>10, <1>12
<1>13. ASSUME NEW u \in Users, NEW s \in Servers, CreateServerMember(u, s) PROVE RequestOK'
  BY <1>10, <1>13 DEF CreateServerMember
<1> QED
  BY <1>1, <1>2, <1>3, <1>4, <1>5, <1>6, <1>7, <1>8, <1>9, <1>11, <1>12, <1>13, NextCases,
     Zenon

-----------------------------------------------------------------------------
(***************************************************************************)
(* The cache.                                                              *)
(***************************************************************************)
CacheOK == NullsAreDeleted /\ Findable

LEMMA CacheKept ==
    ASSUME CacheOK, UNCHANGED <<row, key, filter, tasks, lost>>
    PROVE  CacheOK'
  BY DEF CacheOK, NullsAreDeleted, Findable, Live

\* The key is set, or the item is lost; "add" and "value" tasks of other items
\* stay.
LEMMA SetValueCache ==
    ASSUME TypeOK, CacheOK, NEW i \in Items, NEW done, done \subseteq {<<i, "value">>},
           SetValue(i, done) \/ SetAgain(i), UNCHANGED <<row, filter>>
    PROVE  CacheOK'
<1>1. NullsAreDeleted'
  <2>1. /\ key' = [key EXCEPT ![i] = "value"] \/ key' = key
        /\ \A j \in Items : <<j, "null">> \in tasks' => <<j, "null">> \in tasks
    BY SetValueCases
  <2> QED
    BY <2>1 DEF CacheOK, NullsAreDeleted, TypeOK
<1>2. ASSUME NEW j \in Items, Live(j)'
      PROVE \/ j \in lost'
            \/ <<j, "value">> \in tasks'
            \/ key'[j] = "value" /\ (j \in filter' \/ <<j, "add">> \in tasks')
  <2>1. CASE j = i
    <3>1. Live(i) /\ \/ i \in lost
                     \/ <<i, "value">> \in tasks
                     \/ key[i] = "value" /\ (i \in filter \/ <<i, "add">> \in tasks)
      BY <1>2, <2>1 DEF CacheOK, Findable, Live
    <3>2. \/ lost' = lost \cup {i}
          \/ key'[i] = "value" /\ <<i, "add">> \in tasks'
          \/ key'[i] = "value" /\ tasks' = tasks /\ lost' = lost
      BY <3>1, SetValueCases DEF TypeOK
    <3> QED
      BY <2>1, <3>1, <3>2
  <2>2. CASE j # i
    <3>1. \/ j \in lost
          \/ <<j, "value">> \in tasks
          \/ key[j] = "value" /\ (j \in filter \/ <<j, "add">> \in tasks)
      BY <1>2 DEF CacheOK, Findable, Live
    <3>2. /\ key'[j] = key[j] /\ (j \in lost => j \in lost')
          /\ \A x \in {"value", "add"} : <<j, x>> \in tasks => <<j, x>> \in tasks'
      BY <2>2, SetValueCases DEF TypeOK
    <3> QED
      BY <3>1, <3>2
  <2> QED
    BY <2>1, <2>2
<1> QED
  BY <1>1, <1>2 DEF CacheOK, Findable

\* A row comes to life with a task that sets its key, or without an answer.
LEMMA InsertCache ==
    ASSUME TypeOK, CacheOK, NEW i \in Items, row[i] # "deleted",
           row' = [row EXCEPT ![i] = "live"],
           \/ tasks' = tasks \cup {<<i, "value">>} /\ lost' = lost
           \/ tasks' = tasks /\ lost' = lost \cup {i},
           UNCHANGED <<key, filter>>
    PROVE  CacheOK'
  BY DEF TypeOK, CacheOK, NullsAreDeleted, Findable, Live

LEMMA NextCacheOK == TypeOK /\ RequestOK /\ CacheOK /\ [Next]_vars => CacheOK'
<1> SUFFICES ASSUME TypeOK, RequestOK, CacheOK, [Next]_vars PROVE CacheOK'
  OBVIOUS
<1>1. ASSUME NEW r \in Requests, LoadServer(r) PROVE CacheOK'
  <2>1. item[r] \in Items
    BY <1>1 DEF LoadServer, At, RequestOK
  <2> QED
    BY <1>1, <2>1, SetValueCache DEF LoadServer
<1>2. ASSUME NEW i \in Items, RunValue(i) PROVE CacheOK'
  BY <1>2, SetValueCache DEF RunValue
<1>3. ASSUME NEW r \in Requests, InsertServer(r) PROVE CacheOK'
  <2>1. PICK s \in Servers :
            /\ row[s] = "unborn" /\ row' = [row EXCEPT ![s] = "live"]
            /\ \/ tasks' = tasks \cup {<<s, "value">>} /\ lost' = lost
               \/ tasks' = tasks /\ lost' = lost \cup {s}
    BY <1>3 DEF WriteAround, InsertServer, InsertUnanswered
  <2> QED
    BY <1>3, <2>1, InsertCache DEF InsertServer, Items
<1>4. ASSUME NEW r \in Requests, InsertChannel(r) PROVE CacheOK'
  <2>1. PICK c \in Channels :
            /\ row[c] = "unborn" /\ row' = [row EXCEPT ![c] = "live"]
            /\ \/ tasks' = tasks \cup {<<c, "value">>} /\ lost' = lost
               \/ tasks' = tasks /\ lost' = lost \cup {c}
    BY <1>4 DEF WriteAround, InsertChannel, InsertUnanswered
  <2> QED
    BY <1>4, <2>1, InsertCache DEF InsertChannel, Items
<1>5. ASSUME NEW r \in Requests, UpdateServerNameImage(r) PROVE CacheOK'
  <2>1. tasks' = tasks \cup {<<item[r], "value">>} /\ UNCHANGED <<row, key, filter, lost>>
    BY <1>5 DEF WriteAround, UpdateServerNameImage
  <2> QED
    BY <2>1 DEF CacheOK, NullsAreDeleted, Findable, Live
<1>6. ASSUME NEW r \in Requests, HardDeleteChannel(r) PROVE CacheOK'
  <2>1. /\ row' = [row EXCEPT ![item[r]] = "deleted"]
        /\ tasks' = tasks \cup {<<item[r], "null">>} \/ tasks' = tasks
        /\ lost' = lost \ {item[r]}
        /\ UNCHANGED <<key, filter>>
    BY <1>6 DEF WriteNull, HardDeleteChannel
  <2>2. NullsAreDeleted'
    BY <2>1 DEF CacheOK, NullsAreDeleted, TypeOK
  <2>3. ASSUME NEW j \in Items, Live(j)'
        PROVE \/ j \in lost'
              \/ <<j, "value">> \in tasks'
              \/ key'[j] = "value" /\ (j \in filter' \/ <<j, "add">> \in tasks')
    <3>1. Live(j) /\ j # item[r]
      BY <2>1, <2>3 DEF Live, TypeOK
    <3> QED
      BY <2>1, <3>1 DEF CacheOK, Findable
  <2> QED
    BY <2>2, <2>3 DEF CacheOK, Findable
<1>7. ASSUME NEW i \in Items, RunNull(i) PROVE CacheOK'
  <2>1. /\ <<i, "null">> \in tasks
        /\ tasks' = tasks \ {<<i, "null">>} \/ tasks' = tasks
        /\ key' = [key EXCEPT ![i] = "null"] \/ key' = key
        /\ UNCHANGED <<row, filter, lost>>
    BY <1>7 DEF RunNull
  <2>2. row[i] = "deleted"
    BY <2>1 DEF CacheOK, NullsAreDeleted
  <2>3. NullsAreDeleted'
    BY <2>1, <2>2 DEF CacheOK, NullsAreDeleted, TypeOK
  <2>4. ASSUME NEW j \in Items, Live(j)'
        PROVE \/ j \in lost'
              \/ <<j, "value">> \in tasks'
              \/ key'[j] = "value" /\ (j \in filter' \/ <<j, "add">> \in tasks')
    <3>1. Live(j) /\ j # i
      BY <2>1, <2>2, <2>4 DEF Live
    <3>2. key'[j] = key[j] /\ \A x \in {"value", "add"} : <<j, x>> \in tasks => <<j, x>> \in tasks'
      BY <2>1, <3>1 DEF TypeOK
    <3> QED
      BY <2>1, <3>1, <3>2 DEF CacheOK, Findable
  <2> QED
    BY <2>3, <2>4 DEF CacheOK, Findable
<1>8. ASSUME NEW i \in Items, RunAdd(i) PROVE CacheOK'
  <2>1. /\ tasks' = tasks \ {<<i, "add">>}
        /\ Live(i) => i \in filter' \/ i \in lost'
        /\ filter \subseteq filter' /\ lost \subseteq lost'
        /\ UNCHANGED <<row, key>>
    BY <1>8 DEF RunAdd, Lose
  <2>2. NullsAreDeleted'
    BY <2>1 DEF CacheOK, NullsAreDeleted
  <2>3. ASSUME NEW j \in Items, Live(j)'
        PROVE \/ j \in lost'
              \/ <<j, "value">> \in tasks'
              \/ key'[j] = "value" /\ (j \in filter' \/ <<j, "add">> \in tasks')
    <3>1. /\ <<j, "value">> \in tasks => <<j, "value">> \in tasks'
          /\ <<j, "add">> \in tasks => <<j, "add">> \in tasks' \/ j = i
      BY <2>1
    <3> QED
      BY <2>1, <2>3, <3>1 DEF CacheOK, Findable, Live
  <2> QED
    BY <2>2, <2>3 DEF CacheOK, Findable
<1>9. ASSUME NEW i \in Items, Expire(i) PROVE CacheOK'
  <2>1. /\ key' = [key EXCEPT ![i] = "missing"]
        /\ lost' = (IF Live(i) THEN lost \cup {i} ELSE lost)
        /\ UNCHANGED <<row, filter, tasks>>
    BY <1>9 DEF Expire, Lose
  <2> QED
    BY <2>1 DEF CacheOK, NullsAreDeleted, Findable, Live, TypeOK
<1>10. CASE End
  <2>1. /\ tasks' = {} /\ UNCHANGED <<row, key, filter>>
        /\ lost' = lost \cup {i \in Items : Live(i) /\ ~Visible(i) /\ \E t \in tasks : t[1] = i}
    BY <1>10 DEF End
  <2>2. ASSUME NEW j \in Items, Live(j)
        PROVE j \in lost' \/ (key[j] = "value" /\ j \in filter)
    <3>1. \/ j \in lost
          \/ \E x \in {"value", "add"} : <<j, x>> \in tasks
          \/ key[j] = "value" /\ j \in filter
      BY <2>2 DEF CacheOK, Findable
    <3>2. ASSUME NEW x \in {"value", "add"}, <<j, x>> \in tasks
          PROVE \E t \in tasks : t[1] = j
      BY <3>2
    <3> QED
      BY <2>1, <2>2, <3>1, <3>2 DEF Visible
  <2> QED
    BY <2>1, <2>2 DEF CacheOK, NullsAreDeleted, Findable, Live
<1>11. ASSUME NEW r \in Requests,
              \/ Request(r) \/ Get(r) \/ CheckMembership(r) \/ Read(r) \/ ReadFails(r)
              \/ InsertAdmin(r) \/ WriteFails(r)
       PROVE CacheOK'
  <2>1. CASE Request(r)
    BY <2>1, RequestCases, CacheKept DEF Begun
  <2> QED
    BY <1>11, <2>1, CacheKept DEF Get, CheckMembership, Read, ReadChannel, ReadServer,
          ReadMember, ReadFails, InsertAdmin, WriteFails, AnswerAs
<1>12. ASSUME NEW i \in Items, FlightFilter(i) \/ FlightGet(i) \/ FlightFails(i) \/ Land(i)
       PROVE CacheOK'
  BY <1>12, CacheKept DEF FlightFilter, FlightGet, FlightFails, Land
<1>13. CASE UNCHANGED vars
  BY <1>13, CacheKept
<1>14. ASSUME NEW u \in Users, NEW s \in Servers, CreateServerMember(u, s) PROVE CacheOK'
  BY <1>14, CacheKept DEF CreateServerMember
<1> QED
  BY <1>1, <1>2, <1>3, <1>4, <1>5, <1>6, <1>7, <1>8, <1>9, <1>10, <1>11, <1>12, <1>13, <1>14,
     NextCases, Zenon

-----------------------------------------------------------------------------
(***************************************************************************)
(* Entitled requests.                                                      *)
(***************************************************************************)
\* Requests, rows, keys and flights stay, for those who stay entitled.
LEMMA EntitledKept ==
    ASSUME EntitledOK, entitled' \subseteq entitled, filter \subseteq filter',
           \A r \in entitled' :
               /\ op'[r] = op[r] /\ item'[r] = item[r]
               /\ row'[item[r]] = row[item[r]] /\ key'[item[r]] = key[item[r]]
               /\ flight'[item[r]] \notin {"missing", "failed"}
    PROVE  EntitledOK'
  BY DEF EntitledOK, Live, Visible

LEMMA AnswerKeepsOthers ==
    ASSUME TypeOK, NEW r \in Requests, Answer(r)
    PROVE  \A x \in Requests \ {r} : op'[x] = op[x] /\ item'[x] = item[x]
  BY DEF TypeOK, Answer

LEMMA NextEntitledOK ==
    TypeOK /\ RequestOK /\ CacheOK /\ EntitledOK /\ [Next]_vars => EntitledOK'
<1> SUFFICES ASSUME TypeOK, RequestOK, CacheOK, EntitledOK, [Next]_vars PROVE EntitledOK'
  OBVIOUS
<1>0. entitled \subseteq Requests
  BY DEF TypeOK
<1>a. \A r \in entitled : /\ op[r] \in Reads /\ item[r] \in Items
                          /\ row[item[r]] = "live" /\ key[item[r]] = "value"
                          /\ item[r] \in filter
                          /\ flight[item[r]] \notin {"missing", "failed"}
  BY DEF EntitledOK, Live, Visible
<1>1. ASSUME NEW r \in Requests, Request(r) PROVE EntitledOK'
  <2>1. PICK o, s, i : o \in Reads \cup Writes /\ Begun(r, o, s, i) /\ Fits(o, s, i)
    BY <1>1, RequestCases
  <2>2. /\ step[r] = "idle" /\ UNCHANGED <<row, key, filter, flight>>
        /\ op' = [op EXCEPT ![r] = o] /\ item' = [item EXCEPT ![r] = i]
        /\ entitled' = IF o \in Reads /\ Live(i) /\ Visible(i) /\ flight[i] = "none"
                       THEN entitled \cup {r} ELSE entitled
    BY <2>1 DEF Begun
  <2>3. o \in Reads => i \in Items
    BY <2>1 DEF Fits
  <2>4. r \notin entitled
    BY <2>2, <1>a DEF RequestOK, Reads
  <2> QED
    BY <2>1, <2>2, <2>3, <2>4, <1>0 DEF EntitledOK, Live, Visible, TypeOK
<1>2. ASSUME NEW r \in Requests, Get(r) PROVE EntitledOK'
  <2>1. /\ flight' = [flight EXCEPT ![item[r]] = IF @ = "none" THEN "filter" ELSE @]
        /\ UNCHANGED <<op, item, row, key, filter, entitled>>
    BY <1>2 DEF Get, Goto
  <2> QED
    BY <2>1, <1>a, EntitledKept DEF TypeOK
<1>3. ASSUME NEW r \in Requests, CheckMembership(r) PROVE EntitledOK'
  BY <1>3, <1>a, EntitledKept DEF CheckMembership, Goto
<1>4. ASSUME NEW r \in Requests, LoadServer(r) PROVE EntitledOK'
  <2>1. item[r] \in Items
    BY <1>4 DEF LoadServer, At, RequestOK
  <2>2. /\ key' = [key EXCEPT ![item[r]] = "value"] \/ key' = key
        /\ UNCHANGED <<op, item, row, filter, flight, entitled>>
    BY <1>4, <2>1, SetValueCases DEF LoadServer, Goto, SetAgain
  <2> QED
    BY <2>2, <1>a, EntitledKept DEF TypeOK
<1>5. ASSUME NEW r \in Requests, Read(r) \/ ReadFails(r) \/ WriteFails(r) PROVE EntitledOK'
  <2>1. /\ Answer(r) /\ entitled' = entitled \ {r}
        /\ UNCHANGED <<row, key, filter, flight>>
    BY <1>5 DEF Read, ReadChannel, ReadServer, ReadMember, ReadFails, WriteFails, AnswerAs
  <2> QED
    BY <2>1, <1>0, <1>a, AnswerKeepsOthers, EntitledKept
<1>6. ASSUME NEW r \in Requests, op[r] \in Writes, UNCHANGED <<key, filter, flight>>,
             \A i \in Items : Live(i) => Live(i)' \/ \A x \in entitled' : item[x] # i,
             entitled' \subseteq entitled,
             \A x \in Requests \ {r} : op'[x] = op[x] /\ item'[x] = item[x]
      PROVE EntitledOK'
  <2>1. r \notin entitled
    BY <1>a, <1>6 DEF Reads, Writes
  <2> QED
    BY <2>1, <1>0, <1>a, <1>6, EntitledKept DEF Live
<1>7. ASSUME NEW r \in Requests, InsertServer(r) PROVE EntitledOK'
  <2>1. PICK s \in Servers :
            /\ row' = [row EXCEPT ![s] = "live"]
            /\ (UNCHANGED op /\ item' = [item EXCEPT ![r] = s]) \/ Answer(r)
    BY <1>7 DEF InsertServer, InsertUnanswered
  <2>2. op[r] \in Writes /\ UNCHANGED <<key, filter, flight, entitled>>
    BY <1>7 DEF InsertServer, At, Writes
  <2>3. \A i \in Items : Live(i) => Live(i)'
    BY <2>1 DEF Live, TypeOK, Items
  <2>4. \A x \in Requests \ {r} : op'[x] = op[x] /\ item'[x] = item[x]
    BY <2>1, AnswerKeepsOthers DEF TypeOK
  <2> QED
    BY <2>2, <2>3, <2>4, <1>6
<1>8. ASSUME NEW r \in Requests, InsertChannel(r) PROVE EntitledOK'
  <2>1. /\ op[r] \in Writes /\ UNCHANGED <<key, filter, flight, entitled>>
        /\ \E c \in Channels : row' = [row EXCEPT ![c] = "live"]
        /\ Goto(r, "member") \/ Answer(r)
    BY <1>8 DEF InsertChannel, InsertUnanswered, Writes
  <2>2. \A i \in Items : Live(i) => Live(i)'
    BY <2>1 DEF Live, TypeOK, Items
  <2>3. \A x \in Requests \ {r} : op'[x] = op[x] /\ item'[x] = item[x]
    BY <2>1, AnswerKeepsOthers DEF Goto
  <2> QED
    BY <2>1, <2>2, <2>3, <1>6
<1>9. ASSUME NEW r \in Requests, InsertAdmin(r) \/ UpdateServerNameImage(r) PROVE EntitledOK'
  <2>1. op[r] \in Writes /\ UNCHANGED <<row, key, filter, flight, entitled>> /\ Answer(r)
    BY <1>9 DEF InsertAdmin, UpdateServerNameImage, At, Writes
  <2> QED
    BY <2>1, <1>6, AnswerKeepsOthers DEF Live
<1>10. ASSUME NEW r \in Requests, HardDeleteChannel(r) PROVE EntitledOK'
  <2>1. /\ op[r] \in Writes /\ UNCHANGED <<key, filter, flight>> /\ Answer(r)
        /\ row' = [row EXCEPT ![item[r]] = "deleted"]
        /\ entitled' = entitled \ Excused(item[r])
    BY <1>10 DEF WriteNull, HardDeleteChannel, At, Writes
  <2>2. \A i \in Items : Live(i) => Live(i)' \/ \A x \in entitled' : item[x] # i
    BY <2>1, <1>0 DEF Live, TypeOK, Excused
  <2> QED
    BY <2>1, <2>2, <1>6, AnswerKeepsOthers
<1>11. ASSUME NEW i \in Items, RunValue(i) PROVE EntitledOK'
  <2>1. /\ key' = [key EXCEPT ![i] = "value"] \/ key' = key
        /\ UNCHANGED <<op, item, row, filter, flight, entitled>>
    BY <1>11, SetValueCases DEF RunValue
  <2> QED
    BY <2>1, <1>a, EntitledKept DEF TypeOK
<1>12. ASSUME NEW i \in Items, RunNull(i) PROVE EntitledOK'
  <2>1. /\ <<i, "null">> \in tasks
        /\ key' = [key EXCEPT ![i] = "null"] \/ key' = key
        /\ UNCHANGED <<op, item, row, filter, flight, entitled>>
    BY <1>12 DEF RunNull
  <2>2. row[i] = "deleted"
    BY <2>1 DEF CacheOK, NullsAreDeleted
  <2>3. \A r \in entitled : item[r] # i
    BY <2>2, <1>a
  <2> QED
    BY <2>1, <2>3, <1>a, EntitledKept DEF TypeOK
<1>13. ASSUME NEW i \in Items, RunAdd(i) PROVE EntitledOK'
  BY <1>13, <1>a, EntitledKept DEF RunAdd
<1>14. ASSUME NEW i \in Items, FlightFilter(i) PROVE EntitledOK'
  <2>1. PICK next \in FilterAnswers(i) : flight' = [flight EXCEPT ![i] = next]
    BY <1>14 DEF FlightFilter
  <2>2. i \in filter => next = "get"
    BY <2>1 DEF FilterAnswers
  <2>3. \A r \in entitled : flight'[item[r]] \notin {"missing", "failed"}
    BY <2>1, <2>2, <1>a DEF TypeOK
  <2> QED
    BY <1>14, <2>3, <1>a, EntitledKept DEF FlightFilter
<1>15. ASSUME NEW i \in Items, FlightGet(i) PROVE EntitledOK'
  <2>1. flight' = [flight EXCEPT ![i] = IF key[i] = "value" THEN "found" ELSE "missing"]
    BY <1>15 DEF FlightGet
  <2>2. \A r \in entitled : flight'[item[r]] \notin {"missing", "failed"}
    BY <2>1, <1>a DEF TypeOK
  <2> QED
    BY <1>15, <2>2, <1>a, EntitledKept DEF FlightGet
<1>16. ASSUME NEW i \in Items, FlightFails(i) PROVE EntitledOK'
  <2>1. /\ flight' = [flight EXCEPT ![i] = "failed"] /\ entitled' = entitled \ Excused(i)
        /\ UNCHANGED <<op, item, row, key, filter>>
    BY <1>16 DEF FlightFails
  <2>2. \A r \in entitled' : item[r] # i
    BY <2>1, <1>0 DEF Excused
  <2> QED
    BY <2>1, <2>2, <1>a, EntitledKept DEF TypeOK
<1>17. ASSUME NEW i \in Items, Land(i) PROVE EntitledOK'
  <2>1. /\ flight' = [flight EXCEPT ![i] = "none"] /\ entitled' = entitled \ Waiting(i)
        /\ op' = [r \in Requests |-> IF r \in Refused(i) THEN "none" ELSE op[r]]
        /\ item' = [r \in Requests |-> IF r \in Refused(i) THEN NoItem ELSE item[r]]
        /\ UNCHANGED <<row, key, filter>>
    BY <1>17 DEF Land
  <2>2. \A r \in entitled' : op'[r] = op[r] /\ item'[r] = item[r]
    <3>1. Refused(i) \subseteq Waiting(i)
      BY DEF Refused
    <3> QED
      BY <2>1, <3>1, <1>0
  <2>3. \A r \in entitled : flight'[item[r]] \notin {"missing", "failed"}
    BY <2>1, <1>a DEF TypeOK
  <2> QED
    BY <2>1, <2>2, <2>3, EntitledKept
<1>18. ASSUME NEW i \in Items, Expire(i) PROVE EntitledOK'
  <2>1. /\ key' = [key EXCEPT ![i] = "missing"] /\ entitled' = entitled \ Excused(i)
        /\ UNCHANGED <<op, item, row, filter, flight>>
    BY <1>18 DEF Expire
  <2>2. \A r \in entitled' : item[r] # i
    BY <2>1, <1>0 DEF Excused
  <2> QED
    BY <2>1, <2>2, <1>a, EntitledKept DEF TypeOK
<1>19. CASE End
  BY <1>19 DEF End, EntitledOK
<1>20. CASE UNCHANGED vars
  BY <1>20, <1>a, EntitledKept
<1>21. ASSUME NEW u \in Users, NEW s \in Servers, CreateServerMember(u, s) PROVE EntitledOK'
  BY <1>21, <1>a, EntitledKept DEF CreateServerMember
<1> QED
  BY <1>1, <1>2, <1>3, <1>4, <1>5, <1>7, <1>8, <1>9, <1>10, <1>11, <1>12, <1>13, <1>14,
     <1>15, <1>16, <1>17, <1>18, <1>19, <1>20, <1>21, NextCases, Zenon

-----------------------------------------------------------------------------
(***************************************************************************)
(* Creation.                                                               *)
(***************************************************************************)
MadeOK == CreationOK /\ AdminsMadeServer

\* Rows stay, and a request that creates a server goes no further.
LEMMA MadeKept ==
    ASSUME MadeOK, UNCHANGED <<row, owner, home, members>>,
           \A r \in Requests : op'[r] = "CreateServer" /\ step'[r] \in {"channel", "member"} =>
               op[r] = op'[r] /\ step[r] = step'[r] /\ item[r] = item'[r] /\ user[r] = user'[r]
    PROVE  MadeOK'
  BY DEF MadeOK, CreationOK, AdminsMadeServer

\* An answered request creates nothing more.
LEMMA AnswerMade ==
    ASSUME TypeOK, NEW r \in Requests, Answer(r)
    PROVE  \A x \in Requests :
               op'[x] = "CreateServer" =>
                   /\ x # r /\ op[x] = op'[x] /\ step[x] = step'[x]
                   /\ item[x] = item'[x] /\ user[x] = user'[x]
  BY DEF TypeOK, Answer

LEMMA NextMadeOK == TypeOK /\ RequestOK /\ MadeOK /\ [Next]_vars => MadeOK'
<1> SUFFICES ASSUME TypeOK, RequestOK, MadeOK, [Next]_vars PROVE MadeOK'
  OBVIOUS
<1>1. ASSUME NEW r \in Requests, Request(r) PROVE MadeOK'
  <2>1. PICK o, s, i : o \in Reads \cup Writes /\ Begun(r, o, s, i) /\ Fits(o, s, i)
    BY <1>1, RequestCases
  <2>2. o = "CreateServer" => s = "server"
    BY <2>1 DEF Fits
  <2>3. op'[r] = "CreateServer" => step'[r] = "server"
    BY <2>1, <2>2 DEF Begun, TypeOK
  <2>4. \A x \in Requests \ {r} :
            op'[x] = op[x] /\ step'[x] = step[x] /\ item'[x] = item[x] /\ user'[x] = user[x]
    BY <2>1 DEF Begun, TypeOK
  <2>5. UNCHANGED <<row, owner, home, members>>
    BY <2>1 DEF Begun
  <2> QED
    BY <2>3, <2>4, <2>5, MadeKept
<1>2. ASSUME NEW r \in Requests, Get(r) \/ CheckMembership(r) \/ LoadServer(r) PROVE MadeOK'
  <2>1. /\ UNCHANGED step \/ \E s \in {"wait", "get", "read"} : step' = [step EXCEPT ![r] = s]
        /\ UNCHANGED <<op, item, row, owner, home, members>>
    BY <1>2 DEF Get, CheckMembership, LoadServer, Goto
  <2>2. UNCHANGED user \/ (op[r] = "ListServer" /\ user' = [user EXCEPT ![r] = NoUser])
    BY <1>2 DEF Get, CheckMembership, LoadServer, Goto, At
  <2> QED
    BY <2>1, <2>2, MadeKept DEF TypeOK
<1>3. ASSUME NEW r \in Requests,
             \/ Read(r) \/ ReadFails(r) \/ WriteFails(r) \/ UpdateServerNameImage(r)
      PROVE MadeOK'
  <2>1. Answer(r) /\ UNCHANGED <<row, owner, home, members>>
    BY <1>3 DEF Read, ReadChannel, ReadServer, ReadMember, ReadFails, WriteFails,
          UpdateServerNameImage, AnswerAs
  <2> QED
    BY <2>1, AnswerMade, MadeKept
<1>4. ASSUME NEW r \in Requests, HardDeleteChannel(r) PROVE MadeOK'
  <2>1. /\ Answer(r) /\ UNCHANGED <<owner, home, members>>
        /\ row' = [row EXCEPT ![item[r]] = "deleted"]
    BY <1>4 DEF WriteNull, HardDeleteChannel
  <2>2. \A i \in Items : row'[i] = "unborn" => row[i] = "unborn"
    BY <2>1 DEF TypeOK
  <2>3. CreationOK'
    BY <2>1, <2>2, AnswerMade DEF MadeOK, CreationOK, Items
  <2>4. AdminsMadeServer'
    BY <2>1 DEF MadeOK, AdminsMadeServer
  <2> QED
    BY <2>3, <2>4 DEF MadeOK
<1>5. ASSUME NEW r \in Requests, InsertServer(r) PROVE MadeOK'
  <2>1. PICK s \in Servers :
            /\ row[s] = "unborn" /\ row' = [row EXCEPT ![s] = "live"]
            /\ owner' = [owner EXCEPT ![s] = user[r]]
            /\ \/ /\ item' = [item EXCEPT ![r] = s]
                  /\ step' = [step EXCEPT ![r] = "channel"]
                  /\ UNCHANGED <<op, user>>
               \/ Answer(r)
    BY <1>5 DEF InsertServer, InsertUnanswered, AfterServer
  <2>2. UNCHANGED <<home, members>>
    BY <1>5 DEF InsertServer
  <2>3. owner[s] = NoUser /\ s \in Items
    BY <2>1 DEF MadeOK, CreationOK, Items
  <2>4. \A x \in Servers \ {s} : owner'[x] = owner[x] /\ (row'[x] = "unborn" => row[x] = "unborn")
    BY <2>1 DEF TypeOK, Items
  <2>5. \A x \in Servers : row'[x] = "unborn" => owner'[x] = NoUser
    <3>1. row'[s] = "live"
      BY <2>1, <2>3 DEF TypeOK
    <3> QED
      BY <2>4, <3>1 DEF MadeOK, CreationOK
  <2>6. \A c \in Channels : row'[c] = "unborn" => home'[c] = NoItem
    BY <2>1, <2>2, <2>3 DEF MadeOK, CreationOK, TypeOK, Items
  <2>7. ASSUME NEW x \in Requests, op'[x] = "CreateServer", step'[x] \in {"channel", "member"}
        PROVE /\ owner'[item'[x]] = user'[x]
              /\ step'[x] = "member" => \E c \in Channels : home'[c] = item'[x]
    <3>1. CASE x = r
      <4>1. /\ item' = [item EXCEPT ![r] = s] /\ step' = [step EXCEPT ![r] = "channel"]
            /\ UNCHANGED user
        BY <2>1, <2>7, <3>1, AnswerMade
      <4>2. item'[x] = s /\ owner'[s] = user[r] /\ step'[x] = "channel"
        BY <2>1, <4>1, <3>1 DEF TypeOK
      <4> QED
        BY <4>1, <4>2, <3>1
    <3>2. CASE x # r
      <4>1. op[x] = op'[x] /\ step[x] = step'[x] /\ item[x] = item'[x] /\ user[x] = user'[x]
        <5>1. CASE Answer(r)
          BY <5>1, <2>7, AnswerMade
        <5> QED
          BY <2>1, <3>2, <5>1 DEF TypeOK
      <4>2. owner[item[x]] = user[x] /\ item[x] \in Servers /\ user[x] \in Users
        BY <4>1, <2>7 DEF MadeOK, CreationOK, RequestOK
      <4>3. item[x] # s
        BY <4>2, <2>3, CatalogAssumption
      <4>4. step[x] = "member" => \E c \in Channels : home[c] = item[x]
        BY <4>1, <2>7 DEF MadeOK, CreationOK
      <4> QED
        BY <4>1, <4>2, <4>3, <4>4, <2>4, <2>2
    <3> QED
      BY <3>1, <3>2
  <2>8. AdminsMadeServer'
    <3>1. ASSUME NEW u \in Users, NEW x \in Servers, members'[<<u, x>>] = "ADMIN"
          PROVE owner'[x] = u /\ \E c \in Channels : home'[c] = x
      <4>1. owner[x] = u /\ \E c \in Channels : home[c] = x
        BY <2>2, <3>1 DEF MadeOK, AdminsMadeServer
      <4>2. x # s
        BY <4>1, <2>3, CatalogAssumption
      <4> QED
        BY <4>1, <4>2, <2>4, <2>2
    <3> QED
      BY <3>1 DEF AdminsMadeServer
  <2> QED
    BY <2>5, <2>6, <2>7, <2>8 DEF MadeOK, CreationOK
<1>6. ASSUME NEW r \in Requests, InsertChannel(r) PROVE MadeOK'
  <2>1. PICK c \in Channels :
            /\ row[c] = "unborn" /\ row' = [row EXCEPT ![c] = "live"]
            /\ home' = [home EXCEPT ![c] = item[r]]
    BY <1>6 DEF InsertChannel
  <2>2. /\ step[r] = "channel" /\ UNCHANGED <<owner, members>>
        /\ (op[r] = "CreateServer" /\ Goto(r, "member")) \/ Answer(r)
    BY <1>6 DEF InsertChannel, InsertUnanswered
  <2>3. home[c] = NoItem /\ c \in Items
    BY <2>1 DEF MadeOK, CreationOK, Items
  <2>4. home'[c] = item[r] /\ \A d \in Channels \ {c} : home'[d] = home[d]
    BY <2>1 DEF TypeOK
  <2>5. \A s \in Servers : (\E d \in Channels : home[d] = s) => \E d \in Channels : home'[d] = s
    BY <2>3, <2>4, CatalogAssumption
  <2>6. \A i \in Items : row'[i] = "unborn" => row[i] = "unborn" /\ i # c
    BY <2>1 DEF TypeOK
  <2>7. /\ \A s \in Servers : row'[s] = "unborn" => owner'[s] = NoUser
        /\ \A d \in Channels : row'[d] = "unborn" => home'[d] = NoItem
    BY <2>2, <2>4, <2>6 DEF MadeOK, CreationOK, Items
  <2>8. ASSUME NEW x \in Requests, op'[x] = "CreateServer", step'[x] \in {"channel", "member"}
        PROVE /\ owner'[item'[x]] = user'[x]
              /\ step'[x] = "member" => \E d \in Channels : home'[d] = item'[x]
    <3>1. CASE x = r
      <4>1. op[r] = "CreateServer" /\ Goto(r, "member")
        BY <2>2, <2>8, <3>1, AnswerMade
      <4>2. item'[x] = item[r] /\ user'[x] = user[r] /\ owner[item[r]] = user[r]
        BY <2>2, <3>1, <4>1 DEF Goto, MadeOK, CreationOK
      <4> QED
        BY <4>2, <2>2, <2>4
    <3>2. CASE x # r
      <4>1. op[x] = op'[x] /\ step[x] = step'[x] /\ item[x] = item'[x] /\ user[x] = user'[x]
        <5>1. CASE Answer(r)
          BY <5>1, <2>8, AnswerMade
        <5>2. CASE Goto(r, "member")
          BY <3>2, <5>2 DEF Goto, TypeOK
        <5> QED
          BY <2>2, <5>1, <5>2
      <4>2. /\ owner[item[x]] = user[x] /\ item[x] \in Servers
            /\ step[x] = "member" => \E d \in Channels : home[d] = item[x]
        BY <4>1, <2>8 DEF MadeOK, CreationOK, RequestOK
      <4> QED
        BY <4>1, <4>2, <2>2, <2>5
    <3> QED
      BY <3>1, <3>2
  <2>9. AdminsMadeServer'
    BY <2>2, <2>5 DEF MadeOK, AdminsMadeServer
  <2> QED
    BY <2>7, <2>8, <2>9 DEF MadeOK, CreationOK
<1>7. ASSUME NEW r \in Requests, InsertAdmin(r) PROVE MadeOK'
  <2>1. /\ op[r] = "CreateServer" /\ step[r] = "member" /\ Answer(r)
        /\ members' = [members EXCEPT ![<<user[r], item[r]>>] = "ADMIN"]
        /\ UNCHANGED <<row, owner, home>>
    BY <1>7 DEF InsertAdmin, At
  <2>2. owner[item[r]] = user[r] /\ \E c \in Channels : home[c] = item[r]
    BY <2>1 DEF MadeOK, CreationOK
  <2>3. ASSUME NEW u \in Users, NEW s \in Servers, members'[<<u, s>>] = "ADMIN"
        PROVE owner[s] = u /\ \E c \in Channels : home[c] = s
    <3>1. members[<<u, s>>] = "ADMIN" \/ (u = user[r] /\ s = item[r])
      BY <2>1, <2>3 DEF TypeOK
    <3> QED
      BY <3>1, <2>2 DEF MadeOK, AdminsMadeServer
  <2>4. AdminsMadeServer'
    BY <2>1, <2>3 DEF AdminsMadeServer
  <2>5. CreationOK'
    BY <2>1, AnswerMade DEF MadeOK, CreationOK
  <2> QED
    BY <2>4, <2>5 DEF MadeOK
<1>8. ASSUME NEW i \in Items, Land(i) PROVE MadeOK'
  <2>1. UNCHANGED <<row, owner, home, members>>
    BY <1>8 DEF Land
  <2> QED
    BY <1>8, <2>1, LandRequests, MadeKept
<1>9. CASE End
  BY <1>9, MadeKept DEF End
<1>10. ASSUME UNCHANGED <<row, owner, home, members, requestVars>> PROVE MadeOK'
  BY <1>10, MadeKept
<1>11. ASSUME NEW i \in Items,
              \/ RunValue(i) \/ RunNull(i) \/ RunAdd(i) \/ FlightFilter(i)
              \/ FlightGet(i) \/ FlightFails(i) \/ Expire(i)
       PROVE MadeOK'
  BY <1>10, <1>11 DEF RunValue, RunNull, RunAdd, FlightFilter, FlightGet, FlightFails, Expire
<1>12. CASE UNCHANGED vars
  BY <1>10, <1>12
<1>13. ASSUME NEW u \in Users, NEW s \in Servers, CreateServerMember(u, s) PROVE MadeOK'
  <2>1. /\ members' = [members EXCEPT ![<<u, s>>] = "GUEST"]
        /\ UNCHANGED <<row, owner, home, requestVars>>
    BY <1>13 DEF CreateServerMember
  <2>2. \A v \in Users, x \in Servers : members'[<<v, x>>] = "ADMIN" => members[<<v, x>>] = "ADMIN"
    BY <2>1 DEF TypeOK
  <2> QED
    BY <2>1, <2>2 DEF MadeOK, CreationOK, AdminsMadeServer
<1> QED
  BY <1>1, <1>2, <1>3, <1>4, <1>5, <1>6, <1>7, <1>8, <1>9, <1>11, <1>12, <1>13, NextCases,
     Zenon

-----------------------------------------------------------------------------
(***************************************************************************)
(* The invariant and what follows from it.                                 *)
(***************************************************************************)
IInv == TypeOK /\ RequestOK /\ CacheOK /\ EntitledOK /\ MadeOK

LEMMA InitIInv == Init => IInv
  BY InitInv DEF IInv, CacheOK, MadeOK

LEMMA NextIInv == IInv /\ [Next]_vars => IInv'
  BY NextTypeOK, NextRequestOK, NextCacheOK, NextEntitledOK, NextMadeOK DEF IInv

LEMMA Invariance == Spec => []IInv
<1>1. Init => IInv
  BY InitIInv
<1>2. IInv /\ [Next]_vars => IInv'
  BY NextIInv
<1> QED
  BY <1>1, <1>2, PTL DEF Spec

\* Rows, keys, filters, goroutines, flights and requests keep their types: the
\* channel of CreateServer and the rows of the member checks are servers.
THEOREM CatalogTypeOK == Spec => []TypeOK
<1>1. IInv => TypeOK
  BY DEF IInv
<1> QED
  BY <1>1, Invariance, PTL

\* A live row whose key or filter entry is missing is on its way there, or the
\* key or entry was lost (or never set, for want of an INSERT's answer),
\* whatever the order of the goroutines of creates, updates, deletes and refills.
THEOREM CatalogHiddenOnlyWhenLost == Spec => []HiddenOnlyWhenLost
<1>1. IInv => HiddenOnlyWhenLost
  <2>1. SUFFICES ASSUME CacheOK PROVE HiddenOnlyWhenLost
    BY DEF IInv
  <2> QED
    BY <2>1 DEF CacheOK, Findable, HiddenOnlyWhenLost, Visible
<1> QED
  BY <1>1, Invariance, PTL

\* A request that starts when its row is visible and no flight is under way is
\* not told, by a flight of its own or one it joins later, that the row is not
\* there.  One that starts while a flight is under way has no such promise.
THEOREM CatalogEntitledIsFound == Spec => []EntitledIsFound
<1>1. IInv => EntitledIsFound
  BY DEF IInv, EntitledOK, EntitledIsFound
<1> QED
  BY <1>1, Invariance, PTL

\* CreateServer makes its user the admin last: an admin is the owner, and a
\* channel was made for the server before.  Guests have no part in this.
THEOREM CatalogAdminsMadeServer == Spec => []AdminsMadeServer
<1>1. IInv => AdminsMadeServer
  BY DEF IInv, MadeOK
<1> QED
  BY <1>1, Invariance, PTL
=============================================================================
