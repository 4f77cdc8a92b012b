------------------------------- MODULE Invites -------------------------------
(***************************************************************************)
(* Server invites, from their creation to the member row: the API's        *)
(* requests, the invite's cache entry, the counter in Redis that admits    *)
(* users, and the members table.  Redis decides who gets in; the count in  *)
(* the database follows the members as JoinCount says, and is what the     *)
(* counter is set from when Redis has lost it.  One server.                *)
(***************************************************************************)
EXTENDS Integers, FiniteSets

CONSTANTS
    Codes,
    NoCode,
    Users,
    NoUser,
    Requests,      \* accept requests that can be served at the same time
    MaxUses,       \* what max_uses can be, other than NULL
    MaxCount,      \* bound: the counter, which an unlimited code has nothing to stop
    MaxDeliveries  \* bound: how often a join can be counted

ASSUME InvitesAssumption ==
    /\ NoCode \notin Codes /\ NoUser \notin Users
    /\ IsFiniteSet(Users) /\ IsFiniteSet(Requests)
    /\ MaxUses \subseteq Nat
    /\ MaxCount \in Nat

\* max_uses of a code that has no row, max_uses that is NULL, and the counter's
\* value when Redis has none.
NoRow == -2
Unlimited == -1
NoCounter == -1

VARIABLES
    maxUses,  \* server_invites: the code's max_uses, or NoRow
    usedCount,  \* server_invites: the code's used_count
    joined,   \* members: the code a member came in with, or NoCode for no member
    info,     \* codes whose Info key is in Redis
    filter,   \* codes in the Bloom filter, on their way there, or not: "yes", "adding", "no"
    uses,     \* the UsedCount key in Redis, or NoCounter
    fill,     \* what the goroutine of CreateServerInvite does next with the code
    flight,   \* what the code's flight of GetServerInvite does next
    seen,     \* the used_count that flight has read
    step,     \* what an accept request does next
    user,     \* whose request it is
    code,     \* the request's code
    low,      \* ghost: codes whose counter was left below their seats
    high      \* ghost: codes whose counter was left above their seats

dbVars == <<maxUses, usedCount, joined>>
redisVars == <<info, filter, uses>>
fillVars == <<fill, flight, seen>>
requestVars == <<step, user, code>>
ghosts == <<low, high>>
vars == <<dbVars, redisVars, fillVars, requestVars, ghosts>>

Steps == {"idle", "lookup", "wait", "check", "consume", "create", "rollback", "again"}

TypeOK ==
    /\ maxUses \in [Codes -> MaxUses \cup {Unlimited, NoRow}]
    /\ usedCount \in [Codes -> Nat]
    /\ joined \in [Users -> Codes \cup {NoCode}]
    /\ info \subseteq Codes
    /\ filter \in [Codes -> {"no", "adding", "yes"}]
    /\ uses \in [Codes -> Nat \cup {NoCounter}]
    /\ fill \in [Codes -> {"none", "info", "uses"}]
    /\ flight \in [Codes -> {"none", "read", "info", "uses"}]
    /\ seen \in [Codes -> Nat]
    /\ step \in [Requests -> Steps]
    /\ user \in [Requests -> Users \cup {NoUser}]
    /\ code \in [Requests -> Codes \cup {NoCode}]
    /\ low \subseteq Codes
    /\ high \subseteq Codes

Init ==
    /\ maxUses = [c \in Codes |-> NoRow]
    /\ usedCount = [c \in Codes |-> 0]
    /\ joined = [u \in Users |-> NoCode]
    /\ info = {}
    /\ filter = [c \in Codes |-> "no"]
    /\ uses = [c \in Codes |-> NoCounter]
    /\ fill = [c \in Codes |-> "none"]
    /\ flight = [c \in Codes |-> "none"]
    /\ seen = [c \in Codes |-> 0]
    /\ step = [r \in Requests |-> "idle"]
    /\ user = [r \in Requests |-> NoUser]
    /\ code = [r \in Requests |-> NoCode]
    /\ low = {}
    /\ high = {}

-----------------------------------------------------------------------------
(***************************************************************************)
(* Seats: the members who came in with a code, and the requests that have  *)
(* raised its counter and have not yet created the member or rolled back.  *)
(***************************************************************************)
Admitted(c) == {u \in Users : joined[u] = c}

Pending(c) == {r \in Requests : code[r] = c /\ step[r] \in {"create", "rollback"}}

Seats(c) == Cardinality(Admitted(c)) + Cardinality(Pending(c))

-----------------------------------------------------------------------------
(***************************************************************************)
(* CacheManager.Set of the two keys, after which a goroutine of its own    *)
(* adds the code to the filter.  An error is ignored by all callers.  The  *)
(* client repeats a command whose answer it does not get, so that a Set    *)
(* may be executed and its caller be where it was.                         *)
(***************************************************************************)
AddsLater(c) == filter' = [filter EXCEPT ![c] = IF @ = "yes" THEN "yes" ELSE "adding"]

SetInfo(c) ==
    \/ info' = info \cup {c} /\ (AddsLater(c) \/ UNCHANGED filter)
    \/ UNCHANGED <<info, filter>>

\* The counter, set to n whatever it was and whoever has raised it meanwhile.
SetUses(c, n) ==
    \/ /\ uses' = [uses EXCEPT ![c] = n]
       /\ low' = IF n < Seats(c) THEN low \cup {c} ELSE low
       /\ high' = IF n > Seats(c) THEN high \cup {c} ELSE high
       /\ AddsLater(c) \/ UNCHANGED filter
    \/ UNCHANGED <<uses, low, high, filter>>

\* bloomMgr.Add, which has two seconds.
AddToFilter(c) ==
    /\ filter[c] = "adding"
    /\ \E result \in {"yes", "no"} : filter' = [filter EXCEPT ![c] = result]
    /\ UNCHANGED <<dbVars, info, uses, fillVars, requestVars, ghosts>>

\* The keys have times to live: 14 days, or 24 and 25 hours.
ExpireInfo(c) ==
    /\ c \in info
    /\ info' = info \ {c}
    /\ UNCHANGED <<dbVars, filter, uses, fillVars, requestVars, ghosts>>

ExpireUses(c) ==
    /\ uses[c] # NoCounter
    /\ uses' = [uses EXCEPT ![c] = NoCounter]
    /\ UNCHANGED <<dbVars, info, filter, fillVars, requestVars, ghosts>>

-----------------------------------------------------------------------------
(***************************************************************************)
(* CreateServerInvite: the row, and a goroutine that fills the cache.      *)
(***************************************************************************)
\* The store retries a code that is taken; a failed insert changes nothing.
InsertInvite(c, m) ==
    /\ maxUses[c] = NoRow
    /\ maxUses' = [maxUses EXCEPT ![c] = m]

CreateServerInvite(c) ==
    /\ \E m \in MaxUses \cup {Unlimited} : InsertInvite(c, m)
    /\ fill' = [fill EXCEPT ![c] = "info"]
    /\ UNCHANGED <<usedCount, joined, redisVars, flight, seen, requestVars, ghosts>>

FillInfo(c) ==
    /\ fill[c] = "info"
    /\ SetInfo(c)
    /\ fill' = [fill EXCEPT ![c] = "uses"] \/ UNCHANGED fill
    /\ UNCHANGED <<dbVars, uses, flight, seen, requestVars, ghosts>>

\* The condition holds for every max_uses that is not NULL.
FillUses(c) ==
    /\ fill[c] = "uses"
    /\ maxUses[c] # Unlimited
    /\ SetUses(c, 0)
    /\ fill' = [fill EXCEPT ![c] = "none"] \/ UNCHANGED fill
    /\ UNCHANGED <<dbVars, info, flight, seen, requestVars>>

-----------------------------------------------------------------------------
(***************************************************************************)
(* GetServerInvite: one flight for a code, whose result every request that *)
(* waits on it shares.                                                     *)
(***************************************************************************)
\* The requests that wait for c's flight.
Waiting(c) == {r \in Requests : step[r] = "wait" /\ code[r] = c}

Land(c) ==
    /\ flight' = [flight EXCEPT ![c] = "none"]
    /\ seen' = [seen EXCEPT ![c] = 0]
    /\ UNCHANGED fill

\* The row, with the used_count that the consumer has brought it to.
FlightRead(c) ==
    /\ flight[c] = "read"
    /\ maxUses[c] # NoRow
    /\ flight' = [flight EXCEPT ![c] = "info"]
    /\ seen' = [seen EXCEPT ![c] = usedCount[c]]
    /\ UNCHANGED <<dbVars, redisVars, fill, requestVars, ghosts>>

\* No row, or the database fails.
FlightFails(c) ==
    /\ flight[c] = "read"
    /\ Land(c)
    /\ step' = [r \in Requests |-> IF r \in Waiting(c) THEN "idle" ELSE step[r]]
    /\ user' = [r \in Requests |-> IF r \in Waiting(c) THEN NoUser ELSE user[r]]
    /\ code' = [r \in Requests |-> IF r \in Waiting(c) THEN NoCode ELSE code[r]]
    /\ UNCHANGED <<dbVars, redisVars, ghosts>>

FlightInfo(c) ==
    /\ flight[c] = "info"
    /\ SetInfo(c)
    /\ flight' = [flight EXCEPT ![c] = "uses"] \/ UNCHANGED flight
    /\ UNCHANGED <<dbVars, uses, fill, seen, requestVars, ghosts>>

FlightUses(c) ==
    /\ flight[c] = "uses"
    /\ SetUses(c, seen[c])
    /\ \/ /\ Land(c)
          /\ step' = [r \in Requests |-> IF r \in Waiting(c) THEN "check" ELSE step[r]]
       \/ UNCHANGED <<fillVars, step>>
    /\ UNCHANGED <<dbVars, info, user, code>>

-----------------------------------------------------------------------------
(***************************************************************************)
(* AcceptServerInviteAndCreateMember, one action per store it calls.       *)
(***************************************************************************)
At(r, s) == step[r] = s

Goto(r, s) == step' = [step EXCEPT ![r] = s] /\ UNCHANGED <<user, code>>

Answer(r) ==
    /\ step' = [step EXCEPT ![r] = "idle"]
    /\ user' = [user EXCEPT ![r] = NoUser]
    /\ code' = [code EXCEPT ![r] = NoCode]

Accept(r) ==
    /\ At(r, "idle")
    /\ step' = [step EXCEPT ![r] = "lookup"]
    /\ \E u \in Users : user' = [user EXCEPT ![r] = u]
    /\ \E c \in Codes : code' = [code EXCEPT ![r] = c]
    /\ UNCHANGED <<dbVars, redisVars, fillVars, ghosts>>

\* The filter says no or the key is missing: "Invalid code".
LookupMiss(r) ==
    /\ At(r, "lookup")
    /\ code[r] \notin info \/ filter[code[r]] # "yes"
    /\ Answer(r)
    /\ UNCHANGED <<dbVars, redisVars, fillVars, ghosts>>

\* The key is there, and the filter agrees or could not be asked.
LookupHit(r) ==
    /\ At(r, "lookup")
    /\ code[r] \in info
    /\ Goto(r, "check")
    /\ UNCHANGED <<dbVars, redisVars, fillVars, ghosts>>

\* Redis fails: the request starts its code's flight or joins it.
LookupError(r) ==
    /\ At(r, "lookup")
    /\ Goto(r, "wait")
    /\ flight' = [flight EXCEPT ![code[r]] = IF @ = "none" THEN "read" ELSE @]
    /\ UNCHANGED <<dbVars, redisVars, fill, seen, ghosts>>

\* ValidateServerInvite and HasUserServerMember: expired or without uses, a
\* member already, or the database fails.
CheckRefuses(r) ==
    /\ At(r, "check")
    /\ Answer(r)
    /\ UNCHANGED <<dbVars, redisVars, fillVars, ghosts>>

\* No member, or the cache knows no such server: that too answers "no member".
CheckPasses(r) ==
    /\ At(r, "check")
    /\ maxUses[code[r]] # 0
    /\ Goto(r, "consume")
    /\ UNCHANGED <<dbVars, redisVars, fillVars, ghosts>>

\* Mutant: the script's check and its INCR let one use too many through.
WithinLimitOffByOne(c) == maxUses[c] > 0 => uses[c] <= maxUses[c]

\* The limit counts only when it is positive.
WithinLimit(c) == maxUses[c] > 0 => uses[c] < maxUses[c]

\* consumeInviteScript raises the counter.  If the answer is lost, the client
\* runs the script again or gives up, and the request fails with "Internal":
\* either way nobody takes the use back.
Raise(r) ==
    LET c == code[r] IN
    /\ At(r, "consume")
    /\ uses[c] # NoCounter
    /\ uses[c] < MaxCount
    /\ WithinLimit(c)
    /\ uses' = [uses EXCEPT ![c] = @ + 1]
    /\ \/ Goto(r, "create") /\ UNCHANGED high
       \/ (Answer(r) \/ UNCHANGED requestVars) /\ high' = high \cup {c}
    /\ UNCHANGED <<dbVars, info, filter, fillVars, low>>

\* The invite has expired, the counter is missing or at its limit, or Redis fails.
ConsumeRefuses(r) ==
    /\ At(r, "consume")
    /\ Answer(r)
    /\ UNCHANGED <<dbVars, redisVars, fillVars, ghosts>>

\* The insert succeeds.  If its answer is lost, the use is rolled back and the
\* member stays.
Insert(r) ==
    LET c == code[r] IN
    /\ At(r, "create")
    /\ joined[user[r]] = NoCode
    /\ joined' = [joined EXCEPT ![user[r]] = c]
    /\ \/ Answer(r) /\ UNCHANGED low
       \/ Goto(r, "rollback") /\ low' = low \cup {c}
    /\ UNCHANGED <<maxUses, usedCount, redisVars, fillVars, high>>

\* The member exists already: the request succeeds, and keeps the use.
InsertRepeated(r) ==
    /\ At(r, "create")
    /\ joined[user[r]] # NoCode
    /\ Answer(r)
    /\ high' = high \cup {code[r]}
    /\ UNCHANGED <<dbVars, redisVars, fillVars, low>>

InsertFails(r) ==
    /\ At(r, "create")
    /\ Goto(r, "rollback")
    /\ UNCHANGED <<dbVars, redisVars, fillVars, ghosts>>

\* Mutants: the script lowers a missing key too, resets the counter, or lowers
\* nothing.
GiveBackAlways(n) == n - 1

GiveBackAll(n) == 0

GiveBackNone(n) == n

\* rollbackInviteScript: nothing to lower when the key is gone or zero.
GiveBack(n) == IF n > 0 THEN n - 1 ELSE n

\* The use is given back.  If the answer is lost, the client may run the script
\* again.
Rollback(r) ==
    /\ At(r, "rollback")
    /\ uses' = [uses EXCEPT ![code[r]] = GiveBack(@)]
    /\ Answer(r) \/ Goto(r, "again")
    /\ UNCHANGED <<dbVars, info, filter, fillVars, ghosts>>

\* The script lowers the counter once more for the same use, or the client's
\* further attempts do not reach Redis.
RollbackAgain(r) ==
    LET c == code[r] IN
    /\ At(r, "again")
    /\ \/ /\ uses' = [uses EXCEPT ![c] = GiveBack(@)]
          /\ low' = IF uses[c] > 0 THEN low \cup {c} ELSE low
          /\ Answer(r) \/ UNCHANGED requestVars
       \/ Answer(r) /\ UNCHANGED <<uses, low>>
    /\ UNCHANGED <<dbVars, info, filter, fillVars, high>>

\* Redis fails; the error is not looked at.
RollbackFails(r) ==
    /\ At(r, "rollback")
    /\ Answer(r)
    /\ high' = high \cup {code[r]}
    /\ UNCHANGED <<dbVars, redisVars, fillVars, low>>

-----------------------------------------------------------------------------
(***************************************************************************)
(* The process and the other components.                                   *)
(***************************************************************************)
\* The process ends and takes its requests and goroutines with it.
CoreEnd ==
    /\ step' = [r \in Requests |-> "idle"]
    /\ user' = [r \in Requests |-> NoUser]
    /\ code' = [r \in Requests |-> NoCode]
    /\ fill' = [c \in Codes |-> "none"]
    /\ flight' = [c \in Codes |-> "none"]
    /\ seen' = [c \in Codes |-> 0]
    /\ filter' = [c \in Codes |-> IF filter[c] = "yes" THEN "yes" ELSE "no"]
    /\ high' = high \cup {c \in Codes : Pending(c) # {}}
    /\ UNCHANGED <<dbVars, info, uses, low>>

\* FillUses with max_uses NULL dereferences it, and nothing recovers.
FillPanics(c) ==
    /\ fill[c] = "uses"
    /\ maxUses[c] = Unlimited
    /\ CoreEnd

Members == INSTANCE JoinCount WITH joins <- [c \in Codes |-> Cardinality(Admitted(c))]

\* The consumer of the members table's changes adds joins to used_count.
CountJoins ==
    /\ UNCHANGED <<maxUses, joined, redisVars, fillVars, requestVars, ghosts>>
    /\ Members!Count

Flight(c) == FlightRead(c) \/ FlightFails(c) \/ FlightInfo(c) \/ FlightUses(c)

Goroutine(c) == AddToFilter(c) \/ FillInfo(c) \/ FillUses(c) \/ FillPanics(c)

Expire(c) == ExpireInfo(c) \/ ExpireUses(c)

Serve(r) ==
    \/ LookupMiss(r) \/ LookupHit(r) \/ LookupError(r)
    \/ CheckRefuses(r) \/ CheckPasses(r)
    \/ Raise(r) \/ ConsumeRefuses(r)
    \/ Insert(r) \/ InsertRepeated(r) \/ InsertFails(r)
    \/ Rollback(r) \/ RollbackAgain(r) \/ RollbackFails(r)

Next ==
    \/ CountJoins \/ CoreEnd
    \/ \E c \in Codes : CreateServerInvite(c) \/ Goroutine(c) \/ Flight(c) \/ Expire(c)
    \/ \E r \in Requests : Accept(r) \/ Serve(r)

Spec == Init /\ [][Next]_vars

-----------------------------------------------------------------------------
(***************************************************************************)
(* The counter never falls below the seats taken, across concurrent        *)
(* accepts, rollbacks, expiries and ends of the process, except in one of  *)
(* three ways: it was set from a count that lags behind, the answer to an  *)
(* insert was lost, or the client repeated a rollback that Redis had       *)
(* executed already.                                                       *)
(***************************************************************************)
SeatsAreCounted ==
    \A c \in Codes \ low : uses[c] # NoCounter => Seats(c) <= uses[c]

(***************************************************************************)
(* The counter never exceeds the seats taken, so that no use is burnt,     *)
(* unless one of these happened: a lost answer of Redis to a use, a failed *)
(* rollback, a user who was a member already, a process that ended between *)
(* the use and the member, a count too high set from the database, or one  *)
(* of the three ways to leave it too low.                                  *)
(***************************************************************************)
NoUseIsBurnt ==
    \A c \in Codes \ (low \cup high) : uses[c] # NoCounter => uses[c] <= Seats(c)

(***************************************************************************)
(* An invite admits no more users than its limit, unless its counter was   *)
(* left too low in one of the three ways.                                  *)
(***************************************************************************)
AdmissionsWithinLimit ==
    \A c \in Codes \ low : maxUses[c] > 0 => Cardinality(Admitted(c)) <= maxUses[c]
=============================================================================
