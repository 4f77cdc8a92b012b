------------------------------ MODULE Accounts ------------------------------
(***************************************************************************)
(* Accounts and sessions: the gateway's sign-up, sign-in, Clerk and        *)
(* sign-out handlers, the rows they write, the devices that hold the       *)
(* refresh tokens, and the users' keys in Redis.                           *)
(*                                                                         *)
(* A users row is its email, which is unique, and no row is ever deleted.  *)
(* A refresh token is the account and the second it was made in: its       *)
(* claims hold nothing else, so that two sign-ins of a user within a       *)
(* second get the same token.                                              *)
(***************************************************************************)
EXTENDS Integers

CONSTANTS
    Emails, NoEmail,
    Devices,     \* clients; each waits for its answer before it asks again
    NoToken,
    MaxClock,    \* bound: the seconds that pass
    Validity,    \* RefreshTokenValidity in seconds
    MaxSessions  \* bound: the rows of one token

ASSUME AccountsAssumption ==
    /\ NoEmail \notin Emails
    /\ MaxClock \in Nat
    /\ NoToken \notin Emails \X (0 .. MaxClock)

Tokens == Emails \X (0 .. MaxClock)

VARIABLES
    accounts,  \* users: the emails that have a row
    sessions,  \* user_sessions: how many rows have the token
    userKeys,  \* User.Info keys in Redis, which have no time to live
    tasks,     \* accounts whose key a goroutine is about to set
    clock,     \* the second
    op,        \* the handler that serves the device
    step,      \* what it does next
    email,     \* the account it is about
    token,     \* the refresh token it has made
    cookie,    \* the refresh token the device holds
    lost,      \* ghost: accounts whose key was lost
    ended,     \* ghost: tokens some device's sign-out has ended
    stray      \* ghost: tokens that can have a row no device can end

dbVars == <<accounts, sessions>>
redisVars == <<userKeys, tasks>>
requestVars == <<op, step, email, token>>
ghosts == <<lost, ended, stray>>
vars == <<dbVars, redisVars, clock, requestVars, cookie, ghosts>>

\* "Forget" is Signout with a token that had expired when it was parsed.
Handlers == {"SignUp", "SignIn", "Clerk", "SignOut", "Forget"}

Steps == {"idle", "lookup", "create", "session", "insert", "delete"}

TypeOK ==
    /\ accounts \subseteq Emails
    /\ sessions \in [Tokens -> Nat]
    /\ userKeys \subseteq Emails
    /\ tasks \subseteq Emails
    /\ clock \in 0 .. MaxClock
    /\ op \in [Devices -> Handlers \cup {"none"}]
    /\ step \in [Devices -> Steps]
    /\ email \in [Devices -> Emails \cup {NoEmail}]
    /\ token \in [Devices -> Tokens \cup {NoToken}]
    /\ cookie \in [Devices -> Tokens \cup {NoToken}]
    /\ lost \subseteq Emails
    /\ ended \subseteq Tokens
    /\ stray \subseteq Tokens

Init ==
    /\ accounts = {}
    /\ sessions = [t \in Tokens |-> 0]
    /\ userKeys = {}
    /\ tasks = {}
    /\ clock = 0
    /\ op = [d \in Devices |-> "none"]
    /\ step = [d \in Devices |-> "idle"]
    /\ email = [d \in Devices |-> NoEmail]
    /\ token = [d \in Devices |-> NoToken]
    /\ cookie = [d \in Devices |-> NoToken]
    /\ lost = {}
    /\ ended = {}
    /\ stray = {}

Tick ==
    /\ clock < MaxClock
    /\ clock' = clock + 1
    /\ UNCHANGED <<dbVars, redisVars, requestVars, cookie, ghosts>>

-----------------------------------------------------------------------------
(***************************************************************************)
(* Requests and answers.                                                   *)
(***************************************************************************)
At(d, s) == step[d] = s

Goto(d, s) == step' = [step EXCEPT ![d] = s] /\ UNCHANGED <<op, email, token>>

Answer(d) ==
    /\ op' = [op EXCEPT ![d] = "none"]
    /\ step' = [step EXCEPT ![d] = "idle"]
    /\ email' = [email EXCEPT ![d] = NoEmail]
    /\ token' = [token EXCEPT ![d] = NoToken]

\* An error: the cookie is left alone.
Refuse(d) ==
    /\ Answer(d)
    /\ UNCHANGED <<dbVars, redisVars, clock, cookie, ghosts>>

\* The device's token goes and its row stays.
Forgotten(d) == {cookie[d]} \ {NoToken}

\* A body with the required fields; the first call that may change state.
EnterAs(d, o, first) ==
    /\ At(d, "idle")
    /\ op' = [op EXCEPT ![d] = o]
    /\ step' = [step EXCEPT ![d] = first]
    /\ \E e \in Emails : email' = [email EXCEPT ![d] = e]
    /\ UNCHANGED <<dbVars, redisVars, clock, token, cookie, ghosts>>

SignUp(d) == EnterAs(d, "SignUp", "create")

SignIn(d) == EnterAs(d, "SignIn", "lookup")

ClerkSigninSignup(d) == EnterAs(d, "Clerk", "lookup")

Enter(d) == SignUp(d) \/ SignIn(d) \/ ClerkSigninSignup(d)

Expired(t) == clock >= t[2] + Validity

\* Sign-out with the refresh token, whose claims name the account.  Whether it is
\* valid is seen here and used after the lookup.
SignOut(d) ==
    /\ At(d, "idle")
    /\ cookie[d] # NoToken
    /\ op' = [op EXCEPT ![d] = IF Expired(cookie[d]) THEN "Forget" ELSE "SignOut"]
    /\ step' = [step EXCEPT ![d] = "lookup"]
    /\ email' = [email EXCEPT ![d] = cookie[d][1]]
    /\ UNCHANGED <<dbVars, redisVars, clock, token, cookie, ghosts>>

\* Sign-out without it: the cookie's path is /api/auth/refresh, and no browser
\* sends it to /api/auth/signout.  The cookies are cleared and the row stays.
SignOutNoCookie(d) ==
    /\ At(d, "idle")
    /\ stray' = stray \cup Forgotten(d)
    /\ cookie' = [cookie EXCEPT ![d] = NoToken]
    /\ UNCHANGED <<dbVars, redisVars, clock, requestVars, lost, ended>>

-----------------------------------------------------------------------------
(***************************************************************************)
(* GetUserByEmail, which fails in one way whether there is no row or no    *)
(* database.                                                               *)
(***************************************************************************)
AfterLookup ==
    [SignIn |-> "session", Clerk |-> "session", SignOut |-> "delete", Forget |-> "delete"]

LookupFinds(d) ==
    /\ At(d, "lookup")
    /\ email[d] \in accounts
    /\ Goto(d, AfterLookup[op[d]])
    /\ UNCHANGED <<dbVars, redisVars, clock, cookie, ghosts>>

\* Clerk takes every failure for a new user.
LookupFails(d) ==
    /\ At(d, "lookup")
    /\ IF op[d] = "Clerk" THEN Goto(d, "create") ELSE Answer(d)
    /\ UNCHANGED <<dbVars, redisVars, clock, cookie, ghosts>>

WrongPassword(d) ==
    /\ At(d, "session") /\ op[d] = "SignIn"
    /\ Refuse(d)

-----------------------------------------------------------------------------
(***************************************************************************)
(* createUserHelper and accountCacheStore.CreateUser.                      *)
(***************************************************************************)
\* Mutant: the user's key is set at the next sign-in.
KeyTaskLater(e) == {}

\* The goroutine that CreateUser starts.
KeyTask(e) == {e}

CreateUser(d) ==
    /\ At(d, "create")
    /\ email[d] \notin accounts
    /\ accounts' = accounts \cup {email[d]}
    /\ \/ /\ tasks' = tasks \cup KeyTask(email[d])
          /\ Goto(d, "session")
          /\ UNCHANGED lost
       \/ \* the database's answer is lost
          /\ Answer(d)
          /\ lost' = lost \cup {email[d]}
          /\ UNCHANGED tasks
    /\ UNCHANGED <<sessions, userKeys, clock, cookie, ended, stray>>

\* The email is taken, or it does not fit into username, or there is no database.
CreateUserFails(d) ==
    /\ At(d, "create")
    /\ Refuse(d)

\* CacheManager.Set, whose error nobody looks at.
RunTask(e) ==
    /\ e \in tasks
    /\ tasks' = tasks \ {e}
    /\ \/ userKeys' = userKeys \cup {e} /\ UNCHANGED lost
       \/ lost' = lost \cup {e} /\ UNCHANGED userKeys
    /\ UNCHANGED <<dbVars, clock, requestVars, cookie, ended, stray>>

-----------------------------------------------------------------------------
(***************************************************************************)
(* genererateUserSession: the token, its row and the cookie.               *)
(***************************************************************************)
NewToken(d) == <<email[d], clock>>

GenerateToken(d) ==
    /\ At(d, "session")
    /\ token' = [token EXCEPT ![d] = NewToken(d)]
    /\ step' = [step EXCEPT ![d] = "insert"]
    /\ UNCHANGED <<dbVars, redisVars, clock, op, email, cookie, ghosts>>

\* The insert, in the token's second or later.  The device keeps the token, or
\* never gets the answer.  What it held before is overwritten; its row stays.
CreateSession(d) ==
    LET t == token[d] IN
    /\ At(d, "insert")
    /\ sessions[t] < MaxSessions
    /\ sessions' = [sessions EXCEPT ![t] = @ + 1]
    /\ Answer(d)
    /\ \/ /\ cookie' = [cookie EXCEPT ![d] = t]
          /\ stray' = stray \cup (Forgotten(d) \ {t})
          /\ ended' = ended \ {t}
       \/ /\ stray' = stray \cup {t}
          /\ UNCHANGED <<cookie, ended>>
    /\ UNCHANGED <<accounts, redisVars, clock, lost>>

\* The account, if it is new, stays without a session.
CreateSessionFails(d) ==
    /\ At(d, "session") \/ At(d, "insert")
    /\ Refuse(d)

-----------------------------------------------------------------------------
(***************************************************************************)
(* Signout with the token.                                                 *)
(***************************************************************************)
\* Mutant: DeleteUserAllSessions.
SameSessionAnyToken(t) == {s \in Tokens : s[1] = t[1]}

\* DeleteUserSession: every row of the user with this token.
SameSession(t) == {t}

\* Mutant: one row goes, even where there is none.
RowsLeftOneLess(n) == n - 1

\* A DELETE without LIMIT.
RowsLeft(n) == 0

\* Mutant: the cookies are cleared before the database's answer.
CookieAfterErrorCleared(d) == NoToken

CookieAfterError(d) == cookie[d]

\* The rows go.  If the answer is lost on its way, the device keeps the token.
DeleteUserSession(d) ==
    LET t == cookie[d] IN
    /\ At(d, "delete") /\ op[d] = "SignOut"
    /\ sessions' =
          [s \in Tokens |-> IF s \in SameSession(t) THEN RowsLeft(sessions[s]) ELSE sessions[s]]
    /\ ended' = ended \cup {t}
    /\ stray' = stray \ {t}
    /\ \E kept \in {cookie[d], NoToken} : cookie' = [cookie EXCEPT ![d] = kept]
    /\ Answer(d)
    /\ UNCHANGED <<accounts, redisVars, clock, lost>>

\* "Unable to delete user session".
DeleteUserSessionFails(d) ==
    /\ At(d, "delete") /\ op[d] = "SignOut"
    /\ Answer(d)
    /\ cookie' = [cookie EXCEPT ![d] = CookieAfterError(d)]
    /\ UNCHANGED <<dbVars, redisVars, clock, ghosts>>

\* An expired token is forgotten; its row stays.
ForgetExpired(d) ==
    /\ At(d, "delete") /\ op[d] = "Forget"
    /\ stray' = stray \cup Forgotten(d)
    /\ cookie' = [cookie EXCEPT ![d] = NoToken]
    /\ Answer(d)
    /\ UNCHANGED <<dbVars, redisVars, clock, lost, ended>>

-----------------------------------------------------------------------------
\* The gateway ends with its requests and goroutines.
End ==
    /\ op' = [d \in Devices |-> "none"]
    /\ step' = [d \in Devices |-> "idle"]
    /\ email' = [d \in Devices |-> NoEmail]
    /\ token' = [d \in Devices |-> NoToken]
    /\ tasks' = {}
    /\ lost' = lost \cup tasks
    /\ UNCHANGED <<dbVars, userKeys, clock, cookie, ended, stray>>

Serve(d) ==
    \/ LookupFinds(d) \/ LookupFails(d) \/ WrongPassword(d)
    \/ CreateUser(d) \/ CreateUserFails(d)
    \/ GenerateToken(d) \/ CreateSession(d) \/ CreateSessionFails(d)
    \/ DeleteUserSession(d) \/ DeleteUserSessionFails(d) \/ ForgetExpired(d)

Next ==
    \/ Tick \/ End
    \/ \E d \in Devices : Enter(d) \/ SignOut(d) \/ SignOutNoCookie(d) \/ Serve(d)
    \/ \E e \in Emails : RunTask(e)

Spec == Init /\ [][Next]_vars

-----------------------------------------------------------------------------
(***************************************************************************)
(* A device that holds a refresh token has a session for it, whatever      *)
(* other devices of the user do, unless a sign-out has ended the very same *)
(* token: its own, whose answer was lost, or that of a device which signed *)
(* in within the same second.                                              *)
(***************************************************************************)
DevicesHaveSessions ==
    \A d \in Devices :
        cookie[d] # NoToken /\ cookie[d] \notin ended => sessions[cookie[d]] > 0

(***************************************************************************)
(* No session outlives the devices that could end it, except in one of     *)
(* these ways: the answer with the token was lost, the device signed in    *)
(* again over it, or it signed out without the token or after its expiry.  *)
(***************************************************************************)
SessionsHaveDevices ==
    \A t \in Tokens :
        sessions[t] > 0 => t \in stray \/ \E d \in Devices : cookie[d] = t

(***************************************************************************)
(* Every account's key reaches Redis, where alone the typing indicators    *)
(* look for the name, unless the one attempt to set it was lost: Redis     *)
(* failed, the process ended, or the insert's answer did not come.         *)
(***************************************************************************)
AccountsAreCached == accounts \subseteq userKeys \cup tasks \cup lost
=============================================================================
