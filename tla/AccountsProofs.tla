--------------------------- MODULE AccountsProofs ---------------------------
(***************************************************************************)
(* Proofs about Accounts: the type invariant, and the three invariants     *)
(* that relate devices, sessions and keys, for any number of devices,      *)
(* accounts and seconds.                                                   *)
(***************************************************************************)
EXTENDS Accounts, TLAPS

USE DEF dbVars, redisVars, requestVars, ghosts, vars

-----------------------------------------------------------------------------
(***************************************************************************)
(* A request that is under way has an account, one that signs out has a    *)
(* cookie, and one that inserts has made a token: what Signout reads from  *)
(* the cookie is still there when it deletes the session.                  *)
(***************************************************************************)
RequestOK ==
    \A d \in Devices :
        /\ step[d] # "idle" => email[d] \in Emails
        /\ step[d] = "lookup" => op[d] \in {"SignIn", "Clerk", "SignOut", "Forget"}
        /\ step[d] = "delete" => op[d] \in {"SignOut", "Forget"}
        /\ op[d] \in {"SignOut", "Forget"} =>
                cookie[d] \in Tokens /\ step[d] \in {"lookup", "delete"}
        /\ step[d] = "insert" => token[d] \in Tokens

IInv ==
    TypeOK /\ RequestOK /\ DevicesHaveSessions /\ SessionsHaveDevices /\ AccountsAreCached

\* The disjuncts of Next, one by one.
LEMMA NextCases ==
    ASSUME [Next]_vars
    PROVE  \/ Tick \/ End
           \/ \E d \in Devices : Enter(d)
           \/ \E d \in Devices : SignOut(d)
           \/ \E d \in Devices : SignOutNoCookie(d)
           \/ \E d \in Devices : LookupFinds(d)
           \/ \E d \in Devices : LookupFails(d)
           \/ \E d \in Devices : WrongPassword(d)
           \/ \E d \in Devices : CreateUser(d)
           \/ \E d \in Devices : CreateUserFails(d)
           \/ \E d \in Devices : GenerateToken(d)
           \/ \E d \in Devices : CreateSession(d)
           \/ \E d \in Devices : CreateSessionFails(d)
           \/ \E d \in Devices : DeleteUserSession(d)
           \/ \E d \in Devices : DeleteUserSessionFails(d)
           \/ \E d \in Devices : ForgetExpired(d)
           \/ \E e \in Emails : RunTask(e)
           \/ UNCHANGED vars
  BY Zenon DEF Next, Serve

LEMMA InitIInv == Init => IInv
<1> SUFFICES ASSUME Init PROVE IInv
  OBVIOUS
<1> USE DEF Init
<1>1. TypeOK
  BY AccountsAssumption DEF TypeOK, Handlers, Steps
<1>2. RequestOK /\ DevicesHaveSessions /\ SessionsHaveDevices /\ AccountsAreCached
  BY DEF RequestOK, DevicesHaveSessions, SessionsHaveDevices, AccountsAreCached
<1> QED
  BY <1>1, <1>2 DEF IInv

-----------------------------------------------------------------------------
(***************************************************************************)
(* The type invariant, action by action.                                   *)
(***************************************************************************)
LEMMA AnswerTypes ==
    ASSUME TypeOK, NEW d \in Devices, Answer(d)
    PROVE  /\ op' \in [Devices -> Handlers \cup {"none"}]
           /\ step' \in [Devices -> Steps]
           /\ email' \in [Devices -> Emails \cup {NoEmail}]
           /\ token' \in [Devices -> Tokens \cup {NoToken}]
  BY DEF TypeOK, Answer, Steps

LEMMA RefuseTypes ==
    ASSUME TypeOK, NEW d \in Devices, Refuse(d)
    PROVE  TypeOK'
  BY AnswerTypes DEF TypeOK, Refuse

LEMMA GotoTypes ==
    ASSUME TypeOK, NEW d \in Devices, NEW s \in Steps, Goto(d, s)
    PROVE  /\ op' \in [Devices -> Handlers \cup {"none"}]
           /\ step' \in [Devices -> Steps]
           /\ email' \in [Devices -> Emails \cup {NoEmail}]
           /\ token' \in [Devices -> Tokens \cup {NoToken}]
  BY DEF TypeOK, Goto

\* What a token is made of, and that it is none of the other values.
LEMMA TokenParts ==
    ASSUME NEW t \in Tokens
    PROVE  t[1] \in Emails /\ t[2] \in 0 .. MaxClock /\ t # NoToken
  BY AccountsAssumption DEF Tokens

LEMMA ForgottenTypes ==
    ASSUME TypeOK, NEW d \in Devices
    PROVE  Forgotten(d) \subseteq Tokens
  BY DEF TypeOK, Forgotten

LEMMA NewTokenType ==
    ASSUME TypeOK, NEW d \in Devices, email[d] \in Emails
    PROVE  NewToken(d) \in Tokens
  BY DEF TypeOK, NewToken, Tokens

LEMMA NextTypeOK == TypeOK /\ RequestOK /\ [Next]_vars => TypeOK'
<1> SUFFICES ASSUME TypeOK, RequestOK, [Next]_vars PROVE TypeOK'
  OBVIOUS
<1>1. CASE Tick
  BY <1>1, AccountsAssumption DEF TypeOK, Tick
<1>2. CASE End
  BY <1>2 DEF TypeOK, End, Steps
<1>3. ASSUME NEW d \in Devices, Enter(d) PROVE TypeOK'
  <2>1. PICK o \in {"SignUp", "SignIn", "Clerk"}, e \in Emails :
            /\ op' = [op EXCEPT ![d] = o]
            /\ step' = [step EXCEPT ![d] = IF o = "SignUp" THEN "create" ELSE "lookup"]
            /\ email' = [email EXCEPT ![d] = e]
    BY <1>3 DEF Enter, SignUp, SignIn, ClerkSigninSignup, EnterAs
  <2>2. UNCHANGED <<dbVars, redisVars, clock, token, cookie, ghosts>>
    BY <1>3 DEF Enter, SignUp, SignIn, ClerkSigninSignup, EnterAs
  <2> QED
    BY <2>1, <2>2 DEF TypeOK, Handlers, Steps
<1>4. ASSUME NEW d \in Devices, SignOut(d) PROVE TypeOK'
  <2>1. cookie[d] \in Tokens
    BY <1>4 DEF SignOut, TypeOK
  <2>2. cookie[d][1] \in Emails
    BY <2>1, TokenParts
  <2> QED
    BY <1>4, <2>2 DEF SignOut, TypeOK, Handlers, Steps
<1>5. ASSUME NEW d \in Devices, SignOutNoCookie(d) PROVE TypeOK'
  BY <1>5, ForgottenTypes DEF SignOutNoCookie, TypeOK
<1>6. ASSUME NEW d \in Devices, LookupFinds(d) PROVE TypeOK'
  <2>1. step[d] = "lookup" /\ Goto(d, AfterLookup[op[d]])
    BY <1>6 DEF LookupFinds, At
  <2>2. AfterLookup[op[d]] \in {"session", "delete"}
    BY <2>1 DEF RequestOK, AfterLookup
  <2> QED
    BY <1>6, <2>1, <2>2, GotoTypes DEF LookupFinds, TypeOK, Steps
<1>7. ASSUME NEW d \in Devices, LookupFails(d) PROVE TypeOK'
  BY <1>7, GotoTypes, AnswerTypes DEF LookupFails, TypeOK, Steps
<1>8. ASSUME NEW d \in Devices, WrongPassword(d) \/ CreateUserFails(d) \/ CreateSessionFails(d)
      PROVE TypeOK'
  BY <1>8, RefuseTypes DEF WrongPassword, CreateUserFails, CreateSessionFails
<1>9. ASSUME NEW d \in Devices, CreateUser(d) PROVE TypeOK'
  <2>1. email[d] \in Emails
    BY <1>9 DEF CreateUser, At, RequestOK
  <2>2. /\ op' \in [Devices -> Handlers \cup {"none"}]
        /\ step' \in [Devices -> Steps]
        /\ email' \in [Devices -> Emails \cup {NoEmail}]
        /\ token' \in [Devices -> Tokens \cup {NoToken}]
    BY <1>9, GotoTypes, AnswerTypes DEF CreateUser, Steps
  <2> QED
    BY <1>9, <2>1, <2>2 DEF CreateUser, KeyTask, TypeOK
<1>10. ASSUME NEW d \in Devices, CreateSession(d) PROVE TypeOK'
  <2> DEFINE t == token[d]
  <2>1. t \in Tokens
    BY <1>10 DEF CreateSession, At, RequestOK
  <2>2. sessions' \in [Tokens -> Nat]
    BY <1>10, <2>1 DEF CreateSession, TypeOK
  <2>3. /\ cookie' \in [Devices -> Tokens \cup {NoToken}]
        /\ stray' \subseteq Tokens /\ ended' \subseteq Tokens
    BY <1>10, <2>1, ForgottenTypes DEF CreateSession, TypeOK
  <2> QED
    BY <1>10, <2>2, <2>3, AnswerTypes DEF CreateSession, TypeOK
<1>11. ASSUME NEW d \in Devices, DeleteUserSession(d) PROVE TypeOK'
  <2>1. cookie[d] \in Tokens
    BY <1>11 DEF DeleteUserSession, At, RequestOK
  <2>2. sessions' \in [Tokens -> Nat]
    BY <1>11 DEF DeleteUserSession, TypeOK, RowsLeft
  <2>3. /\ cookie' \in [Devices -> Tokens \cup {NoToken}]
        /\ stray' \subseteq Tokens /\ ended' \subseteq Tokens
    BY <1>11, <2>1 DEF DeleteUserSession, TypeOK
  <2> QED
    BY <1>11, <2>2, <2>3, AnswerTypes DEF DeleteUserSession, TypeOK
<1>12. ASSUME NEW d \in Devices, DeleteUserSessionFails(d) PROVE TypeOK'
  BY <1>12, AnswerTypes DEF DeleteUserSessionFails, CookieAfterError, TypeOK
<1>13. ASSUME NEW d \in Devices, ForgetExpired(d) PROVE TypeOK'
  BY <1>13, AnswerTypes, ForgottenTypes DEF ForgetExpired, TypeOK
<1>14. ASSUME NEW e \in Emails, RunTask(e) PROVE TypeOK'
  BY <1>14 DEF RunTask, TypeOK
<1>15. ASSUME NEW d \in Devices, GenerateToken(d) PROVE TypeOK'
  <2>1. NewToken(d) \in Tokens
    BY <1>15, NewTokenType DEF GenerateToken, At, RequestOK
  <2> QED
    BY <1>15, <2>1 DEF GenerateToken, TypeOK, Steps
<1>16. CASE UNCHANGED vars
  BY <1>16 DEF TypeOK
<1> QED
  BY <1>1, <1>2, <1>3, <1>4, <1>5, <1>6, <1>7, <1>8, <1>9, <1>10, <1>11, <1>12, <1>13,
     <1>14, <1>15, <1>16, NextCases, Zenon

-----------------------------------------------------------------------------
LEMMA NextRequestOK == TypeOK /\ RequestOK /\ [Next]_vars => RequestOK'
<1> SUFFICES ASSUME TypeOK, RequestOK, [Next]_vars PROVE RequestOK'
  OBVIOUS
<1> USE DEF RequestOK
<1>1. CASE Tick
  BY <1>1 DEF Tick
<1>2. CASE End
  BY <1>2 DEF End
<1>3. ASSUME NEW d \in Devices, Enter(d) PROVE RequestOK'
  <2>1. PICK o \in {"SignUp", "SignIn", "Clerk"}, e \in Emails :
            /\ op' = [op EXCEPT ![d] = o]
            /\ step' = [step EXCEPT ![d] = IF o = "SignUp" THEN "create" ELSE "lookup"]
            /\ email' = [email EXCEPT ![d] = e]
    BY <1>3 DEF Enter, SignUp, SignIn, ClerkSigninSignup, EnterAs
  <2>2. UNCHANGED <<token, cookie>>
    BY <1>3 DEF Enter, SignUp, SignIn, ClerkSigninSignup, EnterAs
  <2> QED
    BY <2>1, <2>2 DEF TypeOK
<1>4. ASSUME NEW d \in Devices, SignOut(d) PROVE RequestOK'
  <2>1. cookie[d] \in Tokens
    BY <1>4 DEF SignOut, TypeOK
  <2>2. cookie[d][1] \in Emails
    BY <2>1, TokenParts
  <2> QED
    BY <1>4, <2>1, <2>2 DEF SignOut, TypeOK
<1>5. ASSUME NEW d \in Devices, SignOutNoCookie(d) PROVE RequestOK'
  BY <1>5 DEF SignOutNoCookie, At, TypeOK
<1>6. ASSUME NEW d \in Devices, LookupFinds(d) PROVE RequestOK'
  BY <1>6 DEF LookupFinds, At, Goto, AfterLookup, TypeOK
<1>7. ASSUME NEW d \in Devices, LookupFails(d) PROVE RequestOK'
  BY <1>7 DEF LookupFails, At, Goto, Answer, TypeOK
<1>8. ASSUME NEW d \in Devices, WrongPassword(d) \/ CreateUserFails(d) \/ CreateSessionFails(d)
      PROVE RequestOK'
  BY <1>8 DEF WrongPassword, CreateUserFails, CreateSessionFails, Refuse, Answer, TypeOK
<1>9. ASSUME NEW d \in Devices, CreateUser(d) PROVE RequestOK'
  <2>1. step[d] = "create" /\ cookie' = cookie /\ (Goto(d, "session") \/ Answer(d))
    BY <1>9 DEF CreateUser, At
  <2> QED
    BY <2>1 DEF Goto, Answer, TypeOK
<1>10. ASSUME NEW d \in Devices, CreateSession(d) PROVE RequestOK'
  <2>1. /\ step[d] = "insert" /\ Answer(d)
        /\ cookie' = [cookie EXCEPT ![d] = token[d]] \/ cookie' = cookie
    BY <1>10 DEF CreateSession, At
  <2> QED
    BY <2>1 DEF Answer, TypeOK
<1>11. ASSUME NEW d \in Devices,
              DeleteUserSession(d) \/ DeleteUserSessionFails(d) \/ ForgetExpired(d)
       PROVE RequestOK'
  <2>1. Answer(d) /\ \E kept \in Tokens \cup {NoToken} : cookie' = [cookie EXCEPT ![d] = kept]
    BY <1>11 DEF DeleteUserSession, DeleteUserSessionFails, ForgetExpired, CookieAfterError,
                 TypeOK
  <2> QED
    BY <2>1 DEF Answer, TypeOK
<1>12. ASSUME NEW e \in Emails, RunTask(e) PROVE RequestOK'
  BY <1>12 DEF RunTask
<1>13. ASSUME NEW d \in Devices, GenerateToken(d) PROVE RequestOK'
  <2>1. NewToken(d) \in Tokens
    BY <1>13, NewTokenType DEF GenerateToken, At
  <2> QED
    BY <1>13, <2>1 DEF GenerateToken, At, TypeOK
<1>14. CASE UNCHANGED vars
  BY <1>14
<1> QED
  BY <1>1, <1>2, <1>3, <1>4, <1>5, <1>6, <1>7, <1>8, <1>9, <1>10, <1>11, <1>12, <1>13,
     <1>14, NextCases, Zenon

-----------------------------------------------------------------------------
(***************************************************************************)
(* Only three actions move a token or a row; the other actions leave both  *)
(* where they are.                                                         *)
(***************************************************************************)
LEMMA SessionsKept ==
    ASSUME DevicesHaveSessions, SessionsHaveDevices,
           UNCHANGED <<sessions, cookie, ended, stray>>
    PROVE  DevicesHaveSessions' /\ SessionsHaveDevices'
  BY DEF DevicesHaveSessions, SessionsHaveDevices

\* A device gives up its token, which becomes stray.
LEMMA TokenForgotten ==
    ASSUME TypeOK, DevicesHaveSessions, SessionsHaveDevices, NEW d \in Devices,
           UNCHANGED <<sessions, ended>>,
           stray' = stray \cup Forgotten(d), cookie' = [cookie EXCEPT ![d] = NoToken]
    PROVE  DevicesHaveSessions' /\ SessionsHaveDevices'
<1>1. DevicesHaveSessions'
  BY DEF DevicesHaveSessions, TypeOK
<1>2. ASSUME NEW t \in Tokens, sessions'[t] > 0
      PROVE t \in stray' \/ \E x \in Devices : cookie'[x] = t
  <2>1. t \in stray \/ \E x \in Devices : cookie[x] = t
    BY <1>2 DEF SessionsHaveDevices
  <2>2. CASE t \in stray
    BY <2>2
  <2>3. ASSUME NEW x \in Devices, cookie[x] = t PROVE t \in stray' \/ cookie'[x] = t
    <3>1. t # NoToken
      BY TokenParts
    <3> QED
      BY <2>3, <3>1 DEF Forgotten, TypeOK
  <2> QED
    BY <2>1, <2>2, <2>3
<1> QED
  BY <1>1, <1>2 DEF SessionsHaveDevices

LEMMA SessionCreated ==
    ASSUME TypeOK, RequestOK, DevicesHaveSessions, SessionsHaveDevices, NEW d \in Devices,
           CreateSession(d)
    PROVE  DevicesHaveSessions' /\ SessionsHaveDevices'
<1> DEFINE t == token[d]
<1>1. t \in Tokens
  BY DEF CreateSession, At, RequestOK
<1>2. /\ sessions' \in [Tokens -> Nat]
      /\ sessions'[t] > 0
      /\ \A s \in Tokens : s # t => sessions'[s] = sessions[s]
  BY <1>1 DEF CreateSession, TypeOK
<1>3. CASE /\ cookie' = [cookie EXCEPT ![d] = t]
           /\ stray' = stray \cup (Forgotten(d) \ {t})
           /\ ended' = ended \ {t}
  <2>1. ASSUME NEW x \in Devices, cookie'[x] # NoToken, cookie'[x] \notin ended'
        PROVE sessions'[cookie'[x]] > 0
    <3>1. CASE cookie'[x] = t
      BY <1>2, <3>1
    <3>2. CASE cookie'[x] # t
      <4>1. cookie'[x] = cookie[x] /\ cookie[x] \in Tokens /\ cookie[x] \notin ended
        BY <1>3, <2>1, <3>2 DEF TypeOK
      <4> QED
        BY <1>2, <2>1, <3>2, <4>1 DEF DevicesHaveSessions
    <3> QED
      BY <3>1, <3>2
  <2>2. ASSUME NEW s \in Tokens, sessions'[s] > 0
        PROVE s \in stray' \/ \E x \in Devices : cookie'[x] = s
    <3>1. CASE s = t
      BY <1>3, <3>1 DEF TypeOK
    <3>2. CASE s # t
      <4>1. s \in stray \/ \E x \in Devices : cookie[x] = s
        BY <1>2, <2>2, <3>2 DEF SessionsHaveDevices
      <4>2. s # NoToken
        BY TokenParts
      <4>3. ASSUME NEW x \in Devices, cookie[x] = s PROVE s \in stray' \/ cookie'[x] = s
        BY <1>3, <3>2, <4>2, <4>3 DEF Forgotten, TypeOK
      <4> QED
        BY <1>3, <4>1, <4>3
    <3> QED
      BY <3>1, <3>2
  <2> QED
    BY <2>1, <2>2 DEF DevicesHaveSessions, SessionsHaveDevices
<1>4. CASE stray' = stray \cup {t} /\ UNCHANGED <<cookie, ended>>
  <2>1. ASSUME NEW x \in Devices, cookie[x] # NoToken, cookie[x] \notin ended
        PROVE sessions'[cookie[x]] > 0
    <3>1. cookie[x] \in Tokens /\ sessions[cookie[x]] > 0
      BY <2>1 DEF DevicesHaveSessions, TypeOK
    <3> QED
      BY <1>2, <3>1
  <2>2. ASSUME NEW s \in Tokens, sessions'[s] > 0
        PROVE s \in stray' \/ \E x \in Devices : cookie[x] = s
    BY <1>2, <1>4, <2>2 DEF SessionsHaveDevices
  <2> QED
    BY <1>4, <2>1, <2>2 DEF DevicesHaveSessions, SessionsHaveDevices
<1> QED
  BY <1>3, <1>4 DEF CreateSession

LEMMA SessionDeleted ==
    ASSUME TypeOK, RequestOK, DevicesHaveSessions, SessionsHaveDevices, NEW d \in Devices,
           DeleteUserSession(d)
    PROVE  DevicesHaveSessions' /\ SessionsHaveDevices'
<1> DEFINE t == cookie[d]
<1>1. t \in Tokens
  BY DEF DeleteUserSession, At, RequestOK
<1>2. /\ sessions' = [s \in Tokens |-> IF s = t THEN 0 ELSE sessions[s]]
      /\ ended' = ended \cup {t} /\ stray' = stray \ {t}
  BY DEF DeleteUserSession, SameSession, RowsLeft
<1>3. PICK kept \in {t, NoToken} : cookie' = [cookie EXCEPT ![d] = kept]
  BY DEF DeleteUserSession
<1>4. \A x \in Devices : cookie'[x] = cookie[x] \/ (x = d /\ cookie'[x] = NoToken)
  BY <1>3 DEF TypeOK
<1>5. ASSUME NEW x \in Devices, cookie'[x] # NoToken, cookie'[x] \notin ended'
      PROVE sessions'[cookie'[x]] > 0
  <2>1. cookie'[x] = cookie[x]
    BY <1>4, <1>5
  <2>2. cookie[x] \in Tokens /\ cookie[x] # t /\ cookie[x] \notin ended
    BY <1>2, <1>5, <2>1 DEF TypeOK
  <2> QED
    BY <1>2, <1>5, <2>1, <2>2 DEF DevicesHaveSessions
<1>6. ASSUME NEW s \in Tokens, sessions'[s] > 0
      PROVE s \in stray' \/ \E x \in Devices : cookie'[x] = s
  <2>1. s # t /\ sessions[s] > 0
    BY <1>2, <1>6
  <2>2. s \in stray \/ \E x \in Devices : cookie[x] = s
    BY <2>1 DEF SessionsHaveDevices
  <2>3. ASSUME NEW x \in Devices, cookie[x] = s PROVE cookie'[x] = s
    BY <1>3, <2>1, <2>3 DEF TypeOK
  <2> QED
    BY <1>2, <2>1, <2>2, <2>3
<1> QED
  BY <1>5, <1>6 DEF DevicesHaveSessions, SessionsHaveDevices

LEMMA NextSessions ==
    IInv /\ [Next]_vars => DevicesHaveSessions' /\ SessionsHaveDevices'
<1> SUFFICES ASSUME IInv, [Next]_vars PROVE DevicesHaveSessions' /\ SessionsHaveDevices'
  OBVIOUS
<1> USE DEF IInv
<1>1. CASE \/ Tick \/ End \/ UNCHANGED vars \/ \E e \in Emails : RunTask(e)
  BY <1>1, SessionsKept DEF Tick, End, RunTask
<1>2. ASSUME NEW d \in Devices,
             \/ Enter(d) \/ SignOut(d) \/ LookupFinds(d) \/ LookupFails(d)
             \/ WrongPassword(d) \/ CreateUser(d) \/ CreateUserFails(d)
             \/ GenerateToken(d) \/ CreateSessionFails(d)
      PROVE DevicesHaveSessions' /\ SessionsHaveDevices'
  BY <1>2, SessionsKept DEF Enter, SignUp, SignIn, ClerkSigninSignup, EnterAs, SignOut,
        LookupFinds, LookupFails, WrongPassword, CreateUser, CreateUserFails,
        GenerateToken, CreateSessionFails, Refuse
<1>3. ASSUME NEW d \in Devices, SignOutNoCookie(d) \/ ForgetExpired(d)
      PROVE DevicesHaveSessions' /\ SessionsHaveDevices'
  BY <1>3, TokenForgotten DEF SignOutNoCookie, ForgetExpired
<1>4. ASSUME NEW d \in Devices, DeleteUserSessionFails(d)
      PROVE DevicesHaveSessions' /\ SessionsHaveDevices'
  <2>1. cookie' = cookie
    BY <1>4 DEF DeleteUserSessionFails, CookieAfterError, TypeOK
  <2> QED
    BY <1>4, <2>1, SessionsKept DEF DeleteUserSessionFails
<1> QED
  BY <1>1, <1>2, <1>3, <1>4, SessionCreated, SessionDeleted, NextCases, Zenon

-----------------------------------------------------------------------------
LEMMA NextCached == IInv /\ [Next]_vars => AccountsAreCached'
<1> SUFFICES ASSUME IInv, [Next]_vars PROVE AccountsAreCached'
  OBVIOUS
<1> USE DEF IInv, AccountsAreCached
<1>1. CASE End
  BY <1>1 DEF End
<1>2. ASSUME NEW d \in Devices, CreateUser(d) PROVE AccountsAreCached'
  BY <1>2 DEF CreateUser, KeyTask
<1>3. ASSUME NEW e \in Emails, RunTask(e) PROVE AccountsAreCached'
  BY <1>3 DEF RunTask
<1>4. CASE UNCHANGED <<accounts, userKeys, tasks, lost>>
  BY <1>4
<1>5. CASE Tick \/ UNCHANGED vars
  BY <1>4, <1>5 DEF Tick
<1>6. ASSUME NEW d \in Devices,
             \/ Enter(d) \/ SignOut(d) \/ SignOutNoCookie(d) \/ LookupFinds(d)
             \/ LookupFails(d) \/ WrongPassword(d) \/ CreateUserFails(d)
             \/ GenerateToken(d) \/ CreateSession(d) \/ CreateSessionFails(d)
             \/ DeleteUserSession(d)
             \/ DeleteUserSessionFails(d) \/ ForgetExpired(d)
      PROVE AccountsAreCached'
  BY <1>4, <1>6 DEF Enter, SignUp, SignIn, ClerkSigninSignup, EnterAs, SignOut,
        SignOutNoCookie, LookupFinds, LookupFails, WrongPassword,
        CreateUserFails, GenerateToken, CreateSession, CreateSessionFails, DeleteUserSession,
        DeleteUserSessionFails, ForgetExpired, Refuse
<1> QED
  BY <1>1, <1>2, <1>3, <1>5, <1>6, NextCases, Zenon

LEMMA NextIInv == IInv /\ [Next]_vars => IInv'
  BY NextTypeOK, NextRequestOK, NextSessions, NextCached, Zenon DEF IInv

LEMMA Invariance == Spec => []IInv
  BY InitIInv, NextIInv, PTL DEF Spec

-----------------------------------------------------------------------------
\* The variables of Accounts keep their types.
THEOREM AccountsTypeOK == Spec => []TypeOK
<1>1. IInv => TypeOK
  BY DEF IInv
<1> QED
  BY <1>1, Invariance, PTL

\* A device with a refresh token has a session for it, unless a sign-out ended
\* that very token.
THEOREM AccountsDevicesHaveSessions == Spec => []DevicesHaveSessions
<1>1. IInv => DevicesHaveSessions
  BY DEF IInv
<1> QED
  BY <1>1, Invariance, PTL

\* No session is left without a device that could end it, but for the stray ones.
THEOREM AccountsSessionsHaveDevices == Spec => []SessionsHaveDevices
<1>1. IInv => SessionsHaveDevices
  BY DEF IInv
<1> QED
  BY <1>1, Invariance, PTL

\* Every account's key is in Redis, on its way, or lost.
THEOREM AccountsAreCachedAlways == Spec => []AccountsAreCached
<1>1. IInv => AccountsAreCached
  BY DEF IInv
<1> QED
  BY <1>1, Invariance, PTL
=============================================================================
