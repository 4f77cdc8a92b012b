---------------------------- MODULE InvitesProofs ----------------------------
(***************************************************************************)
(* Proofs about Invites: the type invariant, the two bounds between the    *)
(* counter and the seats, the limit, and that Invites joins and counts as  *)
(* JoinCount does, for any number of codes, users and requests.            *)
(***************************************************************************)
EXTENDS Invites, FiniteSetTheorems, TLAPS

USE DEF dbVars, redisVars, fillVars, requestVars, ghosts, vars

-----------------------------------------------------------------------------
(***************************************************************************)
(* The parts of the inductive invariant.                                   *)
(***************************************************************************)
\* A request that is under way has a user and a code.
RequestOK ==
    \A r \in Requests : step[r] # "idle" => user[r] \in Users /\ code[r] \in Codes

\* A code without a row has no counter, no seats and nobody who would set one.
RowOK ==
    \A c \in Codes : maxUses[c] = NoRow =>
        /\ uses[c] = NoCounter /\ Admitted(c) = {} /\ Pending(c) = {}
        /\ fill[c] = "none" /\ flight[c] \in {"none", "read"}

\* The seats against the limit: AdmissionsWithinLimit with the uses that are
\* still pending.
SeatsWithinLimit ==
    \A c \in Codes \ low : maxUses[c] > 0 => Seats(c) <= maxUses[c]

SeatsOK == SeatsAreCounted /\ SeatsWithinLimit /\ NoUseIsBurnt

IInv == TypeOK /\ RequestOK /\ RowOK /\ SeatsOK

\* The disjuncts of Next, one by one.
LEMMA NextCases ==
    ASSUME [Next]_vars
    PROVE  \/ CountJoins \/ CoreEnd
           \/ \E c \in Codes : CreateServerInvite(c)
           \/ \E c \in Codes : AddToFilter(c)
           \/ \E c \in Codes : FillInfo(c)
           \/ \E c \in Codes : FillUses(c)
           \/ \E c \in Codes : FillPanics(c)
           \/ \E c \in Codes : FlightRead(c)
           \/ \E c \in Codes : FlightFails(c)
           \/ \E c \in Codes : FlightInfo(c)
           \/ \E c \in Codes : FlightUses(c)
           \/ \E c \in Codes : ExpireInfo(c)
           \/ \E c \in Codes : ExpireUses(c)
           \/ \E r \in Requests : Accept(r)
           \/ \E r \in Requests : LookupMiss(r) \/ CheckRefuses(r) \/ ConsumeRefuses(r)
           \/ \E r \in Requests : LookupHit(r) \/ CheckPasses(r)
           \/ \E r \in Requests : LookupError(r)
           \/ \E r \in Requests : Raise(r)
           \/ \E r \in Requests : Insert(r)
           \/ \E r \in Requests : InsertRepeated(r)
           \/ \E r \in Requests : InsertFails(r)
           \/ \E r \in Requests : Rollback(r)
           \/ \E r \in Requests : RollbackAgain(r)
           \/ \E r \in Requests : RollbackFails(r)
           \/ UNCHANGED vars
  BY Zenon DEF Next, Serve, Flight, Goroutine, Expire

-----------------------------------------------------------------------------
(***************************************************************************)
(* Types.                                                                  *)
(***************************************************************************)
DbTypeOK ==
    /\ maxUses \in [Codes -> MaxUses \cup {Unlimited, NoRow}]
    /\ usedCount \in [Codes -> Nat]
    /\ joined \in [Users -> Codes \cup {NoCode}]

RedisTypeOK ==
    /\ info \subseteq Codes
    /\ filter \in [Codes -> {"no", "adding", "yes"}]
    /\ uses \in [Codes -> Nat \cup {NoCounter}]

FillTypeOK ==
    /\ fill \in [Codes -> {"none", "info", "uses"}]
    /\ flight \in [Codes -> {"none", "read", "info", "uses"}]
    /\ seen \in [Codes -> Nat]

RequestTypeOK ==
    /\ step \in [Requests -> Steps]
    /\ user \in [Requests -> Users \cup {NoUser}]
    /\ code \in [Requests -> Codes \cup {NoCode}]

GhostTypeOK == low \subseteq Codes /\ high \subseteq Codes

PartsOK == DbTypeOK /\ RedisTypeOK /\ FillTypeOK /\ RequestTypeOK /\ GhostTypeOK

LEMMA TypeParts == TypeOK <=> PartsOK
  BY DEF TypeOK, PartsOK, DbTypeOK, RedisTypeOK, FillTypeOK, RequestTypeOK, GhostTypeOK

LEMMA AnswerTypes ==
    ASSUME RequestTypeOK, NEW r \in Requests, Answer(r)
    PROVE  RequestTypeOK'
  BY DEF RequestTypeOK, Answer, Steps

LEMMA GotoTypes ==
    ASSUME RequestTypeOK, NEW r \in Requests, NEW s \in Steps, Goto(r, s)
    PROVE  RequestTypeOK'
  BY DEF RequestTypeOK, Goto

LEMMA SetInfoTypes ==
    ASSUME RedisTypeOK, NEW c \in Codes, SetInfo(c), UNCHANGED uses
    PROVE  RedisTypeOK'
  BY DEF RedisTypeOK, SetInfo, AddsLater

LEMMA SetUsesTypes ==
    ASSUME RedisTypeOK, GhostTypeOK, NEW c \in Codes, NEW n \in Nat, SetUses(c, n),
           UNCHANGED info
    PROVE  RedisTypeOK' /\ GhostTypeOK'
  BY DEF RedisTypeOK, GhostTypeOK, SetUses, AddsLater

LEMMA CoreEndTypes == TypeOK /\ CoreEnd => TypeOK'
  BY DEF TypeOK, CoreEnd, Steps

LEMMA NextTypeOK == TypeOK /\ RequestOK /\ [Next]_vars => TypeOK'
<1> SUFFICES ASSUME TypeOK, RequestOK, [Next]_vars PROVE TypeOK'
  OBVIOUS
<1> USE DEF PartsOK
<1>0. PartsOK
  BY TypeParts
<1>a. SUFFICES PartsOK'
  BY DEF TypeOK, DbTypeOK, RedisTypeOK, FillTypeOK, RequestTypeOK, GhostTypeOK
<1>b. /\ UNCHANGED dbVars => DbTypeOK'
      /\ UNCHANGED redisVars => RedisTypeOK'
      /\ UNCHANGED fillVars => FillTypeOK'
      /\ UNCHANGED requestVars => RequestTypeOK'
      /\ UNCHANGED ghosts => GhostTypeOK'
  BY <1>0 DEF DbTypeOK, RedisTypeOK, FillTypeOK, RequestTypeOK, GhostTypeOK
<1>1. CASE CountJoins
  <2>1. usedCount' \in [Codes -> Nat]
    <3>1. PICK sums \in [Codes -> UNION {0 .. MaxDeliveries * Cardinality(Admitted(c)) : c \in Codes}] :
              usedCount' = sums
      BY <1>1 DEF CountJoins, Members!Count
    <3>2. \A c \in Codes : sums[c] \in Nat
      BY <3>1
    <3> QED
      BY <3>1, <3>2
  <2>2. DbTypeOK'
    BY <1>0, <1>1, <2>1 DEF CountJoins, DbTypeOK
  <2> QED
    BY <1>1, <1>b, <2>2 DEF CountJoins
<1>2. CASE CoreEnd
  BY <1>2, CoreEndTypes, TypeParts DEF TypeOK, DbTypeOK, RedisTypeOK, FillTypeOK, RequestTypeOK,
     GhostTypeOK
<1>3. ASSUME NEW c \in Codes, CreateServerInvite(c)
      PROVE PartsOK'
  <2>1. DbTypeOK' /\ FillTypeOK'
    BY <1>0, <1>3 DEF CreateServerInvite, InsertInvite, DbTypeOK, FillTypeOK
  <2> QED
    BY <1>3, <1>b, <2>1 DEF CreateServerInvite, InsertInvite
<1>4. ASSUME NEW c \in Codes, AddToFilter(c) \/ ExpireInfo(c) \/ ExpireUses(c)
      PROVE PartsOK'
  <2>1. RedisTypeOK'
    BY <1>0, <1>4 DEF AddToFilter, ExpireInfo, ExpireUses, RedisTypeOK
  <2> QED
    BY <1>4, <1>b, <2>1 DEF AddToFilter, ExpireInfo, ExpireUses
<1>5. ASSUME NEW c \in Codes, FillInfo(c)
      PROVE PartsOK'
  <2>1. RedisTypeOK'
    BY <1>0, <1>5, SetInfoTypes DEF FillInfo
  <2>2. FillTypeOK'
    BY <1>0, <1>5 DEF FillInfo, FillTypeOK
  <2> QED
    BY <1>5, <1>b, <2>1, <2>2 DEF FillInfo
<1>6. ASSUME NEW c \in Codes, FillUses(c)
      PROVE PartsOK'
  <2>1. RedisTypeOK' /\ GhostTypeOK'
    BY <1>0, <1>6, SetUsesTypes DEF FillUses
  <2>2. FillTypeOK'
    BY <1>0, <1>6 DEF FillUses, FillTypeOK
  <2> QED
    BY <1>6, <1>b, <2>1, <2>2 DEF FillUses
<1>7. ASSUME NEW c \in Codes, FillPanics(c)
      PROVE PartsOK'
  BY <1>2, <1>7 DEF FillPanics
<1>8. ASSUME NEW c \in Codes, FlightRead(c)
      PROVE PartsOK'
  <2>1. FillTypeOK'
    BY <1>0, <1>8 DEF FlightRead, FillTypeOK, DbTypeOK
  <2> QED
    BY <1>8, <1>b, <2>1 DEF FlightRead
<1>9. ASSUME NEW c \in Codes, FlightFails(c)
      PROVE PartsOK'
  <2>1. FillTypeOK' /\ RequestTypeOK'
    BY <1>0, <1>9 DEF FlightFails, Land, FillTypeOK, RequestTypeOK, Steps
  <2> QED
    BY <1>9, <1>b, <2>1 DEF FlightFails
<1>10. ASSUME NEW c \in Codes, FlightInfo(c)
       PROVE PartsOK'
  <2>1. RedisTypeOK'
    BY <1>0, <1>10, SetInfoTypes DEF FlightInfo
  <2>2. FillTypeOK'
    BY <1>0, <1>10 DEF FlightInfo, FillTypeOK
  <2> QED
    BY <1>10, <1>b, <2>1, <2>2 DEF FlightInfo
<1>11. ASSUME NEW c \in Codes, FlightUses(c)
       PROVE PartsOK'
  <2>1. seen[c] \in Nat
    BY <1>0 DEF FillTypeOK
  <2>2. RedisTypeOK' /\ GhostTypeOK'
    BY <1>0, <1>11, <2>1, SetUsesTypes DEF FlightUses
  <2>3. FillTypeOK' /\ RequestTypeOK'
    <3>1. CASE UNCHANGED <<fillVars, step>>
      BY <1>0, <1>11, <3>1 DEF FlightUses, FillTypeOK, RequestTypeOK
    <3>2. CASE /\ Land(c)
               /\ step' = [r \in Requests |-> IF r \in Waiting(c) THEN "check" ELSE step[r]]
      BY <1>0, <1>11, <3>2 DEF FlightUses, Land, FillTypeOK, RequestTypeOK, Steps
    <3> QED
      BY <1>11, <3>1, <3>2 DEF FlightUses
  <2> QED
    BY <1>11, <1>b, <2>2, <2>3 DEF FlightUses
<1>12. ASSUME NEW r \in Requests, Accept(r)
       PROVE PartsOK'
  <2>1. RequestTypeOK'
    BY <1>0, <1>12 DEF Accept, RequestTypeOK, Steps
  <2> QED
    BY <1>12, <1>b, <2>1 DEF Accept
<1>13. ASSUME NEW r \in Requests, LookupMiss(r) \/ CheckRefuses(r) \/ ConsumeRefuses(r)
       PROVE PartsOK'
  BY <1>0, <1>13, <1>b, AnswerTypes DEF LookupMiss, CheckRefuses, ConsumeRefuses
<1>14. ASSUME NEW r \in Requests, LookupHit(r) \/ CheckPasses(r)
       PROVE PartsOK'
  BY <1>0, <1>14, <1>b, GotoTypes DEF LookupHit, CheckPasses, Steps
<1>15. ASSUME NEW r \in Requests, LookupError(r)
       PROVE PartsOK'
  <2>1. RequestTypeOK'
    BY <1>0, <1>15, GotoTypes DEF LookupError, Steps
  <2>2. FillTypeOK'
    BY <1>0, <1>15 DEF LookupError, FillTypeOK
  <2> QED
    BY <1>15, <1>b, <2>1, <2>2 DEF LookupError
<1>16. ASSUME NEW r \in Requests, Raise(r)
       PROVE PartsOK'
  <2>1. code[r] \in Codes /\ uses[code[r]] # NoCounter
    BY <1>16 DEF Raise, At, RequestOK
  <2>2. RedisTypeOK'
    BY <1>0, <1>16, <2>1 DEF Raise, RedisTypeOK
  <2>3. RequestTypeOK'
    BY <1>0, <1>16, <1>b, AnswerTypes, GotoTypes DEF Raise, Steps
  <2>4. GhostTypeOK'
    BY <1>0, <1>16, <2>1 DEF Raise, GhostTypeOK
  <2> QED
    BY <1>16, <1>b, <2>2, <2>3, <2>4 DEF Raise
<1>17. ASSUME NEW r \in Requests, Insert(r)
       PROVE PartsOK'
  <2>1. code[r] \in Codes /\ user[r] \in Users
    BY <1>17 DEF Insert, At, RequestOK
  <2>2. DbTypeOK'
    BY <1>0, <1>17, <2>1 DEF Insert, DbTypeOK
  <2>3. RequestTypeOK'
    BY <1>0, <1>17, AnswerTypes, GotoTypes DEF Insert, Steps
  <2>4. GhostTypeOK'
    BY <1>0, <1>17, <2>1 DEF Insert, GhostTypeOK
  <2> QED
    BY <1>17, <1>b, <2>2, <2>3, <2>4 DEF Insert
<1>18. ASSUME NEW r \in Requests, InsertRepeated(r) \/ RollbackFails(r)
       PROVE PartsOK'
  <2>1. code[r] \in Codes
    BY <1>18 DEF InsertRepeated, RollbackFails, At, RequestOK
  <2>2. GhostTypeOK' /\ RequestTypeOK'
    BY <1>0, <1>18, <2>1, AnswerTypes DEF InsertRepeated, RollbackFails, GhostTypeOK
  <2> QED
    BY <1>18, <1>b, <2>2 DEF InsertRepeated, RollbackFails
<1>19. ASSUME NEW r \in Requests, InsertFails(r)
       PROVE PartsOK'
  BY <1>0, <1>19, <1>b, GotoTypes DEF InsertFails, Steps
<1>20. ASSUME NEW r \in Requests, Rollback(r)
       PROVE PartsOK'
  <2>1. code[r] \in Codes
    BY <1>20 DEF Rollback, At, RequestOK
  <2>2. RedisTypeOK'
    BY <1>0, <1>20, <2>1 DEF Rollback, GiveBack, RedisTypeOK, NoCounter
  <2>3. RequestTypeOK'
    BY <1>0, <1>20, AnswerTypes, GotoTypes DEF Rollback, Steps
  <2> QED
    BY <1>20, <1>b, <2>2, <2>3 DEF Rollback
<1>21. ASSUME NEW r \in Requests, RollbackAgain(r)
       PROVE PartsOK'
  <2>1. code[r] \in Codes
    BY <1>21 DEF RollbackAgain, At, RequestOK
  <2>2. RedisTypeOK'
    BY <1>0, <1>21, <2>1 DEF RollbackAgain, GiveBack, RedisTypeOK, NoCounter
  <2>3. RequestTypeOK'
    BY <1>0, <1>21, <1>b, AnswerTypes DEF RollbackAgain
  <2>4. GhostTypeOK'
    BY <1>0, <1>21, <2>1 DEF RollbackAgain, GhostTypeOK
  <2> QED
    BY <1>21, <1>b, <2>2, <2>3, <2>4 DEF RollbackAgain
<1>22. CASE UNCHANGED vars
  BY <1>22, <1>b
<1> QED
  BY <1>1, <1>2, <1>3, <1>4, <1>5, <1>6, <1>7, <1>8, <1>9, <1>10, <1>11, <1>12, <1>13, <1>14,
     <1>15, <1>16, <1>17, <1>18, <1>19, <1>20, <1>21, <1>22, NextCases, Zenon

-----------------------------------------------------------------------------
(***************************************************************************)
(* Requests.                                                               *)
(***************************************************************************)
LEMMA NextRequestOK == TypeOK /\ RequestOK /\ [Next]_vars => RequestOK'
<1> SUFFICES ASSUME TypeOK, RequestOK, [Next]_vars PROVE RequestOK'
  OBVIOUS
<1>1. CASE UNCHANGED requestVars
  BY <1>1 DEF RequestOK
<1>2. ASSUME NEW r \in Requests, NEW s \in Steps, step[r] # "idle", Goto(r, s)
      PROVE RequestOK'
  BY <1>2 DEF RequestOK, Goto, TypeOK
<1>3. ASSUME NEW r \in Requests, Answer(r) PROVE RequestOK'
  BY <1>3 DEF RequestOK, Answer, TypeOK
<1>4. CASE CountJoins \/ UNCHANGED vars
  BY <1>1, <1>4 DEF CountJoins
<1>5. CASE CoreEnd
  BY <1>5 DEF CoreEnd, RequestOK
<1>6. ASSUME NEW c \in Codes,
             \/ CreateServerInvite(c) \/ AddToFilter(c) \/ FillInfo(c) \/ FillUses(c)
             \/ FlightRead(c) \/ FlightInfo(c) \/ ExpireInfo(c) \/ ExpireUses(c)
      PROVE RequestOK'
  BY <1>1, <1>6 DEF CreateServerInvite, InsertInvite, AddToFilter, FillInfo, FillUses,
        FlightRead, FlightInfo, ExpireInfo, ExpireUses
<1>7. ASSUME NEW c \in Codes, FillPanics(c) PROVE RequestOK'
  BY <1>5, <1>7 DEF FillPanics
<1>8. ASSUME NEW c \in Codes, FlightFails(c) PROVE RequestOK'
  BY <1>8 DEF FlightFails, RequestOK
<1>9. ASSUME NEW c \in Codes, FlightUses(c) PROVE RequestOK'
  BY <1>9 DEF FlightUses, RequestOK, Waiting
<1>10. ASSUME NEW r \in Requests, Accept(r) PROVE RequestOK'
  BY <1>10 DEF Accept, RequestOK, TypeOK
<1>11. ASSUME NEW r \in Requests,
              \/ LookupMiss(r) \/ CheckRefuses(r) \/ ConsumeRefuses(r) \/ InsertRepeated(r)
              \/ RollbackAgain(r) \/ RollbackFails(r)
       PROVE RequestOK'
  BY <1>1, <1>3, <1>11 DEF LookupMiss, CheckRefuses, ConsumeRefuses, InsertRepeated,
     RollbackAgain, RollbackFails
<1>12. ASSUME NEW r \in Requests,
              \/ LookupHit(r) \/ CheckPasses(r) \/ LookupError(r) \/ InsertFails(r)
       PROVE RequestOK'
  BY <1>2, <1>12 DEF LookupHit, CheckPasses, LookupError, InsertFails, At, Steps
<1>13. ASSUME NEW r \in Requests, Raise(r) \/ Insert(r) \/ Rollback(r) PROVE RequestOK'
  BY <1>1, <1>2, <1>3, <1>13 DEF Raise, Insert, Rollback, At, Steps
<1> QED
  BY <1>4, <1>5, <1>6, <1>7, <1>8, <1>9, <1>10, <1>11, <1>12, <1>13, NextCases, Zenon

-----------------------------------------------------------------------------
(***************************************************************************)
(* Seats: what each kind of step does to them.                             *)
(***************************************************************************)
LEMMA SeatsFinite ==
    ASSUME NEW c \in Codes
    PROVE  /\ IsFiniteSet(Admitted(c)) /\ IsFiniteSet(Pending(c))
           /\ Cardinality(Admitted(c)) \in Nat /\ Cardinality(Pending(c)) \in Nat
           /\ Seats(c) \in Nat
<1>1. Admitted(c) \in SUBSET Users /\ Pending(c) \in SUBSET Requests
  BY DEF Admitted, Pending
<1>2. IsFiniteSet(Admitted(c)) /\ IsFiniteSet(Pending(c))
  BY <1>1, FS_Subset, InvitesAssumption
<1>3. Cardinality(Admitted(c)) \in Nat /\ Cardinality(Pending(c)) \in Nat
  BY <1>2, FS_CardinalityType
<1> QED
  BY <1>2, <1>3 DEF Seats

\* The steps that matter for Pending.
Counted == {"create", "rollback"}

LEMMA PendingKept ==
    ASSUME \A r \in Requests : /\ step'[r] \in Counted <=> step[r] \in Counted
                               /\ step[r] \in Counted => code'[r] = code[r]
    PROVE  \A c \in Codes : Pending(c)' = Pending(c)
  BY DEF Pending, Counted

\* The four requests' moves, as sets of pending requests.
LEMMA PendingGoto ==
    ASSUME TypeOK, NEW r \in Requests, NEW s \in Steps, Goto(r, s),
           step[r] \in Counted <=> s \in Counted
    PROVE  \A c \in Codes : Pending(c)' = Pending(c)
  BY PendingKept DEF Goto, TypeOK

LEMMA PendingAnswer ==
    ASSUME TypeOK, NEW r \in Requests, Answer(r) \/ Goto(r, "again")
    PROVE  \A c \in Codes : Pending(c)' = Pending(c) \ {r}
  BY DEF Answer, Goto, TypeOK, Pending

LEMMA PendingRaise ==
    ASSUME TypeOK, NEW r \in Requests, step[r] = "consume", Goto(r, "create")
    PROVE  \A c \in Codes :
               /\ r \notin Pending(c)
               /\ Pending(c)' = IF c = code[r] THEN Pending(c) \cup {r} ELSE Pending(c)
  BY DEF Goto, TypeOK, Pending

LEMMA AdmittedKept == UNCHANGED joined => \A c \in Codes : Admitted(c)' = Admitted(c)
  BY DEF Admitted

LEMMA AdmittedInsert ==
    ASSUME TypeOK, NEW u \in Users, NEW d \in Codes, joined[u] = NoCode,
           joined' = [joined EXCEPT ![u] = d]
    PROVE  \A c \in Codes :
               /\ u \notin Admitted(c)
               /\ Admitted(c)' = IF c = d THEN Admitted(c) \cup {u} ELSE Admitted(c)
  BY InvitesAssumption DEF TypeOK, Admitted

\* The steps that leave every seat.
LEMMA SeatsKept ==
    ASSUME UNCHANGED joined, \A c \in Codes : Pending(c)' = Pending(c)
    PROVE  \A c \in Codes : Seats(c)' = Seats(c)
  BY AdmittedKept DEF Seats

\* A request that is answered, or whose rollback is executed, gives up its seat,
\* if it had one.
LEMMA SeatsAnswer ==
    ASSUME TypeOK, UNCHANGED joined, NEW r \in Requests, Answer(r) \/ Goto(r, "again")
    PROVE  \A c \in Codes :
               Seats(c)' = IF r \in Pending(c) THEN Seats(c) - 1 ELSE Seats(c)
<1> SUFFICES ASSUME NEW c \in Codes
             PROVE Seats(c)' = IF r \in Pending(c) THEN Seats(c) - 1 ELSE Seats(c)
  OBVIOUS
<1>1. Pending(c)' = Pending(c) \ {r} /\ Admitted(c)' = Admitted(c)
  BY PendingAnswer, AdmittedKept
<1>2. Cardinality(Pending(c) \ {r}) =
          IF r \in Pending(c) THEN Cardinality(Pending(c)) - 1 ELSE Cardinality(Pending(c))
  BY SeatsFinite, FS_RemoveElement
<1> QED
  BY <1>1, <1>2, SeatsFinite DEF Seats

LEMMA SeatsRaise ==
    ASSUME TypeOK, UNCHANGED joined, NEW r \in Requests, step[r] = "consume", Goto(r, "create")
    PROVE  \A c \in Codes : Seats(c)' = IF c = code[r] THEN Seats(c) + 1 ELSE Seats(c)
<1> SUFFICES ASSUME NEW c \in Codes
             PROVE Seats(c)' = IF c = code[r] THEN Seats(c) + 1 ELSE Seats(c)
  OBVIOUS
<1>1. /\ r \notin Pending(c) /\ Admitted(c)' = Admitted(c)
      /\ Pending(c)' = IF c = code[r] THEN Pending(c) \cup {r} ELSE Pending(c)
  BY PendingRaise, AdmittedKept
<1>2. Cardinality(Pending(c) \cup {r}) = Cardinality(Pending(c)) + 1
  BY <1>1, SeatsFinite, FS_AddElement
<1> QED
  BY <1>1, <1>2, SeatsFinite DEF Seats

\* An insert turns the request's seat into a member's, or adds the member's if
\* the request is to be rolled back.
LEMMA SeatsInsert ==
    ASSUME TypeOK, RequestOK, NEW r \in Requests, Insert(r)
    PROVE  /\ code[r] \in Codes
           /\ \A c \in Codes :
                /\ Answer(r) => Seats(c)' = Seats(c)
                /\ c # code[r] => Seats(c)' = Seats(c)
                /\ Seats(c) <= Seats(c)'
<1>1. /\ step[r] = "create" /\ joined[user[r]] = NoCode
      /\ joined' = [joined EXCEPT ![user[r]] = code[r]]
      /\ Answer(r) \/ Goto(r, "rollback")
  BY DEF Insert, At
<1>2. code[r] \in Codes /\ user[r] \in Users
  BY <1>1 DEF RequestOK
<1> SUFFICES ASSUME NEW c \in Codes
             PROVE /\ Answer(r) => Seats(c)' = Seats(c)
                   /\ c # code[r] => Seats(c)' = Seats(c)
                   /\ Seats(c) <= Seats(c)'
  BY <1>2
<1>3. /\ user[r] \notin Admitted(c)
      /\ Admitted(c)' = IF c = code[r] THEN Admitted(c) \cup {user[r]} ELSE Admitted(c)
  BY <1>1, <1>2, AdmittedInsert
<1>4. Cardinality(Admitted(c) \cup {user[r]}) = Cardinality(Admitted(c)) + 1
  BY <1>3, SeatsFinite, FS_AddElement
<1>5. r \in Pending(c) <=> c = code[r]
  BY <1>1 DEF Pending
<1>6. CASE Answer(r)
  <2>1. Pending(c)' = Pending(c) \ {r}
    BY <1>6, PendingAnswer
  <2>2. Cardinality(Pending(c) \ {r}) =
            IF r \in Pending(c) THEN Cardinality(Pending(c)) - 1 ELSE Cardinality(Pending(c))
    BY SeatsFinite, FS_RemoveElement
  <2> QED
    BY <1>3, <1>4, <1>5, <2>1, <2>2, SeatsFinite DEF Seats
<1>7. CASE Goto(r, "rollback") /\ ~Answer(r)
  <2>1. Pending(c)' = Pending(c)
    BY <1>1, <1>7, PendingGoto DEF Steps, Counted
  <2> QED
    BY <1>3, <1>4, <1>7, <2>1, SeatsFinite DEF Seats
<1> QED
  BY <1>1, <1>6, <1>7

\* The process takes the pending requests with it.
LEMMA SeatsEnd ==
    ASSUME CoreEnd
    PROVE  \A c \in Codes : /\ Seats(c)' <= Seats(c)
                            /\ Pending(c) = {} => Seats(c)' = Seats(c)
<1> SUFFICES ASSUME NEW c \in Codes
             PROVE Seats(c)' <= Seats(c) /\ (Pending(c) = {} => Seats(c)' = Seats(c))
  OBVIOUS
<1>1. Pending(c)' = {} /\ Admitted(c)' = Admitted(c)
  BY AdmittedKept DEF CoreEnd, Pending
<1>2. Cardinality({}) = 0
  BY FS_EmptySet
<1> QED
  BY <1>1, <1>2, SeatsFinite DEF Seats

-----------------------------------------------------------------------------
(***************************************************************************)
(* Codes without a row.                                                    *)
(***************************************************************************)
LEMMA RowKept ==
    ASSUME RowOK,
           \A c \in Codes : maxUses'[c] = NoRow =>
               /\ maxUses[c] = NoRow
               /\ uses'[c] = uses[c] /\ fill'[c] = fill[c]
               /\ flight'[c] = flight[c] \/ flight'[c] \in {"none", "read"}
               /\ Admitted(c)' = Admitted(c)
               /\ Pending(c)' \subseteq Pending(c)
    PROVE  RowOK'
  BY DEF RowOK

LEMMA NextRowOK == TypeOK /\ RequestOK /\ RowOK /\ [Next]_vars => RowOK'
<1> SUFFICES ASSUME TypeOK, RequestOK, RowOK, [Next]_vars PROVE RowOK'
  OBVIOUS
<1>0. UNCHANGED requestVars => \A c \in Codes : Pending(c)' = Pending(c)
  BY PendingKept
<1>1. CASE CountJoins \/ UNCHANGED vars
  BY <1>0, <1>1, AdmittedKept, RowKept DEF CountJoins
<1>2. CASE CoreEnd
  <2>1. \A c \in Codes : Pending(c)' = {} /\ fill'[c] = "none" /\ flight'[c] = "none"
    BY <1>2 DEF CoreEnd, Pending
  <2>2. \A c \in Codes : Admitted(c)' = Admitted(c)
    BY <1>2, AdmittedKept DEF CoreEnd
  <2> QED
    BY <1>2, <2>1, <2>2 DEF CoreEnd, RowOK
<1>3. ASSUME NEW c \in Codes, CreateServerInvite(c) PROVE RowOK'
  <2>1. \A d \in Codes : Pending(d)' = Pending(d) /\ Admitted(d)' = Admitted(d)
    BY <1>0, <1>3, AdmittedKept DEF CreateServerInvite, InsertInvite
  <2>2. \A d \in Codes \ {c} : maxUses'[d] = maxUses[d] /\ fill'[d] = fill[d]
    BY <1>3 DEF CreateServerInvite, InsertInvite, TypeOK
  <2>3. maxUses'[c] # NoRow
    BY <1>3, InvitesAssumption DEF CreateServerInvite, InsertInvite, TypeOK, NoRow, Unlimited
  <2> QED
    BY <1>3, <2>1, <2>2, <2>3, RowKept DEF CreateServerInvite, InsertInvite
<1>4. ASSUME NEW c \in Codes,
             \/ AddToFilter(c) \/ FillInfo(c) \/ FlightRead(c) \/ FlightInfo(c)
             \/ ExpireInfo(c) \/ ExpireUses(c)
      PROVE RowOK'
  <2>1. UNCHANGED <<requestVars, joined, maxUses>>
    BY <1>4 DEF AddToFilter, FillInfo, FlightRead, FlightInfo, ExpireInfo, ExpireUses
  <2>2. \A d \in Codes : Pending(d)' = Pending(d) /\ Admitted(d)' = Admitted(d)
    BY <1>0, <2>1, AdmittedKept
  <2>3. \A d \in Codes : uses[d] = NoCounter => uses'[d] = NoCounter
    BY <1>4 DEF AddToFilter, FillInfo, FlightRead, FlightInfo, ExpireInfo, ExpireUses, TypeOK
  <2>4. \A d \in Codes : maxUses[d] = NoRow /\ fill[d] = "none" => fill'[d] = "none"
    BY <1>4 DEF AddToFilter, FillInfo, FlightRead, FlightInfo, ExpireInfo, ExpireUses, TypeOK
  <2>5. \A d \in Codes : maxUses[d] = NoRow /\ flight[d] \in {"none", "read"} =>
                             flight'[d] \in {"none", "read"}
    BY <1>4 DEF AddToFilter, FillInfo, FlightRead, FlightInfo, ExpireInfo, ExpireUses, TypeOK
  <2> QED
    BY <2>1, <2>2, <2>3, <2>4, <2>5 DEF RowOK
<1>5. ASSUME NEW c \in Codes, FillUses(c) PROVE RowOK'
  <2>1. maxUses[c] # NoRow /\ (fill' = [fill EXCEPT ![c] = "none"] \/ UNCHANGED fill)
    BY <1>5 DEF FillUses, RowOK
  <2>2. UNCHANGED <<requestVars, joined, maxUses, flight>>
        /\ \A d \in Codes \ {c} : uses'[d] = uses[d]
    BY <1>5 DEF FillUses, SetUses, TypeOK
  <2>3. \A d \in Codes : Pending(d)' = Pending(d) /\ Admitted(d)' = Admitted(d)
    BY <1>0, <2>2, AdmittedKept
  <2> QED
    BY <2>1, <2>2, <2>3, RowKept DEF TypeOK
<1>6. ASSUME NEW c \in Codes, FlightUses(c) PROVE RowOK'
  <2>1. maxUses[c] # NoRow /\ (flight' = [flight EXCEPT ![c] = "none"] \/ UNCHANGED flight)
    BY <1>6 DEF FlightUses, Land, RowOK
  <2>2. UNCHANGED <<joined, maxUses, fill>> /\ \A d \in Codes \ {c} : uses'[d] = uses[d]
    BY <1>6 DEF FlightUses, Land, SetUses, TypeOK
  <2>3. \A d \in Codes : Pending(d)' = Pending(d)
    BY <1>6, PendingKept DEF FlightUses, Waiting, Counted
  <2> QED
    BY <2>1, <2>2, <2>3, AdmittedKept, RowKept DEF TypeOK
<1>7. ASSUME NEW c \in Codes, FillPanics(c) PROVE RowOK'
  BY <1>2, <1>7 DEF FillPanics
<1>8. ASSUME NEW c \in Codes, FlightFails(c) PROVE RowOK'
  <2>1. \A d \in Codes : Pending(d)' = Pending(d)
    BY <1>8, PendingKept DEF FlightFails, Waiting, Counted
  <2> QED
    BY <1>8, <2>1, AdmittedKept, RowKept DEF FlightFails, Land, TypeOK
<1>9. ASSUME NEW r \in Requests, Accept(r) PROVE RowOK'
  <2>1. \A d \in Codes : Pending(d)' = Pending(d)
    BY <1>9, PendingKept DEF Accept, At, Counted, TypeOK
  <2> QED
    BY <1>9, <2>1, AdmittedKept, RowKept DEF Accept
<1>10. ASSUME NEW r \in Requests,
              \/ LookupMiss(r) \/ CheckRefuses(r) \/ ConsumeRefuses(r) \/ InsertRepeated(r)
              \/ RollbackFails(r)
       PROVE RowOK'
  <2>1. Answer(r) /\ UNCHANGED <<dbVars, redisVars, fillVars>>
    BY <1>10 DEF LookupMiss, CheckRefuses, ConsumeRefuses, InsertRepeated, RollbackFails
  <2> QED
    BY <2>1, PendingAnswer, AdmittedKept, RowKept
<1>11. ASSUME NEW r \in Requests,
              LookupHit(r) \/ CheckPasses(r) \/ LookupError(r) \/ InsertFails(r)
       PROVE RowOK'
  <2>1. \A d \in Codes : Pending(d)' = Pending(d)
    BY <1>11, PendingGoto DEF LookupHit, CheckPasses, LookupError, InsertFails, At, Counted, Steps
  <2>2. /\ UNCHANGED <<dbVars, redisVars, fill>>
        /\ \A c \in Codes : flight'[c] = flight[c] \/ flight'[c] = "read"
    BY <1>11 DEF LookupHit, CheckPasses, LookupError, InsertFails, TypeOK
  <2> QED
    BY <2>1, <2>2, AdmittedKept, RowKept
<1>12. ASSUME NEW r \in Requests, Raise(r) PROVE RowOK'
  <2>1. /\ step[r] = "consume" /\ uses[code[r]] # NoCounter
        /\ Goto(r, "create") \/ Answer(r) \/ UNCHANGED requestVars
        /\ uses' = [uses EXCEPT ![code[r]] = uses[code[r]] + 1]
        /\ UNCHANGED <<dbVars, fillVars>>
    BY <1>12 DEF Raise, At
  <2>2. \A c \in Codes : c # code[r] => Pending(c)' \subseteq Pending(c)
    BY <1>0, <2>1, PendingRaise, PendingAnswer
  <2>3. \A c \in Codes : maxUses[c] = NoRow => c # code[r]
    BY <2>1 DEF RowOK
  <2> QED
    BY <2>1, <2>2, <2>3, AdmittedKept, RowKept DEF TypeOK
<1>13. ASSUME NEW r \in Requests, Insert(r) PROVE RowOK'
  <2>1. /\ step[r] = "create" /\ joined[user[r]] = NoCode
        /\ joined' = [joined EXCEPT ![user[r]] = code[r]]
        /\ Goto(r, "rollback") \/ Answer(r)
        /\ UNCHANGED <<maxUses, redisVars, fillVars>>
    BY <1>13 DEF Insert, At
  <2>2. code[r] \in Codes /\ user[r] \in Users /\ r \in Pending(code[r])
    BY <2>1 DEF RequestOK, Pending
  <2>3. \A c \in Codes : Pending(c)' \subseteq Pending(c)
    BY <2>1, PendingGoto, PendingAnswer DEF Steps, Counted
  <2>4. \A c \in Codes : maxUses[c] = NoRow => c # code[r]
    BY <2>2 DEF RowOK
  <2> QED
    BY <2>1, <2>2, <2>3, <2>4, AdmittedInsert, RowKept
<1>14. ASSUME NEW r \in Requests, Rollback(r) PROVE RowOK'
  <2>1. /\ step[r] = "rollback" /\ (Answer(r) \/ Goto(r, "again"))
        /\ UNCHANGED <<dbVars, fillVars>>
        /\ uses' = [uses EXCEPT ![code[r]] = GiveBack(uses[code[r]])]
    BY <1>14 DEF Rollback, At
  <2>2. \A c \in Codes : maxUses[c] = NoRow => c # code[r]
    BY <2>1 DEF RowOK, Pending
  <2> QED
    BY <2>1, <2>2, PendingAnswer, AdmittedKept, RowKept DEF TypeOK
<1>15. ASSUME NEW r \in Requests, RollbackAgain(r) PROVE RowOK'
  <2>1. \A c \in Codes : Pending(c)' \subseteq Pending(c)
    BY <1>0, <1>15, PendingAnswer DEF RollbackAgain
  <2>2. ASSUME NEW c \in Codes, uses[c] = NoCounter PROVE uses'[c] = uses[c]
    BY <1>15, <2>2 DEF RollbackAgain, GiveBack, NoCounter, TypeOK
  <2>3. \A c \in Codes : Admitted(c)' = Admitted(c)
    BY <1>15, AdmittedKept DEF RollbackAgain
  <2>4. UNCHANGED <<maxUses, fillVars>>
    BY <1>15 DEF RollbackAgain
  <2> QED
    BY <2>1, <2>2, <2>3, <2>4 DEF RowOK
<1> QED
  BY <1>1, <1>2, <1>3, <1>4, <1>5, <1>6, <1>7, <1>8, <1>9, <1>10, <1>11, <1>12, <1>13, <1>14,
     <1>15, NextCases, Zenon

-----------------------------------------------------------------------------
(***************************************************************************)
(* The counter, the limit and the seats.                                   *)
(***************************************************************************)
\* Everything the comparisons are about is a number.
LEMMA Numbers ==
    ASSUME TypeOK, NEW c \in Codes
    PROVE  /\ Seats(c) \in Nat /\ maxUses[c] \in Int
           /\ uses[c] \in Nat \cup {NoCounter} /\ NoCounter = -1
<1>1. maxUses[c] \in MaxUses \cup {-1, -2}
  BY DEF TypeOK, Unlimited, NoRow
<1>2. maxUses[c] \in Int
  <2>1. \A m \in MaxUses : m \in Int
    <3>1. MaxUses \subseteq Nat
      BY InvitesAssumption
    <3> QED
      BY <3>1
  <2> QED
    BY <1>1, <2>1
<1>3. uses[c] \in Nat \cup {NoCounter} /\ NoCounter = -1
  BY DEF TypeOK, NoCounter
<1> QED
  BY <1>2, <1>3, SeatsFinite

\* Counters stay or go; seats stay, or fall for codes left too high.
LEMMA SeatsOKKept ==
    ASSUME TypeOK, SeatsOK, low \subseteq low', high \subseteq high', UNCHANGED maxUses,
           \A c \in Codes : /\ uses'[c] = uses[c] \/ uses'[c] = NoCounter
                            /\ (Seats(c)' \in Nat /\ Seats(c)' <= Seats(c)) \/ c \in low'
                            /\ Seats(c)' = Seats(c) \/ c \in low' \cup high'
    PROVE  SeatsOK'
<1>1. \A c \in Codes : Seats(c) \in Nat /\ maxUses[c] \in Int
                       /\ (uses[c] # NoCounter => uses[c] \in Nat)
  BY Numbers
<1> QED
  BY <1>1 DEF SeatsOK, SeatsAreCounted, SeatsWithinLimit, NoUseIsBurnt

\* A counter that is set to less or to more than the seats leaves its code in
\* one of the two ghosts.
LEMMA SetUsesSeats ==
    ASSUME TypeOK, SeatsOK, NEW c \in Codes, NEW n \in Nat, SetUses(c, n), UNCHANGED maxUses,
           \A d \in Codes : Seats(d)' = Seats(d)
    PROVE  SeatsOK'
<1>1. CASE UNCHANGED <<uses, low, high>>
  BY <1>1, SeatsOKKept, SeatsFinite
<1>2. CASE /\ uses' = [uses EXCEPT ![c] = n]
           /\ low' = IF n < Seats(c) THEN low \cup {c} ELSE low
           /\ high' = IF n > Seats(c) THEN high \cup {c} ELSE high
  <2>1. Seats(c) \in Nat /\ uses'[c] = n /\ \A d \in Codes \ {c} : uses'[d] = uses[d]
    BY <1>2, SeatsFinite DEF TypeOK
  <2>2. ASSUME NEW d \in Codes \ low'
        PROVE /\ uses'[d] # NoCounter => Seats(d) <= uses'[d]
              /\ maxUses[d] > 0 => Seats(d) <= maxUses[d]
    BY <1>2, <2>1, <2>2 DEF SeatsOK, SeatsAreCounted, SeatsWithinLimit
  <2>3. ASSUME NEW d \in Codes \ (low' \cup high')
        PROVE uses'[d] # NoCounter => uses'[d] <= Seats(d)
    BY <1>2, <2>1, <2>3 DEF SeatsOK, NoUseIsBurnt
  <2> QED
    BY <2>2, <2>3 DEF SeatsOK, SeatsAreCounted, SeatsWithinLimit, NoUseIsBurnt
<1> QED
  BY <1>1, <1>2 DEF SetUses

LEMMA EndSeats ==
    ASSUME TypeOK, SeatsOK, CoreEnd
    PROVE  SeatsOK'
<1>1. \A c \in Codes : Seats(c)' \in Nat
  <2>1. \A c \in Codes : Pending(c)' = {} /\ Admitted(c)' = Admitted(c)
    BY AdmittedKept DEF CoreEnd, Pending
  <2> QED
    BY <2>1, SeatsFinite, FS_EmptySet DEF Seats
<1>2. \A c \in Codes : Seats(c)' <= Seats(c) /\ (Seats(c)' = Seats(c) \/ c \in high')
  BY SeatsEnd DEF CoreEnd
<1> QED
  BY <1>1, <1>2, SeatsOKKept DEF CoreEnd

LEMMA NextSeatsOK == TypeOK /\ RequestOK /\ RowOK /\ SeatsOK /\ [Next]_vars => SeatsOK'
<1> SUFFICES ASSUME TypeOK, RequestOK, RowOK, SeatsOK, [Next]_vars PROVE SeatsOK'
  OBVIOUS
<1>0. /\ \A c \in Codes : Seats(c) \in Nat /\ uses[c] \in Nat \cup {NoCounter} /\ maxUses[c] \in Int
      /\ NoCounter = -1
  BY Numbers DEF NoCounter
<1>a. UNCHANGED <<joined, requestVars>> => \A c \in Codes : Seats(c)' = Seats(c)
  BY PendingKept, SeatsKept
<1>1. CASE CountJoins \/ UNCHANGED vars
  BY <1>0, <1>1, <1>a, SeatsOKKept DEF CountJoins
<1>2. CASE CoreEnd
  BY <1>2, EndSeats
<1>3. ASSUME NEW c \in Codes, CreateServerInvite(c) PROVE SeatsOK'
  <2>1. /\ maxUses[c] = NoRow /\ \A d \in Codes \ {c} : maxUses'[d] = maxUses[d]
        /\ UNCHANGED <<uses, ghosts>>
    BY <1>3 DEF CreateServerInvite, InsertInvite, TypeOK
  <2>2. \A d \in Codes : Seats(d)' = Seats(d)
    BY <1>3, <1>a DEF CreateServerInvite, InsertInvite
  <2>3. Seats(c) = 0
    BY <2>1, FS_EmptySet DEF RowOK, Seats
  <2>4. maxUses'[c] \in Int
    BY <1>3, InvitesAssumption DEF CreateServerInvite, InsertInvite, TypeOK, Unlimited
  <2>5. \A d \in Codes \ low : maxUses'[d] > 0 => Seats(d) <= maxUses'[d]
    BY <2>1, <2>3, <2>4 DEF SeatsOK, SeatsWithinLimit
  <2> QED
    BY <2>1, <2>2, <2>5 DEF SeatsOK, SeatsAreCounted, SeatsWithinLimit, NoUseIsBurnt
<1>4. ASSUME NEW c \in Codes,
             \/ AddToFilter(c) \/ FillInfo(c) \/ FlightRead(c) \/ FlightInfo(c)
             \/ ExpireInfo(c) \/ ExpireUses(c)
      PROVE SeatsOK'
  <2>1. /\ UNCHANGED <<requestVars, joined, maxUses, ghosts>>
        /\ \A d \in Codes : uses'[d] = uses[d] \/ uses'[d] = NoCounter
    BY <1>4 DEF AddToFilter, FillInfo, FlightRead, FlightInfo, ExpireInfo, ExpireUses, TypeOK
  <2> QED
    BY <1>0, <2>1, <1>a, SeatsOKKept
<1>5. ASSUME NEW c \in Codes, FillUses(c) PROVE SeatsOK'
  BY <1>5, <1>a, SetUsesSeats DEF FillUses
<1>6. ASSUME NEW c \in Codes, FlightUses(c) PROVE SeatsOK'
  <2>1. \A d \in Codes : Pending(d)' = Pending(d)
    BY <1>6, PendingKept DEF FlightUses, Waiting, Counted
  <2>2. seen[c] \in Nat /\ UNCHANGED <<joined, maxUses>>
    BY <1>6 DEF FlightUses, TypeOK
  <2> QED
    BY <1>6, <2>1, <2>2, SeatsKept, SetUsesSeats DEF FlightUses
<1>7. ASSUME NEW c \in Codes, FillPanics(c) PROVE SeatsOK'
  BY <1>7, EndSeats DEF FillPanics
<1>8. ASSUME NEW c \in Codes, FlightFails(c) PROVE SeatsOK'
  <2>1. \A d \in Codes : Pending(d)' = Pending(d)
    BY <1>8, PendingKept DEF FlightFails, Waiting, Counted
  <2>2. UNCHANGED <<joined, maxUses, uses, ghosts>>
    BY <1>8 DEF FlightFails
  <2> QED
    BY <1>0, <2>1, <2>2, SeatsKept, SeatsOKKept
<1>9. ASSUME NEW r \in Requests, Accept(r) PROVE SeatsOK'
  <2>1. \A d \in Codes : Pending(d)' = Pending(d)
    BY <1>9, PendingKept DEF Accept, At, Counted, TypeOK
  <2>2. UNCHANGED <<joined, maxUses, uses, ghosts>>
    BY <1>9 DEF Accept
  <2> QED
    BY <1>0, <2>1, <2>2, SeatsKept, SeatsOKKept
<1>10. ASSUME NEW r \in Requests, LookupMiss(r) \/ CheckRefuses(r) \/ ConsumeRefuses(r)
       PROVE SeatsOK'
  <2>1. Answer(r) /\ UNCHANGED <<joined, maxUses, uses, ghosts>>
    BY <1>10 DEF LookupMiss, CheckRefuses, ConsumeRefuses
  <2>2. \A c \in Codes : r \notin Pending(c)
    BY <1>10 DEF LookupMiss, CheckRefuses, ConsumeRefuses, At, Pending
  <2> QED
    BY <1>0, <2>1, <2>2, SeatsAnswer, SeatsOKKept
<1>11. ASSUME NEW r \in Requests, InsertRepeated(r) \/ RollbackFails(r) PROVE SeatsOK'
  <2>1. /\ Answer(r) /\ UNCHANGED <<joined, maxUses, uses, low>>
        /\ high' = high \cup {code[r]} /\ step[r] \in {"create", "rollback"}
    BY <1>11 DEF InsertRepeated, RollbackFails, At
  <2>2. \A c \in Codes : r \in Pending(c) => c = code[r] /\ Seats(c) >= 1
    <3>1. ASSUME NEW c \in Codes, r \in Pending(c) PROVE Cardinality(Pending(c)) >= 1
      BY <3>1, SeatsFinite, FS_EmptySet
    <3> QED
      BY <3>1, SeatsFinite DEF Pending, Seats
  <2>3. \A c \in Codes : Seats(c)' \in Nat /\ Seats(c)' <= Seats(c)
                         /\ (Seats(c)' = Seats(c) \/ c \in high')
    BY <1>0, <2>1, <2>2, SeatsAnswer
  <2> QED
    BY <2>1, <2>3, SeatsOKKept
<1>12. ASSUME NEW r \in Requests,
              LookupHit(r) \/ CheckPasses(r) \/ LookupError(r) \/ InsertFails(r)
       PROVE SeatsOK'
  <2>1. \A d \in Codes : Pending(d)' = Pending(d)
    BY <1>12, PendingGoto DEF LookupHit, CheckPasses, LookupError, InsertFails, At, Counted, Steps
  <2>2. UNCHANGED <<joined, maxUses, uses, ghosts>>
    BY <1>12 DEF LookupHit, CheckPasses, LookupError, InsertFails
  <2> QED
    BY <1>0, <2>1, <2>2, SeatsKept, SeatsOKKept
<1>13. ASSUME NEW r \in Requests, Raise(r) PROVE SeatsOK'
  <2> DEFINE c == code[r]
  <2>1. /\ step[r] = "consume" /\ uses[c] # NoCounter /\ WithinLimit(c)
        /\ uses' = [uses EXCEPT ![c] = uses[c] + 1]
        /\ \/ Goto(r, "create") /\ UNCHANGED high
           \/ (Answer(r) \/ UNCHANGED requestVars) /\ high' = high \cup {c}
        /\ UNCHANGED <<joined, maxUses, low>>
    BY <1>13 DEF Raise, At
  <2>2. c \in Codes
    BY <2>1 DEF RequestOK
  <2>3. uses'[c] = uses[c] + 1 /\ uses[c] \in Nat /\ \A d \in Codes \ {c} : uses'[d] = uses[d]
    BY <1>0, <2>1, <2>2 DEF TypeOK
  <2>4. CASE Goto(r, "create") /\ UNCHANGED high
    <3>1. \A d \in Codes : Seats(d)' = IF d = c THEN Seats(d) + 1 ELSE Seats(d)
      BY <2>1, <2>4, SeatsRaise
    <3>2. ASSUME NEW d \in Codes \ low
          PROVE /\ uses'[d] # NoCounter => Seats(d)' <= uses'[d]
                /\ maxUses[d] > 0 => Seats(d)' <= maxUses[d]
      BY <1>0, <2>1, <2>2, <2>3, <3>1
         DEF SeatsOK, SeatsAreCounted, SeatsWithinLimit, WithinLimit
    <3>3. ASSUME NEW d \in Codes \ (low \cup high)
          PROVE uses'[d] # NoCounter => uses'[d] <= Seats(d)'
      BY <1>0, <2>1, <2>2, <2>3, <3>1 DEF SeatsOK, NoUseIsBurnt
    <3> QED
      BY <2>1, <2>4, <3>2, <3>3 DEF SeatsOK, SeatsAreCounted, SeatsWithinLimit, NoUseIsBurnt
  <2>5. CASE (Answer(r) \/ UNCHANGED requestVars) /\ high' = high \cup {c}
    <3>1. \A d \in Codes : Seats(d)' = Seats(d)
      <4>1. \A d \in Codes : r \notin Pending(d)
        BY <2>1 DEF Pending
      <4> QED
        BY <1>a, <2>1, <2>5, <4>1, SeatsAnswer
    <3>2. ASSUME NEW d \in Codes \ low
          PROVE /\ uses'[d] # NoCounter => Seats(d)' <= uses'[d]
                /\ maxUses[d] > 0 => Seats(d)' <= maxUses[d]
      BY <1>0, <2>1, <2>2, <2>3, <3>1 DEF SeatsOK, SeatsAreCounted, SeatsWithinLimit
    <3>3. ASSUME NEW d \in Codes \ (low \cup high')
          PROVE uses'[d] # NoCounter => uses'[d] <= Seats(d)'
      BY <1>0, <2>1, <2>3, <2>5, <3>1 DEF SeatsOK, NoUseIsBurnt
    <3> QED
      BY <2>1, <2>5, <3>2, <3>3 DEF SeatsOK, SeatsAreCounted, SeatsWithinLimit, NoUseIsBurnt
  <2> QED
    BY <2>1, <2>4, <2>5
<1>14. ASSUME NEW r \in Requests, Insert(r) PROVE SeatsOK'
  <2>1. /\ \/ Answer(r) /\ UNCHANGED low
           \/ low' = low \cup {code[r]}
        /\ UNCHANGED <<maxUses, uses, high>>
    BY <1>14 DEF Insert
  <2>2. \A c \in Codes : Seats(c)' = Seats(c) \/ c \in low'
    BY <1>14, <2>1, SeatsInsert
  <2> QED
    BY <1>0, <2>1, <2>2, SeatsOKKept
<1>15. ASSUME NEW r \in Requests, Rollback(r) PROVE SeatsOK'
  <2> DEFINE c == code[r]
  <2>1. /\ step[r] = "rollback" /\ (Answer(r) \/ Goto(r, "again"))
        /\ UNCHANGED <<joined, maxUses, ghosts>>
        /\ uses' = [uses EXCEPT ![c] = GiveBack(uses[c])]
    BY <1>15 DEF Rollback, At
  <2>2. c \in Codes /\ \A d \in Codes : r \in Pending(d) <=> d = c
    BY <2>1 DEF RequestOK, Pending
  <2>3. \A d \in Codes : Seats(d)' = IF d = c THEN Seats(d) - 1 ELSE Seats(d)
    BY <2>1, <2>2, SeatsAnswer
  <2>4. Seats(c) >= 1
    <3>1. Cardinality(Pending(c)) >= 1
      BY <2>2, SeatsFinite, FS_EmptySet
    <3> QED
      BY <2>2, <3>1, SeatsFinite DEF Seats
  <2>5. /\ uses'[c] = IF uses[c] > 0 THEN uses[c] - 1 ELSE uses[c]
        /\ \A d \in Codes \ {c} : uses'[d] = uses[d]
    BY <2>1, <2>2 DEF GiveBack, TypeOK
  <2>6. ASSUME NEW d \in Codes \ low
        PROVE /\ uses'[d] # NoCounter => Seats(d)' <= uses'[d]
              /\ maxUses[d] > 0 => Seats(d)' <= maxUses[d]
    BY <1>0, <2>2, <2>3, <2>4, <2>5 DEF SeatsOK, SeatsAreCounted, SeatsWithinLimit
  <2>7. ASSUME NEW d \in Codes \ (low \cup high)
        PROVE uses'[d] # NoCounter => uses'[d] <= Seats(d)'
    BY <1>0, <2>2, <2>3, <2>4, <2>5 DEF SeatsOK, NoUseIsBurnt
  <2> QED
    BY <2>1, <2>6, <2>7 DEF SeatsOK, SeatsAreCounted, SeatsWithinLimit, NoUseIsBurnt
<1>16. ASSUME NEW r \in Requests, RollbackAgain(r) PROVE SeatsOK'
  <2>1. \A d \in Codes : Seats(d)' = Seats(d)
    <3>1. \A d \in Codes : r \notin Pending(d)
      BY <1>16 DEF RollbackAgain, At, Pending
    <3>2. UNCHANGED joined /\ (Answer(r) \/ UNCHANGED requestVars)
      BY <1>16 DEF RollbackAgain
    <3> QED
      BY <1>a, <3>1, <3>2, SeatsAnswer
  <2>2. CASE UNCHANGED <<uses, low, high>>
    BY <1>0, <1>16, <2>1, <2>2, SeatsOKKept DEF RollbackAgain
  <2>3. CASE /\ uses[code[r]] > 0
             /\ uses' = [uses EXCEPT ![code[r]] = uses[code[r]] - 1]
             /\ low' = low \cup {code[r]} /\ UNCHANGED high
    <3>1. UNCHANGED maxUses
      BY <1>16 DEF RollbackAgain
    <3>2. \A d \in Codes \ low' : uses'[d] = uses[d]
      BY <2>3 DEF TypeOK
    <3> QED
      BY <2>1, <2>3, <3>1, <3>2
         DEF SeatsOK, SeatsAreCounted, SeatsWithinLimit, NoUseIsBurnt
  <2> QED
    BY <1>16, <2>2, <2>3 DEF RollbackAgain, GiveBack, TypeOK
<1> QED
  BY <1>1, <1>2, <1>3, <1>4, <1>5, <1>6, <1>7, <1>8, <1>9, <1>10, <1>11, <1>12, <1>13, <1>14,
     <1>15, <1>16, NextCases, Zenon

-----------------------------------------------------------------------------
(***************************************************************************)
(* The invariant and what follows from it.                                 *)
(***************************************************************************)
LEMMA InitIInv == Init => IInv
<1> SUFFICES ASSUME Init PROVE IInv
  OBVIOUS
<1> USE DEF Init
<1>1. TypeOK
  BY DEF TypeOK, Steps, NoCounter
<1>2. RequestOK
  BY DEF RequestOK
<1>3. \A c \in Codes : Admitted(c) = {} /\ Pending(c) = {}
  BY InvitesAssumption DEF Admitted, Pending
<1>4. \A c \in Codes : Seats(c) = 0
  <2>1. Cardinality({}) = 0
    BY FS_EmptySet
  <2>2. ASSUME NEW c \in Codes PROVE Seats(c) = Cardinality({}) + Cardinality({})
    BY <1>3, Zenon DEF Seats
  <2> QED
    BY <2>1, <2>2
<1>5. RowOK
  BY <1>3 DEF RowOK
<1>6. SeatsOK
  BY <1>4 DEF SeatsOK, SeatsAreCounted, SeatsWithinLimit, NoUseIsBurnt, NoRow
<1> QED
  BY <1>1, <1>2, <1>5, <1>6 DEF IInv

LEMMA NextIInv == IInv /\ [Next]_vars => IInv'
  BY NextTypeOK, NextRequestOK, NextRowOK, NextSeatsOK, Zenon DEF IInv

LEMMA Invariance == Spec => []IInv
  BY InitIInv, NextIInv, PTL DEF Spec

-----------------------------------------------------------------------------
\* The rows, the keys, the goroutines and the requests keep their types: neither
\* a rollback nor a fill makes the counter negative.
THEOREM InvitesTypeOK == Spec => []TypeOK
<1>1. IInv => TypeOK
  BY DEF IInv
<1> QED
  BY <1>1, Invariance, PTL

\* The counter is never below the members and the uses under way, unless a fill
\* from a count that lags behind, a lost answer to an insert or a rollback that
\* the client of Redis repeated left it so.
THEOREM InvitesSeatsAreCounted == Spec => []SeatsAreCounted
<1>1. IInv => SeatsAreCounted
  BY DEF IInv, SeatsOK
<1> QED
  BY <1>1, Invariance, PTL

\* The counter is never above them, unless one of the causes the property lists
\* left it so.
THEOREM InvitesNoUseIsBurnt == Spec => []NoUseIsBurnt
<1>1. IInv => NoUseIsBurnt
  BY DEF IInv, SeatsOK
<1> QED
  BY <1>1, Invariance, PTL

\* However many users accept at the same time, the members who came in with an
\* invite are within its limit, unless its counter was left too low.
THEOREM InvitesAdmissionsWithinLimit == Spec => []AdmissionsWithinLimit
<1>1. IInv => AdmissionsWithinLimit
  <2>1. SUFFICES ASSUME TypeOK, SeatsWithinLimit PROVE AdmissionsWithinLimit
    BY DEF IInv, SeatsOK
  <2>2. \A c \in Codes : /\ Cardinality(Admitted(c)) <= Seats(c)
                         /\ Cardinality(Admitted(c)) \in Nat /\ Seats(c) \in Nat
                         /\ maxUses[c] \in Int
    BY <2>1, SeatsFinite, Numbers DEF Seats
  <2> QED
    BY <2>1, <2>2 DEF SeatsWithinLimit, AdmissionsWithinLimit
<1> QED
  BY <1>1, Invariance, PTL

-----------------------------------------------------------------------------
(***************************************************************************)
(* The members as JoinCount has them: a row for each join, in any order,   *)
(* and a count that only the consumer of their changes touches.            *)
(***************************************************************************)
\* Members' joins.
joinsBar == [c \in Codes |-> Cardinality(Admitted(c))]

\* Everything but an insert and a count leaves the rows and the count alone:
\* the requests, the fills, the flights, the keys and the end of the process.
LEMMA MembersOnlyInserted ==
    ASSUME [Next]_vars
    PROVE  \/ CountJoins
           \/ \E r \in Requests : Insert(r)
           \/ UNCHANGED <<joined, usedCount>>
<1>1. CASE CoreEnd \/ \E c \in Codes : FillPanics(c)
  BY <1>1 DEF FillPanics, CoreEnd
<1>2. CASE \E c \in Codes : \/ CreateServerInvite(c) \/ AddToFilter(c) \/ FillInfo(c)
                            \/ FillUses(c) \/ ExpireInfo(c) \/ ExpireUses(c)
  BY <1>2 DEF CreateServerInvite, AddToFilter, FillInfo, FillUses, ExpireInfo, ExpireUses
<1>3. CASE \E c \in Codes : FlightRead(c) \/ FlightFails(c) \/ FlightInfo(c) \/ FlightUses(c)
  BY <1>3 DEF FlightRead, FlightFails, FlightInfo, FlightUses
<1>4. CASE \E r \in Requests : Accept(r) \/ LookupMiss(r) \/ LookupHit(r) \/ LookupError(r)
  BY <1>4 DEF Accept, LookupMiss, LookupHit, LookupError
<1>5. CASE \E r \in Requests : CheckRefuses(r) \/ CheckPasses(r) \/ Raise(r)
                                  \/ ConsumeRefuses(r)
  BY <1>5 DEF CheckRefuses, CheckPasses, Raise, ConsumeRefuses
<1>6. CASE \E r \in Requests : InsertRepeated(r) \/ InsertFails(r) \/ Rollback(r)
                                  \/ RollbackAgain(r) \/ RollbackFails(r)
  BY <1>6 DEF InsertRepeated, InsertFails, Rollback, RollbackAgain, RollbackFails
<1> QED
  BY <1>1, <1>2, <1>3, <1>4, <1>5, <1>6, NextCases, Zenon

\* An insert is one join with one code.
LEMMA InsertJoins ==
    ASSUME TypeOK, RequestOK, NEW r \in Requests, Insert(r)
    PROVE  \E d \in Codes : joinsBar' = [joinsBar EXCEPT ![d] = @ + 1]
<1>1. /\ step[r] = "create" /\ joined[user[r]] = NoCode
      /\ joined' = [joined EXCEPT ![user[r]] = code[r]]
  BY DEF Insert, At
<1>2. code[r] \in Codes /\ user[r] \in Users
  BY <1>1 DEF RequestOK
<1>3. ASSUME NEW c \in Codes
      PROVE  Cardinality(Admitted(c))' = IF c = code[r] THEN Cardinality(Admitted(c)) + 1
                                                        ELSE Cardinality(Admitted(c))
  <2>1. /\ user[r] \notin Admitted(c)
        /\ Admitted(c)' = IF c = code[r] THEN Admitted(c) \cup {user[r]} ELSE Admitted(c)
    BY <1>1, <1>2, AdmittedInsert
  <2>2. Cardinality(Admitted(c) \cup {user[r]}) = Cardinality(Admitted(c)) + 1
    BY <2>1, SeatsFinite, FS_AddElement
  <2> QED
    BY <2>1, <2>2
<1>4. joinsBar' = [c \in Codes |-> IF c = code[r] THEN Cardinality(Admitted(c)) + 1
                                                  ELSE Cardinality(Admitted(c))]
  BY <1>3, Zenon DEF joinsBar
<1>5. joinsBar' = [joinsBar EXCEPT ![code[r]] = @ + 1]
  BY <1>2, <1>4 DEF joinsBar
<1> QED
  BY <1>2, <1>5

LEMMA InitMembers == Init => Members!JoinInit
<1> SUFFICES ASSUME Init PROVE Members!JoinInit
  OBVIOUS
<1>1. \A c \in Codes : Admitted(c) = {}
  BY InvitesAssumption DEF Init, Admitted
<1>2. Cardinality({}) = 0
  BY FS_EmptySet
<1> QED
  BY <1>1, <1>2 DEF Init, Members!JoinInit

LEMMA NextMembers ==
    IInv /\ [Next]_vars => [Members!Join \/ Members!Count]_<<joinsBar, usedCount>>
<1> SUFFICES ASSUME TypeOK, RequestOK, [Next]_vars
             PROVE  [Members!Join \/ Members!Count]_<<joinsBar, usedCount>>
  BY DEF IInv
<1>1. CASE CountJoins
  BY <1>1, Zenon DEF CountJoins
<1>2. CASE \E r \in Requests : Insert(r)
  <2>1. PICK r \in Requests : Insert(r)
    BY <1>2
  <2>2. \E d \in Codes : joinsBar' = [joinsBar EXCEPT ![d] = @ + 1]
    BY <2>1, InsertJoins
  <2>3. UNCHANGED usedCount
    BY <2>1 DEF Insert
  <2> QED
    BY <2>2, <2>3 DEF Members!Join, joinsBar
<1>3. CASE UNCHANGED <<joined, usedCount>>
  <2>1. \A c \in Codes : Admitted(c)' = Admitted(c)
    BY <1>3, AdmittedKept
  <2>2. UNCHANGED <<joinsBar, usedCount>>
    BY <1>3, <2>1 DEF joinsBar
  <2> QED
    BY <2>2
<1> QED
  BY <1>1, <1>2, <1>3, MembersOnlyInserted

\* The API's half of JoinCount, which InviteUsage implements for the consumer's
\* half: whatever requests interleave, answers get lost or processes end, a
\* member row comes in once, for a known code, is never taken back, and nothing
\* but the consumer writes used_count.
THEOREM InvitesImplementJoinCount == Spec => Members!JoinSpec
<1>1. Members!JoinSpec
        <=> Members!JoinInit /\ [][Members!Join \/ Members!Count]_<<joinsBar, usedCount>>
  BY DEF Members!JoinSpec, joinsBar
<1> QED
  BY <1>1, Invariance, InitMembers, NextMembers, PTL DEF Spec
=============================================================================
