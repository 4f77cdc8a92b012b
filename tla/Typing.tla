-------------------------------- MODULE Typing --------------------------------
(***************************************************************************)
(* The typing coalescer of one RoomState (typing.go): readers add typers,  *)
(* a timer that each new typer restarts flushes them, and the flush, a     *)
(* goroutine of its own, puts one request into the room's outBuffer, which *)
(* the room's broadcaster empties and everything else in the room fills.   *)
(*                                                                         *)
(* A timer stands for the goroutine its function runs in as well.  Of      *)
(* outBuffer only the length matters here; what becomes of a request that  *)
(* is in it is the subject of WsHub.                                       *)
(***************************************************************************)
EXTENDS Integers, FiniteSets

CONSTANTS
    Users,       \* the users whose readers send typing events
    Timers,      \* bound: timers that are armed, or whose function runs, at once
    NoTimer,     \* nil
    MaxTracked,  \* maxTrackedTypers
    RoomOutBufferLen,      \* roomOutBufferLen
    MaxTotal     \* bound: where counting further typing events stops

ASSUME TypingAssumption ==
    /\ IsFiniteSet(Users)
    /\ NoTimer \notin Timers
    /\ MaxTracked \in Nat
    /\ RoomOutBufferLen \in Nat \ {0}
    /\ MaxTotal \in Nat /\ MaxTotal > MaxTracked

VARIABLES
    inMap,    \* the hub's map still has the room, and its broadcaster runs
    holding,  \* users whose reader has looked the room up and is about to add them
    typers,   \* typing.typers
    total,    \* typing.total
    timer,    \* typing.timer, which may have fired already
    run,      \* where each timer and its flushTyping are
    listed,   \* flushTyping's typerIDs and total, for each timer
    queued,   \* len(outBuffer)
    shed      \* ghost: the last flush gave up before it took the typers

coalescerVars == <<typers, total, timer>>
TypingVars == <<inMap, holding, coalescerVars, run, listed, queued, shed>>

\* "idle": not armed, stopped, or done; "check" and "lock" lie before and
\* after the load shedding, "send" after the lock was released.
TimerStates == {"idle", "armed", "check", "lock", "send"}

NoList == [users |-> {}, total |-> 0]

TypingTypeOK ==
    /\ inMap \in BOOLEAN
    /\ holding \subseteq Users
    /\ typers \subseteq Users /\ Cardinality(typers) <= MaxTracked
    /\ total \in 0 .. MaxTotal
    /\ timer \in Timers \cup {NoTimer}
    /\ run \in [Timers -> TimerStates]
    /\ listed \in [Timers -> [users : SUBSET Users, total : 0 .. MaxTotal]]
    /\ queued \in 0 .. RoomOutBufferLen
    /\ shed \in BOOLEAN

TypingInit ==
    /\ inMap = TRUE
    /\ holding = {}
    /\ typers = {} /\ total = 0 /\ timer = NoTimer
    /\ run = [t \in Timers |-> "idle"]
    /\ listed = [t \in Timers |-> NoList]
    /\ queued = 0
    /\ shed = FALSE

-----------------------------------------------------------------------------
(***************************************************************************)
(* The readers.                                                            *)
(***************************************************************************)
\* handleRoomTyping finds the room under hub.mu.  It asks for no membership.
HandleRoomTyping(u) ==
    /\ inMap
    /\ u \notin holding
    /\ holding' = holding \cup {u}
    /\ UNCHANGED <<inMap, coalescerVars, run, listed, queued, shed>>

\* Mutant: everybody is kept.
TrackAll(u) == typers \cup {u}

Track(u) == IF Cardinality(typers) < MaxTracked THEN typers \cup {u} ELSE typers

CountTyper == IF total < MaxTotal THEN total + 1 ELSE total

\* Mutant: a timer that has been stopped counts as one that runs.
RestartStops(t) ==
    /\ timer' = IF timer = NoTimer THEN t ELSE timer
    /\ run' = IF timer = NoTimer THEN [run EXCEPT ![t] = "armed"]
              ELSE [run EXCEPT ![timer] = IF @ = "armed" THEN "idle" ELSE @]

\* Stop, which does nothing to a timer that has fired, and AfterFunc.
Restart(t) ==
    /\ timer' = t
    /\ run' = [s \in Timers |-> IF s = t THEN "armed"
                                ELSE IF s = timer /\ run[s] = "armed" THEN "idle" ELSE run[s]]

\* Mutant: an event of a user who is kept restarts the timer as well.
AddAgainRestarts(u) ==
    /\ u \in holding \cap typers
    /\ holding' = holding \ {u}
    /\ \E t \in Timers \ {timer} : run[t] = "idle" /\ Restart(t)
    /\ UNCHANGED <<inMap, typers, total, listed, queued, shed>>

\* AddTyper, under typing.mu, of a user who is kept already.
AddAgain(u) ==
    /\ u \in holding \cap typers
    /\ holding' = holding \ {u}
    /\ UNCHANGED <<inMap, coalescerVars, run, listed, queued, shed>>

\* AddTyper of any other user.  One whom the limit leaves out is not kept, so
\* that each further event of theirs counts again and restarts the timer.
AddTyper(u) ==
    /\ u \in holding \ typers
    /\ holding' = holding \ {u}
    /\ typers' = Track(u)
    /\ total' = CountTyper
    /\ \E t \in Timers \ {timer} : run[t] = "idle" /\ Restart(t)
    /\ shed' = FALSE
    /\ UNCHANGED <<inMap, listed, queued>>

-----------------------------------------------------------------------------
(***************************************************************************)
(* flushTyping.                                                            *)
(***************************************************************************)
Step(t, from, to) ==
    /\ run[t] = from
    /\ run' = [run EXCEPT ![t] = to]

Fire(t) ==
    /\ Step(t, "armed", "check")
    /\ UNCHANGED <<inMap, holding, coalescerVars, listed, queued, shed>>

NearlyFull == queued >= (RoomOutBufferLen * 9) \div 10

\* Load shedding: the flush returns, and typers, total and timer stay.
Shed(t) ==
    /\ NearlyFull
    /\ Step(t, "check", "idle")
    /\ shed' = TRUE
    /\ UNCHANGED <<inMap, holding, coalescerVars, listed, queued>>

PassCheck(t) ==
    /\ ~NearlyFull
    /\ Step(t, "check", "lock")
    /\ UNCHANGED <<inMap, holding, coalescerVars, listed, queued, shed>>

\* Mutant: only the map is made new.
ClearTypersOnly == typers' = {} /\ timer' = NoTimer /\ UNCHANGED total

ClearTyping == typers' = {} /\ total' = 0 /\ timer' = NoTimer

\* Under typing.mu the flush takes what there is.  The timer it forgets may
\* be a newer one than its own, which then fires for whatever has come since.
Grab(t) ==
    /\ Step(t, "lock", IF total = 0 THEN "idle" ELSE "send")
    /\ listed' = [listed EXCEPT ![t] = IF total = 0 THEN NoList
                                       ELSE [users |-> typers, total |-> total]]
    /\ ClearTyping
    /\ UNCHANGED <<inMap, holding, queued, shed>>

Done(t) ==
    /\ Step(t, "send", "idle")
    /\ listed' = [listed EXCEPT ![t] = NoList]
    /\ UNCHANGED <<inMap, holding, coalescerVars, shed>>

\* The names come from Redis; those it does not have are sent empty.
SendTyping(t) ==
    /\ queued < RoomOutBufferLen
    /\ queued' = queued + 1
    /\ Done(t)

\* broadcastTimeout passes with outBuffer full.
SendTimeout(t) ==
    /\ queued = RoomOutBufferLen
    /\ Done(t)
    /\ UNCHANGED queued

FlushTyping(t) ==
    \/ Shed(t) \/ PassCheck(t) \/ Grab(t)
    \/ SendTyping(t) \/ SendTimeout(t)

-----------------------------------------------------------------------------
(***************************************************************************)
(* The rest of the room.                                                   *)
(***************************************************************************)
\* Another request, a channel message, is put into outBuffer: by a handler that
\* may have found the room in the map before it idled out.
OtherRequest ==
    /\ queued < RoomOutBufferLen
    /\ queued' = queued + 1
    /\ UNCHANGED <<inMap, holding, coalescerVars, run, listed, shed>>

\* The broadcaster takes a request and greedily those behind it.
TakeRequests ==
    /\ inMap /\ queued > 0
    /\ queued' \in 0 .. queued - 1
    /\ UNCHANGED <<inMap, holding, coalescerVars, run, listed, shed>>

\* The room has idled out: removeRoom, and its broadcaster returns.
RoomIdlesOut ==
    /\ inMap
    /\ inMap' = FALSE
    /\ UNCHANGED <<holding, coalescerVars, run, listed, queued, shed>>

ReadTyping(u) == HandleRoomTyping(u) \/ AddAgain(u) \/ AddTyper(u)

TypingNext ==
    \/ \E u \in Users : ReadTyping(u)
    \/ \E t \in Timers : Fire(t) \/ FlushTyping(t)
    \/ OtherRequest \/ TakeRequests \/ RoomIdlesOut

\* A timer that is not stopped fires, its function runs to its end, and the
\* broadcaster reads.  A timer that is restarted for ever is never armed for
\* long enough.  Nobody has to type.
TypingFairness ==
    /\ \A t \in Timers : WF_TypingVars(Fire(t)) /\ WF_TypingVars(FlushTyping(t))
    /\ WF_TypingVars(TakeRequests)

TypingSpec == TypingInit /\ [][TypingNext]_TypingVars /\ TypingFairness

-----------------------------------------------------------------------------
(***************************************************************************)
(* Whoever is kept or counted has a flush coming that has not taken the    *)
(* typers yet, unless the last one was shed: no order of AddTyper, timers  *)
(* that fire while they are stopped, and flushes that forget a newer timer *)
(* leaves typers without one.                                              *)
(***************************************************************************)
FlushIsComing ==
    total > 0 => shed \/ \E t \in Timers : run[t] \in {"armed", "check", "lock"}

(***************************************************************************)
(* What is kept and what is counted belong together, in the coalescer and  *)
(* in each list a flush took: names are missing only beyond the limit, so  *)
(* that a frame never names more typers than it counts.                    *)
(***************************************************************************)
Agree(users, n) ==
    Cardinality(users) = IF n < MaxTracked THEN n ELSE MaxTracked

NamesAgreeWithTotal ==
    /\ Agree(typers, total)
    /\ \A t \in Timers : Agree(listed[t].users, listed[t].total)

(***************************************************************************)
(* Only load shedding and new typers put an announcement off: unless       *)
(* AddTyper goes on restarting the timer, nobody waits for ever but after  *)
(* a flush that was shed.                                                  *)
(***************************************************************************)
OnlyTypersPostpone ==
    \/ []<>(total = 0 \/ shed)
    \/ []<><<\E u \in Users : AddTyper(u)>>_TypingVars
=============================================================================
