--------------------------- MODULE RoomMembership ---------------------------
(***************************************************************************)
(* What the hub promises about who is in which room: a client enters a     *)
(* room only from outside every room, and only one it may join; however    *)
(* many clients leave in one step, none of them is at once in another.     *)
(* WsHub implements this with RoomState objects, locks and snapshots.      *)
(***************************************************************************)
CONSTANTS Clients, Rooms, MayJoin, None

VARIABLE at    \* the room each client is in, or None

vars == <<at>>

Init == at = [c \in Clients |-> None]

Enter(c, r) ==
    /\ at[c] = None
    /\ <<c, r>> \in MayJoin
    /\ at' = [at EXCEPT ![c] = r]

Leave(S) ==
    /\ \A c \in S : at[c] # None
    /\ at' = [c \in Clients |-> IF c \in S THEN None ELSE at[c]]

Next ==
    \/ \E c \in Clients, r \in Rooms : Enter(c, r)
    \/ \E S \in SUBSET Clients : Leave(S)

Spec == Init /\ [][Next]_vars
=============================================================================
