------------------------------ MODULE JoinCount ------------------------------
(***************************************************************************)
(* What the rest of the system may expect of server_invites.used_count:    *)
(* it follows the joins of a code, late, in lumps and never downwards; a   *)
(* join may be missing from it for ever, or be in it once for each time    *)
(* its event was delivered.  InviteUsage implements this.                  *)
(***************************************************************************)
EXTENDS Integers

CONSTANTS
    Codes,         \* invite codes
    MaxDeliveries  \* bound: how often the consumer can be given a join

VARIABLES
    joins,     \* members: how many rows name the code
    usedCount  \* server_invites.used_count

JoinInit ==
    /\ joins = [c \in Codes |-> 0]
    /\ usedCount = [c \in Codes |-> 0]

\* A member row is inserted.
Join ==
    /\ \E c \in Codes : joins' = [joins EXCEPT ![c] = @ + 1]
    /\ UNCHANGED usedCount

\* A batch is counted, in whole or in part, for the first time or again.
Count ==
    /\ UNCHANGED joins
    /\ \E sums \in [Codes -> UNION {0 .. MaxDeliveries * joins[c] : c \in Codes}] :
        /\ \A c \in Codes : usedCount[c] <= sums[c] /\ sums[c] <= MaxDeliveries * joins[c]
        /\ usedCount' = sums

JoinSpec == JoinInit /\ [][Join \/ Count]_<<joins, usedCount>>
=============================================================================
