----------------------------- MODULE ConsumerLife -----------------------------
(***************************************************************************)
(* The life of a batch consumer as its manager and its process see it:     *)
(* it is run once, it can be told to end at any time, before it is run     *)
(* too, and as long as its process lives it ends only if it was told to,   *)
(* between two batches and never inside one.  ModuleServer promises its    *)
(* managers this of a consumer; BatchConsumer's loop keeps it.             *)
(***************************************************************************)
VARIABLES
    consumer,  \* "none", "fetch" between batches, "handle" inside one, "ended"
    told       \* its context is cancelled

LifeInit == consumer = "none" /\ told = FALSE

Move(from, to) == consumer = from /\ consumer' = to /\ UNCHANGED told

\* Start's goroutine.
Run == Move("none", "fetch")

\* The context is cancelled.
BeTold == told' = TRUE /\ UNCHANGED consumer

\* A batch, or a part of one, is handled.
Take == Move("fetch", "handle")

Finish == Move("handle", "fetch")

\* The loop returns.
Return == told /\ Move("fetch", "ended")

\* The process ends.
Die == consumer' = "none" /\ told' = FALSE

LifeNext == Run \/ BeTold \/ Take \/ Finish \/ Return \/ Die

LifeSpec == LifeInit /\ [][LifeNext]_<<consumer, told>>
=============================================================================
