----------------------------- MODULE InviteUsage -----------------------------
(***************************************************************************)
(* The core module's consumer of the members table's change events:        *)
(* BatchConsumer with the counting of MakeInvitedMembersHandler, which     *)
(* adds up the joins of a batch by invite code and writes each sum to      *)
(* server_invites.used_count.  It is registered without a dead letter      *)
(* handler, so what it gives back is committed like everything else.       *)
(*                                                                         *)
(* A message is the code an inserted member row names, or NoCode for an    *)
(* event that counts for no invite: a member without a code, a snapshot    *)
(* read, an update, or a value that does not parse.                        *)
(***************************************************************************)
EXTENDS BatchConsumer

CONSTANTS Codes, NoCode

ASSUME InviteUsageAssumption ==
    /\ NoCode \notin Codes
    /\ Kinds = Codes \cup {NoCode}
    /\ HasDlq = FALSE

VARIABLES
    usedCount,  \* server_invites.used_count
    counted,    \* ghost: offsets whose join has been added to used_count
    uncounted   \* ghost: offsets that an UPDATE which failed, or never ran, left out

usageVars == <<usedCount, counted, uncounted>>

UsageTypeOK ==
    /\ ConsumerTypeOK
    /\ usedCount \in [Codes -> Nat]
    /\ counted \subseteq 1 .. Len(log)
    /\ uncounted \subseteq 1 .. Len(log)

UsageInit ==
    /\ ConsumerInit
    /\ usedCount = [c \in Codes |-> 0]
    /\ counted = {}
    /\ uncounted = {}

-----------------------------------------------------------------------------
(***************************************************************************)
(* MakeInvitedMembersHandler.                                              *)
(***************************************************************************)
\* inviteUsage: how many messages of the batch name the code.
InviteUsageOf(c) == Cardinality({j \in DOMAIN batch : log[batch[j]] = c})

BatchCodes == {log[k] : k \in InBatch} \ {NoCode}

JoinsOf(codes) == {k \in InBatch : log[k] \in codes}

\* Mutant: a message in the batch counts once for each message of the batch.
UseServerInviteByBatch(codes) ==
    /\ usedCount' = [c \in Codes |-> usedCount[c] + IF c \in codes THEN Len(batch) ELSE 0]
    /\ counted' = counted \cup JoinsOf(codes)

\* Mutant: the UPDATE sets the sum.
UseServerInviteSets(codes) ==
    /\ usedCount' = [c \in Codes |-> IF c \in codes THEN InviteUsageOf(c) ELSE usedCount[c]]
    /\ counted' = counted \cup JoinsOf(codes)

\* UseServerInvite, for each of these codes: one UPDATE that adds the sum.
UseServerInvite(codes) ==
    /\ usedCount' =
          [c \in Codes |-> usedCount[c] + IF c \in codes THEN InviteUsageOf(c) ELSE 0]
    /\ counted' = counted \cup JoinsOf(codes)

\* Every UPDATE succeeds.
CountJoins ==
    /\ UseServerInvite(BatchCodes)
    /\ HandleBatch({})
    /\ UNCHANGED uncounted

\* Mutant: joins whose UPDATE did not run are not told from the counted ones.
LeftOutNone(applied) == {}

LeftOut(applied) == JoinsOf(BatchCodes \ applied)

\* An UPDATE fails and the handler returns at once with the whole batch: of a
\* map's codes, in no order, some were written before.  The one that failed may
\* have been written too, when only its answer was lost.
CountFails ==
    /\ BatchCodes # {}
    /\ \E applied \in SUBSET BatchCodes :
        /\ UseServerInvite(applied)
        /\ uncounted' = uncounted \cup LeftOut(applied)
    /\ HandleBatch(InBatch)

\* The process ends between two UPDATEs, or between the last one and the commit.
EndWhileCounting ==
    /\ pc = "loop" /\ Due
    /\ \E applied \in SUBSET BatchCodes \ {{}} : UseServerInvite(applied)
    /\ EndProcess
    /\ UNCHANGED uncounted

CountBatch == CountJoins \/ CountFails

Loop == Fetch \/ Commit \/ CommitFails \/ ExitDone \/ ExitCanceled

\* What the consumer does by itself, and what its surroundings do to it.
Consume == (Loop /\ UNCHANGED usageVars) \/ CountBatch

Surroundings ==
    (StartConsumer \/ Stop \/ Rebalance) /\ UNCHANGED usageVars

UsageEnd == (EndProcess /\ UNCHANGED usageVars) \/ EndWhileCounting

UsageVars == <<consumerVars, usageVars>>

UsageNext ==
    \/ (\E kind \in Kinds : Produce(kind)) /\ UNCHANGED usageVars
    \/ Consume \/ Surroundings \/ UsageEnd

UsageSpec == UsageInit /\ [][UsageNext]_UsageVars

-----------------------------------------------------------------------------
Joins(c) == {k \in DOMAIN log : log[k] = c}

(***************************************************************************)
(* used_count follows the joins: it never falls, and counts a join at most *)
(* once for each time the reader can go back.                              *)
(***************************************************************************)
Abstract ==
    INSTANCE JoinCount WITH
        joins <- [c \in Codes |-> Cardinality(Joins(c))],
        MaxDeliveries <- MaxUpsets + 1

ImplementsJoinCount == Abstract!JoinSpec

(***************************************************************************)
(* A join can be counted more than once, since the commit comes after the  *)
(* UPDATE, but only once for each time the reader went back: without a     *)
(* rebalance or an end of the process used_count is never too high, even   *)
(* after failed commits and failed UPDATEs.                                *)
(***************************************************************************)
CountedOncePerDelivery ==
    \A c \in Codes : usedCount[c] <= (upsets + 1) * Cardinality(Joins(c))

(***************************************************************************)
(* Every join the group is done with is in used_count, or was left out in  *)
(* one of the known ways: an UPDATE failed in its batch, or StartOffset    *)
(* passed it over.                                                         *)
(***************************************************************************)
JoinsCountedOrLeftOut ==
    \A k \in 1 .. committed :
        log[k] \in Codes => k \in counted \cup uncounted \cup skipped
=============================================================================
