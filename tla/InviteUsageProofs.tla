-------------------------- MODULE InviteUsageProofs --------------------------
(***************************************************************************)
(* Proofs about InviteUsage: its type invariant, that a commit covers only *)
(* joins that were counted or left out in a known way, that used_count     *)
(* counts a join at most once for each time the reader went back, and that *)
(* the consumer lives as ConsumerLife says.                                *)
(***************************************************************************)
EXTENDS InviteUsage, BatchConsumerProofs, FiniteSetTheorems

USE DEF consumerVars, loopVars, usageVars, UsageVars

-----------------------------------------------------------------------------
(***************************************************************************)
(* Every step is one of BatchConsumer's.                                   *)
(***************************************************************************)
\* UsageNext spelled out, one disjunct per action.
LEMMA UsageCases ==
    ASSUME [UsageNext]_UsageVars
    PROVE  \/ \E kind \in Kinds : Produce(kind) /\ UNCHANGED usageVars
           \/ Rebalance /\ UNCHANGED usageVars
           \/ StartConsumer /\ UNCHANGED usageVars
           \/ Stop /\ UNCHANGED usageVars
           \/ Fetch /\ UNCHANGED usageVars
           \/ Commit /\ UNCHANGED usageVars
           \/ CommitFails /\ UNCHANGED usageVars
           \/ ExitDone /\ UNCHANGED usageVars
           \/ ExitCanceled /\ UNCHANGED usageVars
           \/ CountJoins
           \/ CountFails
           \/ EndProcess /\ UNCHANGED usageVars
           \/ EndWhileCounting
           \/ UNCHANGED UsageVars
  BY Zenon DEF UsageNext, Consume, Loop, CountBatch, Surroundings, UsageEnd

LEMMA UsageSteps ==
    ASSUME [UsageNext]_UsageVars
    PROVE  /\ ConsumerStep
           /\ Handles => CountBatch
           /\ ~DeadLettersDone
<1>1. CountBatch => Handles
  <2> SUFFICES ASSUME CountBatch PROVE Handles
    OBVIOUS
  <2>1. PICK F : HandleBatch(F)
    BY DEF CountBatch, CountJoins, CountFails
  <2>2. F \in SUBSET InBatch
    BY <2>1 DEF HandleBatch
  <2> QED
    BY <2>1, <2>2 DEF Handles
<1>2. ConsumerStep
  BY <1>1, UsageCases, Zenon DEF ConsumerStep, CountBatch, EndWhileCounting
<1>3. Handles => CountBatch
  <2> SUFFICES ASSUME Handles, ~CountBatch PROVE FALSE
    OBVIOUS
  <2>1. pc = "loop" /\ pc' \in {"dlq", "commit"}
    BY DEF Handles, HandleBatch
  <2> QED
    BY <2>1, UsageCases DEF CountBatch, Produce, Rebalance, StartConsumer, Stop, Fetch, Commit,
       CommitFails, FinishBatch, ExitDone, ExitCanceled, EndProcess, EndWhileCounting
<1>4. ~DeadLettersDone
  <2> SUFFICES ASSUME DeadLettersDone PROVE FALSE
    OBVIOUS
  <2>1. pc = "dlq" /\ pc' \in {"loop", "commit"}
    BY DEF DeadLettersDone, DlqAccepted, DlqRejected, FinishBatch
  <2> QED
    BY <2>1, UsageCases DEF Produce, Rebalance, StartConsumer, Stop, Fetch, Commit, CommitFails,
       ExitDone, ExitCanceled, CountJoins, CountFails, HandleBatch, EndProcess,
       EndWhileCounting
<1> QED
  BY <1>2, <1>3, <1>4

\* The log is only appended to.
LEMMA LogKept ==
    ASSUME ConsumerTypeOK, ConsumerStep, NEW k \in 1 .. Len(log)
    PROVE  k \in 1 .. Len(log') /\ log'[k] = log[k]
<1>1. ASSUME NEW kind \in Kinds, Produce(kind) PROVE log'[k] = log[k]
  BY <1>1 DEF Produce, ConsumerTypeOK
<1>2. log' = log \/ \E kind \in Kinds : Produce(kind)
  BY DEF ConsumerStep, Rebalance, StartConsumer, Stop, Fetch, Handles, HandleBatch,
     DeadLettersDone, DlqAccepted, DlqRejected, FinishBatch, Commit, CommitFails, ExitDone,
     ExitCanceled, EndProcess
<1> QED
  BY <1>1, <1>2, LogGrows

-----------------------------------------------------------------------------
(***************************************************************************)
(* Types.                                                                  *)
(***************************************************************************)
\* The sum of a batch is a number.
LEMMA UsageIsCount == ConsumerTypeOK => \A c : InviteUsageOf(c) \in Nat
<1> SUFFICES ASSUME ConsumerTypeOK, NEW c PROVE InviteUsageOf(c) \in Nat
  OBVIOUS
<1>1. DOMAIN batch = 1 .. Len(batch) /\ Len(batch) \in Nat
  BY DEF ConsumerTypeOK
<1>2. IsFiniteSet(DOMAIN batch)
  BY <1>1, FS_Interval
<1> QED
  BY <1>2, FS_Subset, FS_CardinalityType DEF InviteUsageOf

LEMMA InitUsageTypeOK == UsageInit => UsageTypeOK
  BY InitConsumerTypeOK DEF UsageInit, UsageTypeOK

LEMMA NextUsageTypeOK == UsageTypeOK /\ [UsageNext]_UsageVars => UsageTypeOK'
<1> SUFFICES ASSUME UsageTypeOK, [UsageNext]_UsageVars PROVE UsageTypeOK'
  OBVIOUS
<1>1. ConsumerTypeOK'
  BY UsageSteps, StepConsumerTypeOK DEF UsageTypeOK
<1>2. 1 .. Len(log) \subseteq 1 .. Len(log')
  BY UsageSteps, LogGrows DEF UsageTypeOK
<1>3. ASSUME NEW codes, UseServerInvite(codes)
      PROVE  usedCount' \in [Codes -> Nat] /\ counted' \subseteq 1 .. Len(log)
  <2>1. \A c : InviteUsageOf(c) \in Nat
    BY UsageIsCount DEF UsageTypeOK
  <2>2. usedCount' \in [Codes -> Nat]
    BY <1>3, <2>1 DEF UseServerInvite, UsageTypeOK
  <2>3. counted' \subseteq 1 .. Len(log)
    BY <1>3, BatchInLog DEF UseServerInvite, UsageTypeOK, JoinsOf
  <2> QED
    BY <2>2, <2>3
<1>4. /\ usedCount' \in [Codes -> Nat]
      /\ counted' \subseteq 1 .. Len(log) /\ uncounted' \subseteq 1 .. Len(log)
  <2>1. CASE UNCHANGED usageVars
    BY <2>1 DEF UsageTypeOK
  <2>2. CASE CountJoins
    BY <2>2, <1>3 DEF CountJoins, UsageTypeOK
  <2>3. CASE CountFails
    <3>1. PICK applied : UseServerInvite(applied) /\ uncounted' = uncounted \cup LeftOut(applied)
      BY <2>3 DEF CountFails
    <3> QED
      BY <3>1, <1>3, BatchInLog DEF LeftOut, JoinsOf, UsageTypeOK
  <2>4. CASE EndWhileCounting
    BY <2>4, <1>3 DEF EndWhileCounting, UsageTypeOK
  <2> QED
    BY <2>1, <2>2, <2>3, <2>4, UsageCases
<1> QED
  BY <1>1, <1>2, <1>4 DEF UsageTypeOK

\* InviteUsage keeps its types: offsets in the log, sums that are numbers.
THEOREM UsageTypeCorrect == UsageSpec => []UsageTypeOK
  BY InitUsageTypeOK, NextUsageTypeOK, PTL DEF UsageSpec

-----------------------------------------------------------------------------
(***************************************************************************)
(* Every join the group's offset covers is in used_count or was left out   *)
(* in a known way, although what a failing UPDATE gives back is committed  *)
(* and no dead letter handler looks at it.                                 *)
(***************************************************************************)
DealtWith == {k \in 1 .. Len(log) : log[k] \notin Codes} \cup counted \cup uncounted \cup skipped

DealtInv == UsageTypeOK /\ Covers(DealtWith)

LEMMA InitDealt == UsageInit => DealtInv
<1>1. UsageInit => Covers(DealtWith)
  BY CoversNothing DEF UsageInit
<1> QED
  BY <1>1, InitUsageTypeOK DEF DealtInv

\* Whatever part of its UPDATEs ran, the handler is done with the whole batch.
LEMMA CountDealsWithBatch ==
    ASSUME UsageTypeOK, CountBatch
    PROVE  InBatch \subseteq DealtWith'
<1>1. log' = log
  BY DEF CountBatch, CountJoins, CountFails, HandleBatch
<1>2. ASSUME NEW k \in InBatch
      PROVE  k \in 1 .. Len(log) /\ (log[k] \in Codes => log[k] \in BatchCodes)
  BY BatchInLog, InviteUsageAssumption DEF BatchCodes, UsageTypeOK
<1>3. CASE CountJoins
  BY <1>1, <1>2, <1>3 DEF CountJoins, UseServerInvite, JoinsOf, DealtWith
<1>4. CASE CountFails
  <2>1. PICK applied : /\ UseServerInvite(applied)
                       /\ uncounted' = uncounted \cup LeftOut(applied)
    BY <1>4 DEF CountFails
  <2>2. \A k \in InBatch : log[k] \in BatchCodes => k \in counted' \cup uncounted'
    BY <2>1 DEF UseServerInvite, LeftOut, JoinsOf
  <2> QED
    BY <1>1, <1>2, <2>2 DEF DealtWith
<1> QED
  BY <1>3, <1>4 DEF CountBatch

LEMMA NextDealt == DealtInv /\ [UsageNext]_UsageVars => DealtInv'
<1> SUFFICES ASSUME DealtInv, [UsageNext]_UsageVars PROVE Covers(DealtWith)'
  BY NextUsageTypeOK DEF DealtInv
<1>1. UsageTypeOK /\ ConsumerTypeOK /\ ConsumerStep /\ ~DeadLettersDone /\ Covers(DealtWith)
  BY UsageSteps DEF DealtInv, UsageTypeOK
<1>2. DealtWith \subseteq DealtWith' /\ skipped' \subseteq DealtWith'
  <2>1. skipped \subseteq skipped'
    BY <1>1, GhostsGrow
  <2>2. counted \cup uncounted \subseteq (counted \cup uncounted)'
    BY UsageCases DEF CountJoins, CountFails, EndWhileCounting, UseServerInvite
  <2>3. \A k \in 1 .. Len(log) : k \in 1 .. Len(log') /\ log'[k] = log[k]
    BY <1>1, LogKept
  <2> QED
    BY <2>1, <2>2, <2>3 DEF DealtWith
<1>3. Handles => InBatch \subseteq DealtWith'
  BY <1>1, UsageSteps, CountDealsWithBatch
<1> QED
  BY <1>1, <1>2, <1>3, CoversStep DEF Covers

THEOREM JoinsCountedOrLeftOutCorrect == UsageSpec => []JoinsCountedOrLeftOut
<1>1. DealtInv => JoinsCountedOrLeftOut
  BY DEF DealtInv, Covers, DealtWith, JoinsCountedOrLeftOut
<1> QED
  BY <1>1, InitDealt, NextDealt, PTL DEF UsageSpec

-----------------------------------------------------------------------------
(***************************************************************************)
(* A join is in used_count at most once for each time the reader went back *)
(* to it.  While a batch is collected, what used_count and the batch hold  *)
(* of a code is at most what earlier passes over the log can have brought  *)
(* and what this pass has read; when it has been counted the batch adds no *)
(* more, and without a process there is no pass.                           *)
(***************************************************************************)
\* The joins of a code that the reader has passed.
Passed(c) == {k \in 1 .. position : log[k] = c}

\* What the batch will still add to used_count.
Ahead(c) == IF pc = "loop" THEN InviteUsageOf(c) ELSE 0

\* How often this pass has read a join of the code.
ThisPass(c) == IF pc = "off" THEN 0 ELSE Cardinality(Passed(c))

PassesBound(c) ==
    usedCount[c] + Ahead(c) <= upsets * Cardinality(Joins(c)) + ThisPass(c)

PassesInv ==
    /\ UsageTypeOK
    /\ pc = "off" => batch = <<>>
    /\ \A c \in Codes : PassesBound(c)

\* The numbers PassesBound is about.
LEMMA PassedWithinJoins ==
    ASSUME ConsumerTypeOK, NEW c
    PROVE  /\ IsFiniteSet(Joins(c)) /\ IsFiniteSet(Passed(c))
           /\ Cardinality(Joins(c)) \in Nat
           /\ Cardinality(Passed(c)) \in Nat
           /\ Cardinality(Passed(c)) <= Cardinality(Joins(c))
<1>1. DOMAIN log = 1 .. Len(log) /\ Len(log) \in Nat /\ position \in 0 .. Len(log)
  BY DEF ConsumerTypeOK
<1>2. IsFiniteSet(1 .. Len(log))
  BY <1>1, FS_Interval
<1>3. Joins(c) \in SUBSET (1 .. Len(log))
  BY <1>1 DEF Joins
<1>4. IsFiniteSet(Joins(c))
  BY <1>2, <1>3, FS_Subset
<1>5. Passed(c) \in SUBSET Joins(c)
  BY <1>1 DEF Joins, Passed
<1>6. IsFiniteSet(Passed(c)) /\ Cardinality(Passed(c)) <= Cardinality(Joins(c))
  BY <1>4, <1>5, FS_Subset
<1> QED
  BY <1>4, <1>6, FS_CardinalityType

\* What a pass has read is a number, wherever the pass is.
LEMMA PassIsCount ==
    ASSUME NEW c, position' \in Nat
    PROVE  ThisPass(c)' \in Nat
<1>1. IsFiniteSet(1 .. position')
  BY FS_Interval
<1>2. Passed(c)' \in SUBSET (1 .. position')
  BY DEF Passed
<1>3. Cardinality(Passed(c)') \in Nat
  BY <1>1, <1>2, FS_Subset, FS_CardinalityType
<1> QED
  BY <1>3 DEF ThisPass

\* One more pass can bring every join of the code once more.
LEMMA OneMorePass ==
    ASSUME NEW u \in Nat, NEW n \in Nat
    PROVE  (u + 1) * n = u * n + n /\ u * n \in Nat /\ u * (n + 1) = u * n + u
  OBVIOUS

LEMMA InitPasses == UsageInit => PassesInv
<1> SUFFICES ASSUME UsageInit, NEW c \in Codes PROVE PassesBound(c)
  BY InitUsageTypeOK DEF PassesInv, UsageInit, ConsumerInit
<1>1. ConsumerTypeOK /\ upsets = 0 /\ pc = "off" /\ usedCount[c] = 0
  BY InitUsageTypeOK DEF UsageInit, ConsumerInit, UsageTypeOK
<1>2. upsets * Cardinality(Joins(c)) = 0
  BY <1>1, PassedWithinJoins
<1> QED
  BY <1>1, <1>2 DEF PassesBound, Ahead, ThisPass

\* A message that is fetched is read once in this pass and once in the batch.
LEMMA FetchPasses ==
    ASSUME UsageTypeOK, NEW c \in Codes, PassesBound(c), Fetch, UNCHANGED usageVars
    PROVE  PassesBound(c)'
<1>1. /\ log' = log /\ pc = "loop" /\ pc' = "loop" /\ upsets' = upsets
      /\ position' = position + 1
      /\ batch' = Append(batch, position + 1) /\ usedCount' = usedCount
      /\ ConsumerTypeOK /\ position \in Nat /\ Len(batch) \in Nat
  BY DEF Fetch, UsageTypeOK, ConsumerTypeOK
<1> DEFINE hit == log[position + 1] = c
           Named == {j \in DOMAIN batch : log[batch[j]] = c}
<1>2. Passed(c)' = IF hit THEN Passed(c) \cup {position + 1} ELSE Passed(c)
  BY <1>1 DEF Passed
<1>3. position + 1 \notin Passed(c)
  BY <1>1 DEF Passed
<1>4. Cardinality(Passed(c)') = Cardinality(Passed(c)) + IF hit THEN 1 ELSE 0
  <2>1. IsFiniteSet(Passed(c)) /\ Cardinality(Passed(c)) \in Nat
    BY <1>1, PassedWithinJoins
  <2>2. Cardinality(Passed(c) \cup {position + 1}) = Cardinality(Passed(c)) + 1
    BY <2>1, <1>3, FS_AddElement
  <2> QED
    BY <1>2, <2>1, <2>2
<1>5. /\ DOMAIN batch = 1 .. Len(batch) /\ DOMAIN batch' = 1 .. (Len(batch) + 1)
      /\ \A j \in 1 .. Len(batch) : batch'[j] = batch[j]
      /\ batch'[Len(batch) + 1] = position + 1
  BY <1>1 DEF ConsumerTypeOK
<1>6. {j \in DOMAIN batch' : log'[batch'[j]] = c} =
        IF hit THEN Named \cup {Len(batch) + 1} ELSE Named
  BY <1>1, <1>5
<1>7. InviteUsageOf(c)' = InviteUsageOf(c) + IF hit THEN 1 ELSE 0
  <2>1. IsFiniteSet(DOMAIN batch)
    BY <1>1, <1>5, FS_Interval
  <2>2. IsFiniteSet(Named) /\ Cardinality(Named) \in Nat
    <3>1. Named \in SUBSET DOMAIN batch
      OBVIOUS
    <3> HIDE DEF Named
    <3> QED
      BY <2>1, <3>1, FS_Subset, FS_CardinalityType
  <2>3. Len(batch) + 1 \notin Named
    BY <1>1, <1>5
  <2>4. Cardinality(Named \cup {Len(batch) + 1}) = Cardinality(Named) + 1
    <3> HIDE DEF Named
    <3> QED
      BY <2>2, <2>3, FS_AddElement
  <2>5. InviteUsageOf(c) = Cardinality(Named)
    BY DEF InviteUsageOf
  <2>6. InviteUsageOf(c)' = Cardinality(IF hit THEN Named \cup {Len(batch) + 1} ELSE Named)
    BY <1>6 DEF InviteUsageOf
  <2> HIDE DEF Named, hit
  <2> QED
    BY <2>2, <2>4, <2>5, <2>6
<1>8. Joins(c)' = Joins(c)
  BY <1>1 DEF Joins
<1>9. /\ InviteUsageOf(c) \in Nat /\ Cardinality(Passed(c)) \in Nat
      /\ upsets * Cardinality(Joins(c)) \in Nat /\ usedCount[c] \in Nat
  BY <1>1, UsageIsCount, PassedWithinJoins, OneMorePass DEF UsageTypeOK, ConsumerTypeOK
<1> QED
  BY <1>1, <1>4, <1>7, <1>8, <1>9 DEF PassesBound, Ahead, ThisPass

\* Counting moves what the batch holds into used_count, all of it or a part.
LEMMA CountPasses ==
    ASSUME UsageTypeOK, NEW c \in Codes, PassesBound(c), pc = "loop",
           NEW codes, UseServerInvite(codes)
    PROVE  usedCount'[c] <= upsets * Cardinality(Joins(c)) + Cardinality(Passed(c))
<1>1. InviteUsageOf(c) \in Nat /\ usedCount[c] \in Nat
  BY UsageIsCount DEF UsageTypeOK
<1>2. usedCount'[c] = usedCount[c] + IF c \in codes THEN InviteUsageOf(c) ELSE 0
  BY DEF UseServerInvite
<1>3. Cardinality(Passed(c)) \in Nat /\ upsets * Cardinality(Joins(c)) \in Nat
  BY PassedWithinJoins, OneMorePass DEF UsageTypeOK, ConsumerTypeOK
<1> QED
  BY <1>1, <1>2, <1>3 DEF PassesBound, Ahead, ThisPass

\* An upset ends the pass, which has read each join of the code once at most.
LEMMA UpsetPasses ==
    ASSUME UsageTypeOK, NEW c \in Codes, NEW n \in Nat,
           n <= upsets * Cardinality(Joins(c)) + Cardinality(Passed(c)),
           upsets' = upsets + 1, log' = log
    PROVE  n <= upsets' * Cardinality(Joins(c)') /\ upsets' * Cardinality(Joins(c)') \in Nat
<1>1. Joins(c)' = Joins(c)
  BY DEF Joins
<1>2. /\ Cardinality(Passed(c)) \in Nat /\ Cardinality(Joins(c)) \in Nat
      /\ Cardinality(Passed(c)) <= Cardinality(Joins(c)) /\ upsets \in Nat
  BY PassedWithinJoins DEF UsageTypeOK, ConsumerTypeOK
<1>3. /\ upsets' * Cardinality(Joins(c)) = upsets * Cardinality(Joins(c)) + Cardinality(Joins(c))
      /\ upsets * Cardinality(Joins(c)) \in Nat
  BY <1>2, OneMorePass
<1> QED
  BY <1>1, <1>2, <1>3

\* A step that leaves the pass where it is, adds nothing to the batch and
\* nothing to used_count, or lets the batch go.
LEMMA IdlePasses ==
    ASSUME UsageTypeOK, NEW c \in Codes, PassesBound(c),
           UNCHANGED <<log, position, upsets, usedCount>>,
           batch' = batch \/ batch' = <<>>,
           pc' = pc \/ (pc = "commit" /\ pc' = "loop" /\ batch' = <<>>) \/ pc' = "exited",
           pc = "off" => pc' = "off"
    PROVE  PassesBound(c)'
<1>1. Joins(c)' = Joins(c) /\ Passed(c)' = Passed(c)
  BY DEF Joins, Passed
<1>2. batch' = batch => InviteUsageOf(c)' = InviteUsageOf(c)
  BY DEF InviteUsageOf
<1>3. batch' = <<>> => InviteUsageOf(c)' = 0
  <2>1. batch' = <<>> => {j \in DOMAIN batch' : log'[batch'[j]] = c} = {}
    OBVIOUS
  <2> QED
    BY <2>1, FS_EmptySet DEF InviteUsageOf
<1>4. InviteUsageOf(c) \in Nat /\ usedCount[c] \in Nat
  BY UsageIsCount DEF UsageTypeOK
<1>5. Cardinality(Passed(c)) \in Nat /\ upsets * Cardinality(Joins(c)) \in Nat
  BY PassedWithinJoins, OneMorePass DEF UsageTypeOK, ConsumerTypeOK
<1>6. Ahead(c)' <= Ahead(c) /\ Ahead(c)' \in Nat /\ Ahead(c) \in Nat
  BY <1>2, <1>3, <1>4 DEF Ahead
<1>7. ThisPass(c)' = ThisPass(c) /\ ThisPass(c) \in Nat
  BY <1>1, <1>5 DEF ThisPass, UsageTypeOK, ConsumerTypeOK, ConsumerPC
<1> QED
  BY <1>1, <1>4, <1>5, <1>6, <1>7 DEF PassesBound

\* A process that ends takes its batch with it.
LEMMA OffIsEmpty ==
    ASSUME [UsageNext]_UsageVars, pc = "off" => batch = <<>>
    PROVE  pc' = "off" => batch' = <<>>
  BY UsageCases DEF Produce, Rebalance, StartConsumer, Stop, Fetch, Commit, CommitFails,
     FinishBatch, ExitDone, ExitCanceled, EndProcess, CountJoins, CountFails, HandleBatch,
     EndWhileCounting

LEMMA NextPasses == PassesInv /\ [UsageNext]_UsageVars => PassesInv'
<1> SUFFICES ASSUME PassesInv, [UsageNext]_UsageVars, NEW c \in Codes PROVE PassesBound(c)'
  BY NextUsageTypeOK, OffIsEmpty DEF PassesInv
<1>1. /\ UsageTypeOK /\ PassesBound(c) /\ ConsumerTypeOK /\ ConsumerTypeOK'
      /\ usedCount[c] \in Nat /\ usedCount'[c] \in Nat /\ UsageTypeOK'
  BY NextUsageTypeOK DEF PassesInv, UsageTypeOK
<1>2. /\ InviteUsageOf(c) \in Nat /\ Cardinality(Passed(c)) \in Nat
      /\ upsets \in Nat /\ upsets * Cardinality(Joins(c)) \in Nat
  BY <1>1, UsageIsCount, PassedWithinJoins, OneMorePass DEF ConsumerTypeOK
<1>3. ASSUME NEW kind \in Kinds, Produce(kind), UNCHANGED usageVars PROVE PassesBound(c)'
  <2>1. /\ UNCHANGED <<position, batch, pc, upsets, usedCount>>
        /\ log' = Append(log, kind)
    BY <1>3 DEF Produce
  <2>2. Passed(c)' = Passed(c) /\ InviteUsageOf(c)' = InviteUsageOf(c)
    <3>1. \A k \in 1 .. position : log'[k] = log[k]
      BY <2>1, <1>1 DEF ConsumerTypeOK
    <3>2. \A j \in DOMAIN batch : log'[batch[j]] = log[batch[j]]
      BY <2>1, <1>1 DEF ConsumerTypeOK
    <3> QED
      BY <2>1, <3>1, <3>2 DEF Passed, InviteUsageOf
  <2>3. /\ upsets * Cardinality(Joins(c)) <= upsets' * Cardinality(Joins(c)')
        /\ upsets' * Cardinality(Joins(c)') \in Nat
    <3>1. Joins(c)' = Joins(c) \cup (IF kind = c THEN {Len(log) + 1} ELSE {})
      BY <2>1, <1>1 DEF Joins, ConsumerTypeOK
    <3>2. Len(log) + 1 \notin Joins(c)
      BY <1>1 DEF Joins, ConsumerTypeOK
    <3>3. /\ Cardinality(Joins(c)') \in {Cardinality(Joins(c)), Cardinality(Joins(c)) + 1}
          /\ Cardinality(Joins(c)) \in Nat
      BY <1>1, <3>1, <3>2, PassedWithinJoins, FS_AddElement
    <3> QED
      BY <2>1, <3>3, <1>1, OneMorePass DEF ConsumerTypeOK
  <2>4. /\ Ahead(c)' = Ahead(c) /\ ThisPass(c)' = ThisPass(c)
        /\ Ahead(c) \in Nat /\ ThisPass(c) \in Nat
    BY <2>1, <2>2, <1>2 DEF Ahead, ThisPass
  <2>5. usedCount'[c] + Ahead(c)' <= upsets * Cardinality(Joins(c)) + ThisPass(c)'
    BY <1>1, <2>1, <2>4 DEF PassesBound
  <2> QED
    BY <1>1, <1>2, <2>3, <2>4, <2>5 DEF PassesBound
<1>4. CASE Rebalance /\ UNCHANGED usageVars
  <2>1. /\ UNCHANGED <<log, batch, pc, usedCount>> /\ upsets' = upsets + 1 /\ pc # "off"
    BY <1>4 DEF Rebalance
  <2>2. Ahead(c)' = Ahead(c) /\ Ahead(c) \in Nat
    BY <2>1, <1>2 DEF Ahead, InviteUsageOf
  <2>3. usedCount[c] + Ahead(c) <= upsets * Cardinality(Joins(c)) + Cardinality(Passed(c))
    BY <1>1, <2>1 DEF PassesBound, ThisPass
  <2>4. /\ usedCount[c] + Ahead(c) <= upsets' * Cardinality(Joins(c)')
        /\ upsets' * Cardinality(Joins(c)') \in Nat
    BY <1>1, <2>1, <2>2, <2>3, UpsetPasses
  <2>5. ThisPass(c)' \in Nat
    BY <1>1, PassIsCount DEF ConsumerTypeOK
  <2> QED
    BY <1>1, <1>2, <2>1, <2>2, <2>4, <2>5 DEF PassesBound
<1>5. CASE StartConsumer /\ UNCHANGED usageVars
  <2>1. UNCHANGED <<log, upsets, usedCount>> /\ pc = "off" /\ pc' = "loop" /\ batch' = <<>>
    BY <1>5 DEF StartConsumer, PassesInv
  <2>2. InviteUsageOf(c)' = 0
    <3>1. {j \in DOMAIN batch' : log'[batch'[j]] = c} = {}
      BY <2>1
    <3> QED
      BY <3>1, FS_EmptySet DEF InviteUsageOf
  <2>3. usedCount[c] <= upsets * Cardinality(Joins(c))
    BY <1>1, <1>2, <2>1 DEF PassesBound, Ahead, ThisPass
  <2>4. Joins(c)' = Joins(c) /\ ThisPass(c)' \in Nat
    BY <2>1, <1>1, PassIsCount DEF Joins, ConsumerTypeOK
  <2> QED
    BY <1>1, <1>2, <2>1, <2>2, <2>3, <2>4 DEF PassesBound, Ahead
<1>6. CASE (Stop \/ Commit \/ CommitFails \/ ExitDone \/ ExitCanceled) /\ UNCHANGED usageVars
  <2>1. /\ UNCHANGED <<log, position, upsets, usedCount>>
        /\ batch' = batch \/ batch' = <<>>
        /\ pc' = pc \/ (pc = "commit" /\ pc' = "loop" /\ batch' = <<>>) \/ pc' = "exited"
        /\ pc # "off"
    BY <1>6 DEF Stop, Commit, CommitFails, FinishBatch, ExitDone, ExitCanceled
  <2> QED
    BY <1>1, <2>1, IdlePasses
<1>7. CASE Fetch /\ UNCHANGED usageVars
  BY <1>1, <1>7, FetchPasses
<1>8. CASE CountBatch
  <2>1. PICK codes : UseServerInvite(codes)
    BY <1>8 DEF CountBatch, CountJoins, CountFails
  <2>2. /\ UNCHANGED <<log, position, upsets>> /\ pc = "loop" /\ pc' \in {"dlq", "commit"}
    BY <1>8 DEF CountBatch, CountJoins, CountFails, HandleBatch
  <2>3. usedCount'[c] <= upsets * Cardinality(Joins(c)) + Cardinality(Passed(c))
    BY <1>1, <2>1, <2>2, CountPasses
  <2>4. /\ Joins(c)' = Joins(c) /\ Passed(c)' = Passed(c)
    BY <2>2 DEF Joins, Passed
  <2> QED
    BY <1>1, <1>2, <2>2, <2>3, <2>4 DEF PassesBound, Ahead, ThisPass
<1>9. CASE EndProcess /\ UNCHANGED usageVars
  <2>1. /\ log' = log /\ usedCount' = usedCount /\ upsets' = upsets + 1
        /\ pc # "off" /\ pc' = "off"
    BY <1>9 DEF EndProcess
  <2>2. usedCount[c] <= upsets * Cardinality(Joins(c)) + Cardinality(Passed(c))
    BY <1>1, <1>2, <2>1 DEF PassesBound, Ahead, ThisPass
  <2>3. /\ usedCount[c] <= upsets' * Cardinality(Joins(c)')
        /\ upsets' * Cardinality(Joins(c)') \in Nat
    BY <1>1, <2>1, <2>2, UpsetPasses
  <2> QED
    BY <1>1, <2>1, <2>3 DEF PassesBound, Ahead, ThisPass
<1>10. CASE EndWhileCounting
  <2>1. PICK codes : UseServerInvite(codes)
    BY <1>10 DEF EndWhileCounting
  <2>2. log' = log /\ upsets' = upsets + 1 /\ pc = "loop" /\ pc' = "off"
    BY <1>10 DEF EndWhileCounting, EndProcess
  <2>3. usedCount'[c] <= upsets * Cardinality(Joins(c)) + Cardinality(Passed(c))
    BY <1>1, <2>1, <2>2, CountPasses
  <2>4. /\ usedCount'[c] <= upsets' * Cardinality(Joins(c)')
        /\ upsets' * Cardinality(Joins(c)') \in Nat
    BY <1>1, <2>2, <2>3, UpsetPasses
  <2> QED
    BY <1>1, <2>2, <2>4 DEF PassesBound, Ahead, ThisPass
<1>11. CASE UNCHANGED UsageVars
  BY <1>1, <1>11, IdlePasses
<1> QED
  BY <1>3, <1>4, <1>5, <1>6, <1>7, <1>8, <1>9, <1>10, <1>11, UsageCases DEF CountBatch

THEOREM CountedOncePerDeliveryCorrect == UsageSpec => []CountedOncePerDelivery
<1>1. PassesInv => CountedOncePerDelivery
  <2> SUFFICES ASSUME PassesInv, NEW c \in Codes
               PROVE  usedCount[c] <= (upsets + 1) * Cardinality(Joins(c))
    BY DEF CountedOncePerDelivery
  <2>1. /\ ConsumerTypeOK /\ usedCount[c] \in Nat /\ upsets \in Nat /\ PassesBound(c)
    BY DEF PassesInv, UsageTypeOK, ConsumerTypeOK
  <2>2. /\ InviteUsageOf(c) \in Nat /\ Cardinality(Joins(c)) \in Nat
        /\ Cardinality(Passed(c)) \in Nat
        /\ Cardinality(Passed(c)) <= Cardinality(Joins(c))
    BY <2>1, UsageIsCount, PassedWithinJoins
  <2>3. /\ (upsets + 1) * Cardinality(Joins(c))
             = upsets * Cardinality(Joins(c)) + Cardinality(Joins(c))
        /\ upsets * Cardinality(Joins(c)) \in Nat
    BY <2>1, <2>2, OneMorePass
  <2> QED
    BY <2>1, <2>2, <2>3 DEF PassesBound, Ahead, ThisPass
<1> QED
  BY <1>1, InitPasses, NextPasses, PTL DEF UsageSpec

-----------------------------------------------------------------------------
(***************************************************************************)
(* The consumer implements JoinCount: a message that names a code is a     *)
(* join, a batch that is counted, whole or in part, is a Count, and        *)
(* everything else is a stutter.                                           *)
(***************************************************************************)
CountInv == PassesInv /\ upsets <= MaxUpsets

LEMMA InitCount == UsageInit => CountInv
  BY InitPasses, BatchConsumerAssumption DEF CountInv, UsageInit, ConsumerInit

LEMMA NextCount == CountInv /\ [UsageNext]_UsageVars => CountInv'
<1> SUFFICES ASSUME CountInv, [UsageNext]_UsageVars PROVE upsets' <= MaxUpsets
  BY NextPasses DEF CountInv
<1>1. upsets \in Nat /\ MaxUpsets \in Nat /\ upsets <= MaxUpsets
  BY BatchConsumerAssumption DEF CountInv, PassesInv, UsageTypeOK, ConsumerTypeOK
<1>2. upsets' = upsets \/ (upsets < MaxUpsets /\ upsets' = upsets + 1)
  BY UsageCases DEF Produce, Rebalance, StartConsumer, Stop, Fetch, Commit, CommitFails,
     FinishBatch, ExitDone, ExitCanceled, EndProcess, CountJoins, CountFails, HandleBatch,
     EndWhileCounting
<1> QED
  BY <1>1, <1>2

\* What PassesInv says of used_count, with the most passes there can be.
WithinDeliveries ==
    \A c \in Codes :
        /\ usedCount[c] \in Nat /\ Cardinality(Joins(c)) \in Nat
        /\ usedCount[c] <= (MaxUpsets + 1) * Cardinality(Joins(c))

LEMMA UsedWithinDeliveries == CountInv => WithinDeliveries
<1> SUFFICES ASSUME CountInv, NEW c \in Codes
             PROVE  /\ usedCount[c] \in Nat /\ Cardinality(Joins(c)) \in Nat
                    /\ usedCount[c] <= (MaxUpsets + 1) * Cardinality(Joins(c))
  BY DEF WithinDeliveries
<1>1. /\ ConsumerTypeOK /\ usedCount[c] \in Nat /\ PassesBound(c)
      /\ upsets \in Nat /\ MaxUpsets \in Nat /\ upsets <= MaxUpsets
  BY BatchConsumerAssumption DEF CountInv, PassesInv, UsageTypeOK, ConsumerTypeOK
<1>2. /\ InviteUsageOf(c) \in Nat /\ Cardinality(Joins(c)) \in Nat
      /\ Cardinality(Passed(c)) \in Nat
      /\ Cardinality(Passed(c)) <= Cardinality(Joins(c))
  BY <1>1, UsageIsCount, PassedWithinJoins
<1>3. /\ (MaxUpsets + 1) * Cardinality(Joins(c))
           = MaxUpsets * Cardinality(Joins(c)) + Cardinality(Joins(c))
      /\ upsets * Cardinality(Joins(c)) \in Nat
      /\ upsets * Cardinality(Joins(c)) <= MaxUpsets * Cardinality(Joins(c))
      /\ MaxUpsets * Cardinality(Joins(c)) \in Nat
  <2> SUFFICES ASSUME NEW n \in Nat, NEW u \in Nat, NEW m \in Nat, u <= m
               PROVE  (m + 1) * n = m * n + n /\ u * n \in Nat /\ u * n <= m * n /\ m * n \in Nat
    BY <1>1, <1>2
  <2> QED
    OBVIOUS
<1> QED
  BY <1>1, <1>2, <1>3 DEF PassesBound, Ahead, ThisPass

joinsBar == [c \in Codes |-> Cardinality(Joins(c))]

LEMMA InitImplements == UsageInit => Abstract!JoinInit
<1> SUFFICES ASSUME UsageInit PROVE Abstract!JoinInit
  OBVIOUS
<1>1. \A c : Joins(c) = {}
  BY DEF UsageInit, ConsumerInit, Joins
<1> QED
  BY <1>1, FS_EmptySet DEF UsageInit, Abstract!JoinInit

\* A message is one join of the code it names.
LEMMA ProduceImplements ==
    ASSUME CountInv, NEW kind \in Kinds, Produce(kind), UNCHANGED usageVars
    PROVE  Abstract!Join \/ UNCHANGED <<joinsBar, usedCount>>
<1>1. ConsumerTypeOK /\ log' = Append(log, kind) /\ usedCount' = usedCount
  BY DEF CountInv, PassesInv, UsageTypeOK, Produce
<1>2. ASSUME NEW c
      PROVE  Cardinality(Joins(c))' = Cardinality(Joins(c)) + IF kind = c THEN 1 ELSE 0
  <2>1. Joins(c)' = IF kind = c THEN Joins(c) \cup {Len(log) + 1} ELSE Joins(c)
    BY <1>1 DEF Joins, ConsumerTypeOK
  <2>2. Len(log) + 1 \notin Joins(c)
    BY <1>1 DEF Joins, ConsumerTypeOK
  <2>3. IsFiniteSet(Joins(c)) /\ Cardinality(Joins(c)) \in Nat
    BY <1>1, PassedWithinJoins
  <2>4. Cardinality(Joins(c) \cup {Len(log) + 1}) = Cardinality(Joins(c)) + 1
    BY <2>2, <2>3, FS_AddElement
  <2> QED
    BY <2>1, <2>3, <2>4
<1>3. \A c \in Codes : Cardinality(Joins(c)) \in Nat
  BY UsedWithinDeliveries DEF WithinDeliveries
<1>4. CASE kind \in Codes
  <2>1. joinsBar' = [joinsBar EXCEPT ![kind] = @ + 1]
    <3>1. \A c \in Codes : joinsBar'[c] = joinsBar[c] + IF kind = c THEN 1 ELSE 0
      BY <1>2 DEF joinsBar
    <3>2. joinsBar \in [Codes -> Nat] /\ joinsBar' = [c \in Codes |-> joinsBar'[c]]
      BY <1>3 DEF joinsBar
    <3> HIDE DEF joinsBar
    <3> QED
      BY <3>1, <3>2, <1>4
  <2> QED
    BY <1>1, <1>4, <2>1 DEF Abstract!Join, joinsBar
<1>5. CASE kind \notin Codes
  <2>1. joinsBar' = joinsBar
    BY <1>2, <1>3, <1>5 DEF joinsBar
  <2> QED
    BY <1>1, <2>1
<1> QED
  BY <1>4, <1>5

\* A batch that is counted raises used_count, and not above its bound.
LEMMA CountImplements ==
    ASSUME CountInv, CountInv', NEW codes, UseServerInvite(codes), log' = log
    PROVE  Abstract!Count
<1>1. joinsBar' = joinsBar
  BY DEF Joins, joinsBar
<1>2. \A c \in Codes :
        /\ usedCount[c] \in Nat /\ usedCount'[c] \in Nat /\ joinsBar[c] \in Nat
        /\ usedCount'[c] <= (MaxUpsets + 1) * joinsBar[c]
  <2>1. WithinDeliveries /\ WithinDeliveries'
    BY UsedWithinDeliveries, PTL
  <2>2. \A c \in Codes : joinsBar[c] = Cardinality(Joins(c)) /\ Joins(c)' = Joins(c)
    BY DEF Joins, joinsBar
  <2> QED
    BY <2>1, <2>2 DEF WithinDeliveries
<1>3. \A c \in Codes : usedCount[c] <= usedCount'[c]
  <2> SUFFICES ASSUME NEW c \in Codes PROVE usedCount[c] <= usedCount'[c]
    OBVIOUS
  <2>1. InviteUsageOf(c) \in Nat
    BY UsageIsCount DEF CountInv, PassesInv, UsageTypeOK
  <2> QED
    BY <2>1, <1>2 DEF UseServerInvite
<1>4. usedCount' \in [Codes -> UNION {0 .. (MaxUpsets + 1) * joinsBar[c] : c \in Codes}]
  <2>1. usedCount' = [c \in Codes |-> usedCount'[c]]
    BY DEF UseServerInvite
  <2>2. \A c \in Codes : usedCount'[c] \in 0 .. (MaxUpsets + 1) * joinsBar[c]
    BY <1>2, BatchConsumerAssumption
  <2> QED
    BY <2>1, <2>2
<1> QED
  BY <1>1, <1>2, <1>3, <1>4 DEF Abstract!Count, joinsBar

LEMMA NextImplements ==
    CountInv /\ CountInv' /\ [UsageNext]_UsageVars
        => [Abstract!Join \/ Abstract!Count]_<<joinsBar, usedCount>>
<1> SUFFICES ASSUME CountInv, CountInv', [UsageNext]_UsageVars
             PROVE  Abstract!Join \/ Abstract!Count \/ UNCHANGED <<joinsBar, usedCount>>
  OBVIOUS
<1>1. ASSUME NEW kind \in Kinds, Produce(kind), UNCHANGED usageVars
      PROVE  Abstract!Join \/ UNCHANGED <<joinsBar, usedCount>>
  BY <1>1, ProduceImplements
<1>2. CASE CountBatch \/ EndWhileCounting
  <2>1. PICK codes : UseServerInvite(codes)
    BY <1>2 DEF CountBatch, CountJoins, CountFails, EndWhileCounting
  <2>2. log' = log
    BY <1>2 DEF CountBatch, CountJoins, CountFails, HandleBatch, EndWhileCounting, EndProcess
  <2> QED
    BY <2>1, <2>2, CountImplements
<1>3. CASE UNCHANGED <<log, usedCount>>
  BY <1>3 DEF joinsBar, Joins
<1>4. \/ \E kind \in Kinds : Produce(kind) /\ UNCHANGED usageVars
      \/ CountBatch \/ EndWhileCounting
      \/ UNCHANGED <<log, usedCount>>
  BY UsageCases DEF CountBatch, Rebalance, StartConsumer, Stop, Fetch, Commit, CommitFails,
     FinishBatch, ExitDone, ExitCanceled, EndProcess
<1> QED
  BY <1>1, <1>2, <1>3, <1>4

\* Whatever is delivered again, fails or ends, the consumer's used_count
\* behaves as JoinCount promises the invites.
THEOREM ImplementsJoinCountCorrect == UsageSpec => ImplementsJoinCount
<1>1. ImplementsJoinCount
        <=> Abstract!JoinInit /\ [][Abstract!Join \/ Abstract!Count]_<<joinsBar, usedCount>>
  BY DEF ImplementsJoinCount, Abstract!JoinSpec, joinsBar
<1> QED
  BY <1>1, InitCount, NextCount, InitImplements, NextImplements, PTL DEF UsageSpec

\* So is the member events' loop, whose batches are counted in the database.
THEOREM UsageConsumerLives == UsageSpec => Life!LifeSpec
<1>1. Life!LifeSpec <=> Life!LifeInit /\ [][Life!LifeNext]_<<lifeBar, toldBar>>
  BY DEF Life!LifeSpec
<1>2. UsageInit => Life!LifeInit
  BY InitLife DEF UsageInit
<1>3. UsageTypeOK /\ [UsageNext]_UsageVars => [Life!LifeNext]_<<lifeBar, toldBar>>
  BY UsageSteps, StepLife DEF UsageTypeOK
<1> QED
  BY <1>1, <1>2, <1>3, UsageTypeCorrect, PTL DEF UsageSpec
=============================================================================
