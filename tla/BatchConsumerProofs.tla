------------------------- MODULE BatchConsumerProofs -------------------------
(***************************************************************************)
(* What every consumer built on BatchConsumer shares: its types, the       *)
(* coverage argument, by which a commit, cumulative as it is, covers only  *)
(* messages the handlers have dealt with, and the steps of ConsumerLife.   *)
(***************************************************************************)
EXTENDS BatchConsumer, TLAPS

USE DEF consumerVars, loopVars

\* The batch handler runs and gives back some of the batch.
Handles == \E F \in SUBSET InBatch : HandleBatch(F)

DeadLettersDone == DlqAccepted \/ DlqRejected

\* All that the loop, the broker and the process do.
ConsumerStep ==
    \/ \E kind \in Kinds : Produce(kind)
    \/ Rebalance \/ StartConsumer \/ Stop \/ Fetch
    \/ Handles \/ DeadLettersDone
    \/ Commit \/ CommitFails \/ ExitDone \/ ExitCanceled \/ EndProcess
    \/ UNCHANGED consumerVars

-----------------------------------------------------------------------------
(***************************************************************************)
(* What the offsets of the batch become.                                   *)
(***************************************************************************)
LEMMA BatchKept == batch' = batch => InBatch' = InBatch
  BY DEF InBatch

LEMMA BatchEmptied == batch' = <<>> => InBatch' = {}
  BY DEF InBatch

LEMMA BatchAppended ==
    ASSUME ConsumerTypeOK, NEW k, batch' = Append(batch, k)
    PROVE  InBatch' = InBatch \cup {k}
<1>1. batch \in Seq(1 .. Len(log))
  BY DEF ConsumerTypeOK
<1>2. /\ DOMAIN batch' = DOMAIN batch \cup {Len(batch) + 1}
      /\ \A j \in DOMAIN batch : batch'[j] = batch[j] /\ j # Len(batch) + 1
      /\ batch'[Len(batch) + 1] = k
  BY <1>1
<1> QED
  BY <1>2, Zenon DEF InBatch

LEMMA BatchInLog == ConsumerTypeOK => InBatch \subseteq 1 .. Len(log)
  BY DEF ConsumerTypeOK, InBatch

-----------------------------------------------------------------------------
(***************************************************************************)
(* Types.                                                                  *)
(***************************************************************************)
LEMMA InitConsumerTypeOK == ConsumerInit => ConsumerTypeOK
<1> SUFFICES ASSUME ConsumerInit PROVE ConsumerTypeOK
  OBVIOUS
<1>1. log \in Seq(Kinds) /\ Len(log) = 0
  BY DEF ConsumerInit
<1>2. batch \in Seq(1 .. Len(log)) /\ Len(batch) = 0
  BY DEF ConsumerInit
<1>3. committed \in Int /\ -1 <= committed /\ committed <= Len(log) /\ position \in 0 .. Len(log)
  BY <1>1 DEF ConsumerInit
<1>4. /\ failed = {} /\ handled = {} /\ skipped = {}
      /\ pc = "off" /\ upsets = 0
  BY DEF ConsumerInit
<1>5. cancelled \in BOOLEAN
  BY Zenon DEF ConsumerInit
<1> QED
  BY <1>1, <1>2, <1>3, <1>4, <1>5, BatchConsumerAssumption DEF ConsumerTypeOK, ConsumerPC

\* Where a reader starts is in the log.
LEMMA ResumeInLog ==
    ASSUME ConsumerTypeOK, Reposition, log' = log
    PROVE  position' \in 0 .. Len(log) /\ skipped' \subseteq 1 .. Len(log)
<1>1. Len(log) \in Nat
  BY DEF ConsumerTypeOK
<1>2. Resume \in 0 .. Len(log)
  BY <1>1 DEF ConsumerTypeOK, Resume
<1> QED
  BY <1>2 DEF Reposition, ConsumerTypeOK

LEMMA StepConsumerTypeOK == ConsumerTypeOK /\ ConsumerStep => ConsumerTypeOK'
<1> SUFFICES ASSUME ConsumerTypeOK, ConsumerStep PROVE ConsumerTypeOK'
  OBVIOUS
<1> USE BatchConsumerAssumption, BatchKept, BatchInLog DEF ConsumerTypeOK, ConsumerPC
<1>1. ASSUME NEW kind \in Kinds, Produce(kind) PROVE ConsumerTypeOK'
  <2>1. log' \in Seq(Kinds) /\ Len(log') = Len(log) + 1
    BY <1>1 DEF Produce
  <2>2. 1 .. Len(log) \subseteq 1 .. Len(log')
    BY <2>1
  <2>3. batch' \in Seq(1 .. Len(log'))
    BY <1>1, <2>2 DEF Produce
  <2> QED
    BY <1>1, <2>1, <2>2, <2>3 DEF Produce
<1>2. CASE Rebalance
  <2>1. cancelled' \in BOOLEAN
    BY <1>2, Zenon DEF Rebalance
  <2>2. /\ UNCHANGED <<log, committed, batch, pc, failed, handled>>
        /\ upsets' = upsets + 1 /\ Reposition
    BY <1>2 DEF Rebalance
  <2>3. position' \in 0 .. Len(log) /\ skipped' \subseteq 1 .. Len(log)
    BY <2>2, ResumeInLog
  <2> QED
    BY <2>1, <2>2, <2>3
<1>3. CASE StartConsumer
  <2>1. cancelled' \in BOOLEAN
    BY <1>3, Zenon DEF StartConsumer
  <2> QED
    BY <1>3, <2>1, ResumeInLog DEF StartConsumer
<1>4. CASE Stop
  BY <1>4 DEF Stop
<1>5. CASE Fetch
  <2>1. position + 1 \in 1 .. Len(log) /\ Len(batch) < BatchSize
    BY <1>5 DEF Fetch, Full
  <2>2. batch' \in Seq(1 .. Len(log)) /\ Len(batch') = Len(batch) + 1
    BY <1>5, <2>1 DEF Fetch
  <2>3. /\ position' = position + 1
        /\ UNCHANGED <<log, committed, pc, failed, handled, skipped, upsets>>
    BY <1>5 DEF Fetch
  <2>4. cancelled' \in BOOLEAN
    BY <1>5, Zenon DEF Fetch
  <2>5. position' \in 0 .. Len(log)
    BY <2>1, <2>3
  <2> QED
    BY <2>1, <2>2, <2>3, <2>4, <2>5
<1>6. CASE Commit
  <2>1. committed' \in 1 .. Len(log)
    BY <1>6 DEF Commit
  <2>2. FinishBatch
    BY <1>6 DEF Commit
  <2>3. cancelled' \in BOOLEAN
    BY <2>2, Zenon DEF FinishBatch
  <2>4. /\ batch' = << >> /\ failed' = {} /\ pc' = "loop"
        /\ UNCHANGED <<log, position, handled, skipped, upsets>>
    BY <2>2 DEF FinishBatch
  <2>5. batch' \in Seq(1 .. Len(log')) /\ Len(batch') <= BatchSize
    BY <2>4
  <2>6. committed' \in Int /\ -1 <= committed' /\ committed' <= Len(log')
    BY <2>1, <2>4
  <2> QED
    BY <2>3, <2>4, <2>5, <2>6
<1>7. CASE CommitFails \/ DlqRejected
  <2>1. FinishBatch /\ UNCHANGED committed
    BY <1>7, Zenon DEF CommitFails, DlqRejected
  <2>2. cancelled' \in BOOLEAN
    BY <2>1, Zenon DEF FinishBatch
  <2> QED
    BY <2>1, <2>2 DEF FinishBatch
<1>8. CASE ExitDone
  <2>1. cancelled' \in BOOLEAN
    BY <1>8, Zenon DEF ExitDone
  <2> QED
    BY <1>8, <2>1 DEF ExitDone
<1>9. CASE ExitCanceled
  <2>1. cancelled' \in BOOLEAN
    BY <1>9, Zenon DEF ExitCanceled
  <2> QED
    BY <1>9, <2>1 DEF ExitCanceled
<1>10. CASE EndProcess
  <2>1. cancelled' \in BOOLEAN
    BY <1>10, Zenon DEF EndProcess
  <2> QED
    BY <1>10, <2>1 DEF EndProcess
<1>11. CASE Handles
  BY <1>11 DEF Handles, HandleBatch
<1>12. CASE DlqAccepted
  BY <1>12 DEF DlqAccepted
<1>13. CASE UNCHANGED consumerVars
  BY <1>13
<1> QED
  BY <1>1, <1>2, <1>3, <1>4, <1>5, <1>6, <1>7, <1>8, <1>9, <1>10, <1>11, <1>12,
     <1>13, Zenon
     DEF ConsumerStep, DeadLettersDone

\* Offsets of the log stay offsets of the log.
LEMMA LogGrows == ConsumerTypeOK /\ ConsumerStep => 1 .. Len(log) \subseteq 1 .. Len(log')
<1> SUFFICES ASSUME ConsumerTypeOK, ConsumerStep PROVE 1 .. Len(log) \subseteq 1 .. Len(log')
  OBVIOUS
<1>1. Len(log) \in Nat
  BY DEF ConsumerTypeOK
<1>2. ASSUME NEW kind \in Kinds, Produce(kind) PROVE Len(log') = Len(log) + 1
  BY <1>2 DEF Produce, ConsumerTypeOK
<1>3. log' = log \/ \E kind \in Kinds : Produce(kind)
  BY DEF ConsumerStep, Rebalance, StartConsumer, Stop, Fetch, Handles, HandleBatch,
     DeadLettersDone, DlqAccepted, DlqRejected, FinishBatch, Commit, CommitFails, ExitDone,
     ExitCanceled, EndProcess
<1> QED
  BY <1>1, <1>2, <1>3

\* What has been handled or skipped stays so.
LEMMA GhostsGrow == ConsumerStep => handled \subseteq handled' /\ skipped \subseteq skipped'
  BY DEF ConsumerStep, Produce, Rebalance, Reposition, StartConsumer, Stop, Fetch, Handles,
     HandleBatch, DeadLettersDone, DlqAccepted, DlqRejected, FinishBatch, Commit, CommitFails,
     ExitDone, ExitCanceled, EndProcess

-----------------------------------------------------------------------------
(***************************************************************************)
(* Coverage.  S is what has happened to the messages the loop is done      *)
(* with; it only grows.  Everything below the group's offset, the reader's *)
(* offset and each offset of the batch is in S or still in the batch, and  *)
(* when the batch is about to be committed it is in S itself.              *)
(***************************************************************************)
Covers(S) ==
    /\ \A k \in 1 .. committed : k \in S
    /\ pc \in {"loop", "dlq", "commit"} => \A k \in 1 .. position : k \in S \cup InBatch
    /\ \A j \in InBatch : \A k \in 1 .. j : k \in S \cup InBatch
    /\ pc = "commit" => InBatch \subseteq S
    /\ pc = "dlq" => InBatch \subseteq S \cup failed

LEMMA CoversNothing == ConsumerInit => \A S : Covers(S)
  BY DEF ConsumerInit, Covers, InBatch

\* Nothing the loop keeps changes, or it stops and lets the batch go.
LEMMA CoversIdle ==
    ASSUME NEW S, NEW T, S \subseteq T, Covers(S),
           committed' = committed,
           \/ UNCHANGED <<position, batch, pc, failed>>
           \/ pc' \in {"off", "exited"} /\ (batch' = batch \/ batch' = <<>>)
    PROVE  Covers(T)'
<1>1. CASE UNCHANGED <<position, batch, pc, failed>>
  BY <1>1, BatchKept DEF Covers
<1>2. CASE pc' \in {"off", "exited"} /\ (batch' = batch \/ batch' = <<>>)
  <2>1. InBatch' = InBatch \/ InBatch' = {}
    BY <1>2, BatchKept, BatchEmptied
  <2>2. /\ pc' \notin {"loop", "dlq", "commit"}
        /\ \A k \in 1 .. committed' : k \in T
    BY <1>2 DEF Covers
  <2>3. \A j \in InBatch' : \A k \in 1 .. j : k \in T \cup InBatch'
    BY <2>1 DEF Covers
  <2> QED
    BY <2>2, <2>3 DEF Covers
<1> QED
  BY <1>1, <1>2

LEMMA CoversReposition ==
    ASSUME ConsumerTypeOK, NEW S, NEW T, S \subseteq T, Covers(S),
           Reposition, skipped' \subseteq T,
           UNCHANGED <<log, committed, batch, failed>>,
           pc' \in {pc, "loop"}
    PROVE  Covers(T)'
<1>1. InBatch' = InBatch
  BY BatchKept
<1>2. \A k \in 1 .. position' : k \in T
  BY DEF Covers, Reposition, Resume, ConsumerTypeOK
<1> QED
  BY <1>1, <1>2 DEF Covers

LEMMA CoversFetch ==
    ASSUME ConsumerTypeOK, NEW S, NEW T, S \subseteq T, Covers(S), Fetch
    PROVE  Covers(T)'
<1>1. InBatch' = InBatch \cup {position + 1}
  BY BatchAppended DEF Fetch
<1>2. position \in Nat /\ position' = position + 1
  BY DEF Fetch, ConsumerTypeOK
<1>3. \A k \in 1 .. position + 1 : k \in T \cup InBatch'
  BY <1>1, <1>2 DEF Covers, Fetch
<1> QED
  BY <1>1, <1>2, <1>3 DEF Covers, Fetch

\* What the handler gives back waits for the dead letter handler, if there is
\* one; the rest is in T.
LEMMA CoversHandle ==
    ASSUME NEW S, NEW T, S \subseteq T, Covers(S), Handles,
           InBatch \subseteq T \cup failed', HasDlq \/ InBatch \subseteq T
    PROVE  Covers(T)'
<1>1. PICK F \in SUBSET InBatch : HandleBatch(F)
  BY DEF Handles
<1>2. InBatch' = InBatch
  BY <1>1, BatchKept DEF HandleBatch
<1>3. /\ failed' = F /\ pc = "loop"
      /\ pc' = (IF F # {} /\ HasDlq THEN "dlq" ELSE "commit")
      /\ UNCHANGED <<committed, position>>
  BY <1>1 DEF HandleBatch
<1>4. pc' = "commit" => InBatch \subseteq T
  BY <1>3
<1> QED
  BY <1>2, <1>3, <1>4 DEF Covers

LEMMA CoversDlq ==
    ASSUME NEW S, NEW T, S \subseteq T, Covers(S), DeadLettersDone, InBatch \subseteq T
    PROVE  Covers(T)'
<1>1. CASE DlqAccepted
  BY <1>1, BatchKept DEF Covers, DlqAccepted
<1>2. CASE DlqRejected
  <2>1. InBatch' = {}
    BY <1>2, BatchEmptied DEF DlqRejected, FinishBatch
  <2> QED
    BY <1>2, <2>1 DEF Covers, DlqRejected, FinishBatch
<1> QED
  BY <1>1, <1>2 DEF DeadLettersDone

LEMMA CoversCommit ==
    ASSUME NEW S, NEW T, S \subseteq T, Covers(S), Commit \/ CommitFails
    PROVE  Covers(T)'
<1>1. InBatch' = {} /\ position' = position /\ pc = "commit"
  BY BatchEmptied DEF Commit, CommitFails, FinishBatch
<1>2. \A k \in 1 .. position : k \in T
  BY <1>1 DEF Covers
<1>3. \A k \in 1 .. committed' : k \in T
  BY DEF Covers, Commit, CommitFails
<1> QED
  BY <1>1, <1>2, <1>3 DEF Covers

\* Every step keeps the coverage, provided that the handlers do their part:
\* what the batch handler does not give back is in T, and so is the whole
\* batch once the dead letter handler is done, or if there is none.
LEMMA CoversStep ==
    ASSUME ConsumerTypeOK, ConsumerStep,
           NEW S, NEW T, S \subseteq T, skipped' \subseteq T, Covers(S),
           Handles => InBatch \subseteq T \cup failed' /\ (HasDlq \/ InBatch \subseteq T),
           DeadLettersDone => InBatch \subseteq T
    PROVE  Covers(T)'
<1>1. ASSUME NEW kind \in Kinds, Produce(kind) PROVE Covers(T)'
  BY <1>1, CoversIdle DEF Produce
<1>2. CASE Rebalance
  BY <1>2, CoversReposition DEF Rebalance
<1>3. CASE StartConsumer
  BY <1>3, CoversReposition DEF StartConsumer
<1>4. CASE Stop \/ ExitDone \/ ExitCanceled \/ EndProcess \/ UNCHANGED consumerVars
  BY <1>4, CoversIdle DEF Stop, ExitDone, ExitCanceled, EndProcess
<1>5. CASE Fetch
  BY <1>5, CoversFetch
<1>6. CASE Handles
  BY <1>6, CoversHandle
<1>7. CASE DeadLettersDone
  BY <1>7, CoversDlq
<1>8. CASE Commit \/ CommitFails
  BY <1>8, CoversCommit
<1> QED
  BY <1>1, <1>2, <1>3, <1>4, <1>5, <1>6, <1>7, <1>8 DEF ConsumerStep

-----------------------------------------------------------------------------
(***************************************************************************)
(* The loop as its manager sees it: the consumer that ConsumerLife         *)
(* describes and ModuleServer's managers start and stop.                   *)
(***************************************************************************)
\* ConsumerLife's consumer and told.
lifeBar ==
    CASE pc = "off" -> "none"
      [] pc = "loop" -> "fetch"
      [] pc \in {"dlq", "commit"} -> "handle"
      [] OTHER -> "ended"

toldBar == cancelled /\ pc # "off"

Life == INSTANCE ConsumerLife WITH consumer <- lifeBar, told <- toldBar

LEMMA InitLife == ConsumerInit => Life!LifeInit
  BY DEF ConsumerInit, Life!LifeInit, lifeBar, toldBar

\* A batch is one Take and one Finish, whatever the dead letter handler does
\* between them; a rebalance, a message and a fetch are not seen.
LEMMA StepLife == ConsumerTypeOK /\ ConsumerStep => [Life!LifeNext]_<<lifeBar, toldBar>>
<1> SUFFICES ASSUME ConsumerTypeOK, ConsumerStep
             PROVE  [Life!LifeNext]_<<lifeBar, toldBar>>
  OBVIOUS
<1> USE DEF lifeBar, toldBar
<1>1. CASE UNCHANGED <<pc, cancelled>>
  BY <1>1
<1>2. CASE (\E kind \in Kinds : Produce(kind)) \/ Rebalance \/ Fetch \/ UNCHANGED consumerVars
  BY <1>1, <1>2 DEF Produce, Rebalance, Fetch
<1>3. CASE StartConsumer
  BY <1>3 DEF StartConsumer, Life!LifeNext, Life!Run, Life!Move
<1>4. CASE Stop
  BY <1>4 DEF Stop, Life!LifeNext, Life!BeTold
<1>5. CASE Handles
  BY <1>5 DEF Handles, HandleBatch, Life!LifeNext, Life!Take, Life!Move
<1>6. CASE DlqAccepted
  BY <1>6 DEF DlqAccepted
<1>7. CASE DlqRejected \/ Commit \/ CommitFails
  BY <1>7 DEF DlqRejected, Commit, CommitFails, FinishBatch, Life!LifeNext, Life!Finish,
     Life!Move
<1>8. CASE ExitDone \/ ExitCanceled
  BY <1>8 DEF ExitDone, ExitCanceled, Life!LifeNext, Life!Return, Life!Move
<1>9. CASE EndProcess
  BY <1>9 DEF EndProcess, Life!LifeNext, Life!Die
<1> QED
  BY <1>2, <1>3, <1>4, <1>5, <1>6, <1>7, <1>8, <1>9, Zenon DEF ConsumerStep, DeadLettersDone
=============================================================================
