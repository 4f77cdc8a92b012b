------------------------- MODULE ChatMessagesProofs -------------------------
(***************************************************************************)
(* Proofs about ChatMessages: its type invariant, that a commit covers     *)
(* only messages that were handled and that are accounted for, that a      *)
(* message read is not forgotten, and that the consumer lives as           *)
(* ConsumerLife says.                                                      *)
(***************************************************************************)
EXTENDS ChatMessages, BatchConsumerProofs

USE DEF consumerVars, loopVars, storeVars, vars

-----------------------------------------------------------------------------
(***************************************************************************)
(* Every step is one of BatchConsumer's, and what the handlers do is what  *)
(* ChatMessages makes of them.                                             *)
(***************************************************************************)
\* Next spelled out, one disjunct per action of the loop and its handlers.
LEMMA NextCases ==
    ASSUME [Next]_vars
    PROVE  \/ \E kind \in Kinds : Produce(kind) /\ UNCHANGED storeVars
           \/ Rebalance /\ UNCHANGED storeVars
           \/ StartConsumer /\ UNCHANGED storeVars
           \/ Stop /\ UNCHANGED storeVars
           \/ Fetch /\ UNCHANGED storeVars
           \/ Commit /\ UNCHANGED storeVars
           \/ CommitFails /\ UNCHANGED storeVars
           \/ ExitDone /\ UNCHANGED storeVars
           \/ ExitCanceled /\ UNCHANGED storeVars
           \/ BulkInsert
           \/ BulkInsertFatal
           \/ PublishDeadLetters
           \/ PublishRejected
           \/ \E k \in 1 .. Len(log) : AsyncWrite(k)
           \/ End
           \/ UNCHANGED vars
  BY Zenon DEF Next, Broker, Process, Loop, Handler, DeadLetters

LEMMA NextSteps ==
    ASSUME TypeOK, [Next]_vars
    PROVE  /\ ConsumerStep
           /\ Handles => Handler
           /\ DeadLettersDone => DeadLetters
<1>1. Handler => Handles
  <2> SUFFICES ASSUME Handler PROVE Handles
    OBVIOUS
  <2>1. PICK F : HandleBatch(F)
    BY DEF Handler, BulkInsert, BulkInsertFatal
  <2>2. F \in SUBSET InBatch
    BY <2>1 DEF HandleBatch
  <2> QED
    BY <2>1, <2>2 DEF Handles
<1>2. ConsumerStep
  BY <1>1, NextCases, Zenon DEF ConsumerStep, DeadLettersDone, Handler, PublishDeadLetters,
     PublishRejected, AsyncWrite, End
<1>3. Handles => Handler
  <2> SUFFICES ASSUME Handles, ~Handler PROVE FALSE
    OBVIOUS
  <2>1. pc = "loop" /\ pc' \in {"dlq", "commit"}
    BY DEF Handles, HandleBatch
  <2> QED
    BY <2>1, NextCases DEF Handler, Produce, Rebalance, StartConsumer, Stop, Fetch, Commit,
       CommitFails, FinishBatch, ExitDone, ExitCanceled, PublishDeadLetters, PublishRejected,
       DlqAccepted, DlqRejected, AsyncWrite, End, EndProcess
<1>4. DeadLettersDone => DeadLetters
  <2> SUFFICES ASSUME DeadLettersDone, ~DeadLetters PROVE FALSE
    OBVIOUS
  <2>1. pc = "dlq" /\ pc' \in {"loop", "commit"}
    BY DEF DeadLettersDone, DlqAccepted, DlqRejected, FinishBatch
  <2> QED
    BY <2>1, NextCases DEF DeadLetters, Produce, Rebalance, StartConsumer, Stop, Fetch, Commit,
       CommitFails, ExitDone, ExitCanceled, BulkInsert, BulkInsertFatal, HandleBatch,
       AsyncWrite, End, EndProcess
<1> QED
  BY <1>2, <1>3, <1>4

-----------------------------------------------------------------------------
(***************************************************************************)
(* ChatMessages keeps its types, its batch within BatchSize and the        *)
(* group's offset within the log.                                          *)
(***************************************************************************)
LEMMA InitTypeOK == Init => TypeOK
  BY InitConsumerTypeOK DEF Init, TypeOK

LEMMA NextTypeOK == TypeOK /\ [Next]_vars => TypeOK'
<1> SUFFICES ASSUME TypeOK, [Next]_vars PROVE TypeOK'
  OBVIOUS
<1>1. ConsumerTypeOK'
  BY NextSteps, StepConsumerTypeOK DEF TypeOK
<1>2. 1 .. Len(log) \subseteq 1 .. Len(log')
  BY NextSteps, LogGrows DEF TypeOK
<1>3. InBatch \subseteq 1 .. Len(log) /\ failed \subseteq 1 .. Len(log)
  BY BatchInLog DEF TypeOK, ConsumerTypeOK
<1>4. stored' \cup inflight' \cup dead' \cup dropped' \subseteq 1 .. Len(log)
  <2>1. CASE UNCHANGED storeVars
    BY <2>1 DEF TypeOK
  <2>2. CASE BulkInsert
    BY <2>2, <1>3 DEF BulkInsert, Good, TypeOK
  <2>3. CASE BulkInsertFatal
    <3>1. PICK written \in SUBSET (Good \ stored) :
            stored' = stored \cup written /\ dropped' = dropped \cup (Good \ stored')
      BY <2>3 DEF BulkInsertFatal
    <3> QED
      BY <2>3, <3>1, <1>3 DEF BulkInsertFatal, Good, TypeOK
  <2>4. CASE PublishDeadLetters \/ PublishRejected
    BY <2>4, <1>3 DEF PublishDeadLetters, PublishRejected, TypeOK
  <2>5. ASSUME NEW k \in 1 .. Len(log), AsyncWrite(k)
        PROVE  stored' \cup inflight' \cup dead' \cup dropped' \subseteq 1 .. Len(log)
    BY <2>5 DEF AsyncWrite, TypeOK
  <2>6. CASE End
    BY <2>6 DEF End, TypeOK
  <2> QED
    BY <2>1, <2>2, <2>3, <2>4, <2>5, <2>6, NextCases
<1> QED
  BY <1>1, <1>2, <1>4 DEF TypeOK

THEOREM ChatTypeCorrect == Spec => []TypeOK
  BY InitTypeOK, NextTypeOK, PTL DEF Spec

-----------------------------------------------------------------------------
(***************************************************************************)
(* The group's offset covers only messages that were handed to the batch   *)
(* handler or passed over by StartOffset: whatever crashes, rebalances,    *)
(* failed dead letters and failed commits come between.                    *)
(***************************************************************************)
Given == handled \cup skipped

HandledInv ==
    /\ TypeOK
    /\ Covers(Given)
    /\ pc = "dlq" => InBatch \subseteq handled

LEMMA InitHandled == Init => HandledInv
<1>1. Init => Covers(Given) /\ pc = "off"
  BY CoversNothing DEF Init, ConsumerInit
<1> QED
  BY <1>1, InitTypeOK DEF HandledInv

LEMMA NextHandled == HandledInv /\ [Next]_vars => HandledInv'
<1> SUFFICES ASSUME HandledInv, [Next]_vars
             PROVE  Covers(Given)' /\ (pc' = "dlq" => InBatch' \subseteq handled')
  BY NextTypeOK DEF HandledInv
<1> USE DEF HandledInv
<1>1. handled \subseteq handled' /\ skipped \subseteq skipped'
  BY NextSteps, GhostsGrow
<1>2. Handler => InBatch \subseteq handled'
  BY DEF Handler, BulkInsert, BulkInsertFatal, HandleBatch
<1>3. DeadLetters => InBatch \subseteq handled
  BY DEF DeadLetters, PublishDeadLetters, PublishRejected, DlqAccepted, DlqRejected
<1>4. Covers(Given)'
  <2>1. Given \subseteq Given' /\ skipped' \subseteq Given'
    BY <1>1 DEF Given
  <2>2. Handles => InBatch \subseteq Given'
    BY <1>2, NextSteps DEF Given
  <2>3. DeadLettersDone => InBatch \subseteq Given'
    BY <1>3, <2>1, NextSteps DEF Given
  <2>4. ConsumerTypeOK /\ ConsumerStep
    BY NextSteps DEF TypeOK
  <2> QED
    BY <2>1, <2>2, <2>3, <2>4, ChatMessagesAssumption, CoversStep DEF Covers
<1>5. pc' = "dlq" => InBatch' \subseteq handled'
  <2> SUFFICES ASSUME pc' = "dlq" PROVE InBatch' \subseteq handled'
    OBVIOUS
  <2>1. (batch' = batch /\ pc = "dlq") \/ Handler
    BY NextCases DEF Handler, Produce, Rebalance, StartConsumer, Stop, Fetch, Commit,
       CommitFails, FinishBatch, ExitDone, ExitCanceled, PublishDeadLetters, PublishRejected,
       DlqAccepted, DlqRejected, AsyncWrite, End, EndProcess
  <2>2. Handler => batch' = batch
    BY DEF Handler, BulkInsert, BulkInsertFatal, HandleBatch
  <2> QED
    BY <1>1, <1>2, <2>1, <2>2, BatchKept
<1> QED
  BY <1>4, <1>5

THEOREM CommitCoversHandledCorrect == Spec => []CommitCoversHandled
<1>1. HandledInv => CommitCoversHandled
  BY DEF HandledInv, Covers, Given, CommitCoversHandled
<1> QED
  BY <1>1, InitHandled, NextHandled, PTL DEF Spec

-----------------------------------------------------------------------------
(***************************************************************************)
(* Every message the group's offset covers is stored, dead-lettered, on    *)
(* its way to the dead letter topic, or was dropped at one of the places   *)
(* where the code drops messages, or passed over by StartOffset.           *)
(***************************************************************************)
Accounted == stored \cup dead \cup inflight \cup dropped \cup skipped

AccountedInv == TypeOK /\ Covers(Accounted)

LEMMA InitAccounted == Init => AccountedInv
<1>1. Init => Covers(Accounted)
  BY CoversNothing DEF Init
<1> QED
  BY <1>1, InitTypeOK DEF AccountedInv

\* What the batch handler is given is stored, dropped or given back.
LEMMA HandlerAccounts ==
    ASSUME Handler
    PROVE  InBatch \subseteq Accounted' \cup failed'
<1>1. InBatch = Good \cup Bad
  BY DEF Good, Bad
<1>2. CASE BulkInsert
  BY <1>1, <1>2 DEF BulkInsert, HandleBatch, GiveBack, Accounted
<1>3. CASE BulkInsertFatal
  BY <1>1, <1>3 DEF BulkInsertFatal, HandleBatch, Accounted
<1> QED
  BY <1>2, <1>3 DEF Handler

LEMMA NextAccounted == AccountedInv /\ [Next]_vars => AccountedInv'
<1> SUFFICES ASSUME AccountedInv, [Next]_vars PROVE Covers(Accounted)'
  BY NextTypeOK DEF AccountedInv
<1> USE DEF AccountedInv
<1>1. Accounted \subseteq Accounted' /\ skipped' \subseteq Accounted'
  <2>1. skipped \subseteq skipped'
    BY NextSteps, GhostsGrow DEF TypeOK
  <2>2. stored \cup dead \cup inflight \cup dropped
          \subseteq (stored \cup dead \cup inflight \cup dropped)'
    BY NextCases DEF AsyncWrite, End, BulkInsert, BulkInsertFatal, PublishDeadLetters,
       PublishRejected
  <2> QED
    BY <2>1, <2>2 DEF Accounted
<1>2. DeadLetters => InBatch \subseteq Accounted'
  <2>1. DeadLetters => InBatch \subseteq Accounted \cup failed
    BY DEF Covers, DeadLetters, PublishDeadLetters, PublishRejected, DlqAccepted, DlqRejected
  <2>2. DeadLetters => failed \subseteq Accounted'
    BY DEF DeadLetters, PublishDeadLetters, PublishRejected, Accounted
  <2> QED
    BY <1>1, <2>1, <2>2
<1> QED
  BY <1>1, <1>2, HandlerAccounts, NextSteps, ChatMessagesAssumption, CoversStep
     DEF Covers, TypeOK

THEOREM NothingElseLostCorrect == Spec => []NothingElseLost
<1>1. AccountedInv => NothingElseLost
  BY DEF AccountedInv, Covers, Accounted, NothingElseLost
<1> QED
  BY <1>1, InitAccounted, NextAccounted, PTL DEF Spec

-----------------------------------------------------------------------------
(***************************************************************************)
(* The safety half of EventuallyHandled, which needs no commit: while the  *)
(* loop runs, whatever its reader has passed is in the batch still, or was *)
(* both handed to the batch handler (or passed over by StartOffset) and is *)
(* accounted for.  A dropped batch after a failed dead letter or a failed  *)
(* commit, and a rebalance under a batch, leave no message behind that the *)
(* loop would neither read again nor has dealt with.                       *)
(***************************************************************************)
ReadIsDealtWith ==
    pc \in {"loop", "dlq", "commit"} =>
        \A k \in 1 .. position : k \in InBatch \/ (k \in Given /\ k \in Accounted)

THEOREM ReadIsDealtWithCorrect == Spec => []ReadIsDealtWith
<1>1. HandledInv /\ AccountedInv => ReadIsDealtWith
  BY DEF HandledInv, AccountedInv, Covers, ReadIsDealtWith
<1> QED
  BY <1>1, InitHandled, NextHandled, InitAccounted, NextAccounted, PTL DEF Spec

\* The chat module's loop is the consumer its manager starts and stops: it ends
\* only when it was told to, and between two batches.
THEOREM ChatConsumerLives == Spec => Life!LifeSpec
<1>1. Life!LifeSpec <=> Life!LifeInit /\ [][Life!LifeNext]_<<lifeBar, toldBar>>
  BY DEF Life!LifeSpec
<1>2. Init => Life!LifeInit
  BY InitLife DEF Init
<1>3. TypeOK /\ [Next]_vars => [Life!LifeNext]_<<lifeBar, toldBar>>
  BY NextSteps, StepLife DEF TypeOK
<1> QED
  BY <1>1, <1>2, <1>3, InitTypeOK, NextTypeOK, PTL DEF Spec
=============================================================================
