---------------------------- MODULE BatchConsumer ----------------------------
(***************************************************************************)
(* Consumer.runBatchManualCommit of base/infrastructure/kafka: fetch,      *)
(* collect a batch, hand it to the batch handler, hand what the handler    *)
(* gives back to the dead letter handler, commit.  One consumer and one    *)
(* partition, which kafka-go's reader serves from the group's committed    *)
(* offset.                                                                 *)
(*                                                                         *)
(* An offset here counts messages: committed = n says that the group is    *)
(* done with log[1] .. log[n].  What the handlers do is left open: the     *)
(* modules that EXTEND this one conjoin it to the actions.                 *)
(***************************************************************************)
EXTENDS Integers, Sequences, FiniteSets

CONSTANTS
    Kinds,       \* what the handlers tell apart in a message
    BatchSize,   \* ConsumerConfig.BatchSize
    HasDlq,      \* whether there is a dlqHandler
    MaxLog,      \* bound: messages produced
    MaxUpsets    \* bound: ends of the process and rebalances together

ASSUME BatchConsumerAssumption ==
    /\ BatchSize \in Nat \ {0}
    /\ HasDlq \in BOOLEAN
    /\ MaxLog \in Nat
    /\ MaxUpsets \in Nat

VARIABLES
    log,        \* the partition
    committed,  \* the group's offset on the broker; -1 before its first commit
    position,   \* the reader's offset
    batch,      \* offsets of the messages in batch
    pc,         \* where runBatchManualCommit is
    cancelled,  \* ctx is cancelled
    failed,     \* dlq: offsets of the messages the batch handler gave back
    handled,    \* ghost: offsets that were handed to the batch handler
    skipped,    \* ghost: offsets passed over by StartOffset: LastOffset
    upsets      \* how many ends of the process and rebalances there were

loopVars == <<batch, pc, failed, handled>>
consumerVars ==
    <<log, committed, position, loopVars, cancelled, skipped, upsets>>

\* "off": no process; "exited": the loop returned, its process still runs.
ConsumerPC == {"off", "loop", "dlq", "commit", "exited"}

InBatch == {batch[j] : j \in DOMAIN batch}

ConsumerTypeOK ==
    /\ log \in Seq(Kinds)
    /\ committed \in Int /\ -1 <= committed /\ committed <= Len(log)
    /\ position \in 0 .. Len(log)
    /\ batch \in Seq(1 .. Len(log)) /\ Len(batch) <= BatchSize
    /\ pc \in ConsumerPC
    /\ cancelled \in BOOLEAN
    /\ failed \subseteq 1 .. Len(log)
    /\ handled \subseteq 1 .. Len(log)
    /\ skipped \subseteq 1 .. Len(log)
    /\ upsets \in Nat

\* A group that has committed before, or one that never has.
ConsumerInit ==
    /\ log = <<>>
    /\ committed \in {-1, 0}
    /\ position = 0
    /\ batch = <<>>
    /\ pc = "off"
    /\ cancelled = FALSE
    /\ failed = {}
    /\ handled = {}
    /\ skipped = {}
    /\ upsets = 0

-----------------------------------------------------------------------------
(***************************************************************************)
(* The broker and the process.                                             *)
(***************************************************************************)
\* A producer's message reaches the topic.
Produce(kind) ==
    /\ Len(log) < MaxLog
    /\ log' = Append(log, kind)
    /\ UNCHANGED <<committed, position, loopVars, cancelled, skipped, upsets>>

\* Mutant: the reader starts at the end whatever the group has committed.
ResumeAtEnd == Len(log)

\* Where a reader of the group starts: StartOffset is LastOffset, and counts
\* only as long as the group has committed nothing.
Resume == IF committed = -1 THEN Len(log) ELSE committed

Reposition ==
    /\ position' = Resume
    /\ skipped' = IF committed = -1 THEN skipped \cup 1 .. Len(log) ELSE skipped

\* NewConsumer and Start.
StartConsumer ==
    /\ pc = "off"
    /\ pc' = "loop"
    /\ cancelled' = FALSE
    /\ Reposition
    /\ UNCHANGED <<log, committed, batch, failed, handled, upsets>>

\* The group rebalances.  The reader goes back to the committed offset; the
\* batch the loop has collected stays.
Rebalance ==
    /\ pc \in {"loop", "dlq", "commit"}
    /\ upsets < MaxUpsets
    /\ upsets' = upsets + 1
    /\ Reposition
    /\ UNCHANGED <<log, committed, loopVars, cancelled>>

\* ConsumerManager.Stop cancels ctx.
Stop ==
    /\ pc \in {"loop", "dlq", "commit"}
    /\ ~cancelled
    /\ cancelled' = TRUE
    /\ UNCHANGED <<log, committed, position, loopVars, skipped, upsets>>

\* The process ends: after the loop has returned, or at any point before.
EndProcess ==
    /\ pc # "off"
    /\ upsets < MaxUpsets
    /\ upsets' = upsets + 1
    /\ pc' = "off"
    /\ batch' = <<>>
    /\ failed' = {}
    /\ UNCHANGED <<log, committed, position, cancelled, handled, skipped>>

-----------------------------------------------------------------------------
(***************************************************************************)
(* The loop.                                                               *)
(***************************************************************************)
\* Mutant: a full batch is seen one message late.
FullLate == Len(batch) > BatchSize

Full == Len(batch) >= BatchSize

\* FetchMessage returns a message: the loop's default branch, which it takes
\* as long as ctx is live.  A full batch is processed before the next fetch.
Fetch ==
    /\ pc = "loop" /\ ~cancelled
    /\ ~Full
    /\ position < Len(log)
    /\ position' = position + 1
    /\ batch' = Append(batch, position + 1)
    /\ UNCHANGED <<log, committed, pc, cancelled, failed, handled, skipped, upsets>>

\* Mutant: an incomplete batch waits for more messages.
DueWhenFull == Full

\* processAndCommit runs for a full batch, when the timer fires, and once
\* more when ctx is done.
Due == batch # <<>>

\* The batch handler returns F as dlq, with an error or without one: the
\* error is not looked at.
HandleBatch(F) ==
    /\ pc = "loop"
    /\ Due
    /\ F \subseteq InBatch
    /\ failed' = F
    /\ handled' = handled \cup InBatch
    /\ pc' = IF F # {} /\ HasDlq THEN "dlq" ELSE "commit"
    /\ UNCHANGED <<log, committed, position, batch, cancelled, skipped, upsets>>

\* The deferred reset of the batch and the timer.
FinishBatch ==
    /\ batch' = <<>>
    /\ failed' = {}
    /\ pc' = "loop"
    /\ UNCHANGED <<log, position, cancelled, handled, skipped, upsets>>

\* dlqHandler returns nil.
DlqAccepted ==
    /\ pc = "dlq"
    /\ pc' = "commit"
    /\ UNCHANGED <<log, committed, position, batch, cancelled, failed, handled, skipped, upsets>>

\* dlqHandler returns an error: nothing is committed and the batch is dropped.
DlqRejected ==
    /\ pc = "dlq"
    /\ FinishBatch
    /\ UNCHANGED committed

\* CommitMessages: of a partition's messages, the newest one's offset counts.
\* The broker takes an offset below the present one too, which a batch fetched
\* again after a rebalance can bring.
Commit ==
    /\ pc = "commit"
    /\ \E newest \in InBatch :
        /\ \A k \in InBatch : k <= newest
        /\ committed' = newest
    /\ FinishBatch

\* CommitMessages fails, as it may once ctx is cancelled.  Its error is lost.
CommitFails ==
    /\ pc = "commit"
    /\ FinishBatch
    /\ UNCHANGED committed

\* ctx is done: the loop returns after the last batch.
ExitDone ==
    /\ pc = "loop" /\ cancelled
    /\ batch = <<>>
    /\ pc' = "exited"
    /\ UNCHANGED <<log, committed, position, batch, cancelled, failed, handled, skipped, upsets>>

\* ctx is cancelled inside FetchMessage: the loop returns and the batch is gone.
ExitCanceled ==
    /\ pc = "loop" /\ cancelled
    /\ pc' = "exited"
    /\ batch' = <<>>
    /\ UNCHANGED <<log, committed, position, cancelled, failed, handled, skipped, upsets>>
=============================================================================
