---------------------------- MODULE ChatMessages ----------------------------
(***************************************************************************)
(* The chat module's consumer of channel-message.add: BatchConsumer with   *)
(* the bulk insert of MakeChannelMessagesHandler and the dead letter       *)
(* producer of MakeChannelMessagesDLQ.                                     *)
(*                                                                         *)
(* A message's trace id is its MongoDB _id, so an offset names a document. *)
(***************************************************************************)
EXTENDS BatchConsumer

ASSUME ChatMessagesAssumption == Kinds = {"good", "bad"} /\ HasDlq

VARIABLES
    stored,    \* offsets whose document is in channel_messages
    inflight,  \* offsets the asynchronous producer has accepted
    dead,      \* offsets in the topic dlq.channel-message.add
    dropped    \* ghost: offsets dropped where the code drops messages

storeVars == <<stored, inflight, dead, dropped>>
vars == <<consumerVars, storeVars>>

TypeOK ==
    /\ ConsumerTypeOK
    /\ stored \subseteq 1 .. Len(log)
    /\ inflight \subseteq 1 .. Len(log)
    /\ dead \subseteq 1 .. Len(log)
    /\ dropped \subseteq 1 .. Len(log)

Init ==
    /\ ConsumerInit
    /\ stored = {}
    /\ inflight = {}
    /\ dead = {}
    /\ dropped = {}

-----------------------------------------------------------------------------
(***************************************************************************)
(* MakeChannelMessagesHandler and CreateChannelMessagesBulk.               *)
(***************************************************************************)
\* Messages that do not parse, or that lack a required field.
Bad == {k \in InBatch : log[k] = "bad"}

Good == InBatch \ Bad

\* Offsets that are in the batch twice: the second insert is a duplicate.
Repeated == {k \in InBatch : \E i, j \in DOMAIN batch : i # j /\ batch[i] = k /\ batch[j] = k}

\* Mutant: what fails to be written is not given back.
GiveBackBad(unwritten) == Bad

\* failedMsgIndices of a bulk write: bad messages, write errors, duplicate keys.
GiveBack(unwritten) ==
    Bad \cup unwritten \cup (Good \cap stored) \cup (Repeated \ Bad)

\* InsertMany, unordered: each new document is written or fails by itself.
BulkInsert ==
    \E unwritten \in SUBSET (Good \ stored) :
        /\ stored' = stored \cup (Good \ unwritten)
        /\ HandleBatch(GiveBack(unwritten))
        /\ UNCHANGED <<inflight, dead, dropped>>

\* InsertMany fails as a whole, after writing any part of the batch: only the
\* bad messages are given back.
BulkInsertFatal ==
    /\ Good # {}
    /\ \E written \in SUBSET (Good \ stored) :
        /\ stored' = stored \cup written
        /\ dropped' = dropped \cup (Good \ stored')
    /\ HandleBatch(Bad)
    /\ UNCHANGED <<inflight, dead>>

-----------------------------------------------------------------------------
(***************************************************************************)
(* MakeChannelMessagesDLQ.  The producer is asynchronous: WriteMessages    *)
(* fails only while it looks up the topic's partitions.                    *)
(***************************************************************************)
PublishDeadLetters ==
    /\ DlqAccepted
    /\ inflight' = inflight \cup failed
    /\ UNCHANGED <<stored, dead, dropped>>

PublishRejected ==
    /\ DlqRejected
    /\ dropped' = dropped \cup failed
    /\ UNCHANGED <<stored, inflight, dead>>

\* The producer's background writer, which gives up after MaxAttempts.
AsyncWrite(k) ==
    /\ k \in inflight
    /\ inflight' = inflight \ {k}
    /\ \/ dead' = dead \cup {k} /\ UNCHANGED dropped
       \/ dropped' = dropped \cup {k} /\ UNCHANGED dead
    /\ UNCHANGED <<consumerVars, stored>>

\* Nobody closes the producer: what it has not written is gone.
End ==
    /\ EndProcess
    /\ inflight' = {}
    /\ dropped' = dropped \cup inflight
    /\ UNCHANGED <<stored, dead>>

-----------------------------------------------------------------------------
Broker == (\E kind \in Kinds : Produce(kind)) \/ Rebalance

Process == StartConsumer \/ Stop

Loop == Fetch \/ Commit \/ CommitFails \/ ExitDone \/ ExitCanceled

Handler == BulkInsert \/ BulkInsertFatal

DeadLetters == PublishDeadLetters \/ PublishRejected

Next ==
    \/ (Broker \/ Process \/ Loop) /\ UNCHANGED storeVars
    \/ Handler \/ DeadLetters
    \/ \E k \in 1 .. Len(log) : AsyncWrite(k)
    \/ End

(***************************************************************************)
(* The loop's goroutine runs, the broker delivers and the timer fires.     *)
(* Nothing restarts the process, stops it or makes producers produce.      *)
(***************************************************************************)
Fairness ==
    WF_vars((Loop /\ UNCHANGED storeVars) \/ Handler \/ DeadLetters)

Spec == Init /\ [][Next]_vars /\ Fairness

-----------------------------------------------------------------------------
(***************************************************************************)
(* The commit is cumulative, so it covers messages of earlier batches, of  *)
(* earlier processes and from before a rebalance, and can move backwards:  *)
(* it never covers a message the batch handler has not been given.         *)
(***************************************************************************)
CommitCoversHandled == \A k \in 1 .. committed : k \in handled \cup skipped

(***************************************************************************)
(* Every message the group is done with is stored, in the dead letter      *)
(* topic or on its way there, or was dropped in one of the known ways: a   *)
(* fatal insert, a rejected or failed dead letter, StartOffset.            *)
(***************************************************************************)
NothingElseLost ==
    \A k \in 1 .. committed : k \in stored \cup dead \cup inflight \cup dropped \cup skipped

(***************************************************************************)
(* As long as the consumer runs and is not cancelled, a message in the     *)
(* topic is handed to the batch handler, if only by the timer.             *)
(***************************************************************************)
EventuallyHandled ==
    \A k \in 1 .. MaxLog :
        (k <= Len(log) /\ pc # "off") ~> (k \in handled \cup skipped \/ cancelled \/ pc = "off")

(***************************************************************************)
(* "no auto commit; if issue then in dlq then commit": a message the group *)
(* is done with is stored or was handed to the dead letter producer.       *)
(***************************************************************************)
DeadLetteredBeforeCommit ==
    \A k \in 1 .. committed : k \in stored \cup dead \cup inflight \cup skipped
=============================================================================
