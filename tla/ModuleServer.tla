---------------------------- MODULE ModuleServer ----------------------------
(***************************************************************************)
(* The life of a module server process: its start, the consumer managers   *)
(* and the Debezium connector it starts in the background, and its end by  *)
(* a signal.  Each manager has one consumer, a goroutine that starts it    *)
(* and one that waits for the signal and stops it; main waits for the      *)
(* signal too and waits for nobody.  What a consumer does with a batch is  *)
(* BatchConsumer's subject; here it runs, handles something or has ended.  *)
(***************************************************************************)
EXTENDS Integers, FiniteSets

CONSTANTS
    Managers,
    Hub,         \* the websocket hub's manager, whose goroutine recovers no panic
    Main,        \* main, as a receiver of signals
    MaxRetries,  \* SetupConnector's constants, the delays in seconds
    BaseDelay,
    MaxDelay,
    MaxSignals   \* bound: the signals sent to the process

ASSUME ModuleServerAssumption ==
    /\ Hub \in Managers /\ Main \notin Managers
    /\ MaxRetries \in Nat \ {0}
    /\ BaseDelay \in Nat \ {0, 1} /\ MaxDelay \in Nat \ {0, 1}
    /\ MaxSignals \in Nat

VARIABLES
    main,       \* where ModuleServer.Run is
    waiter,     \* the goroutine that waits for the signal and calls Stop
    starter,    \* the goroutine of Start
    consumer,   \* the manager's consumer
    cancelled,  \* managers whose context is cancelled
    pending,    \* receivers with a signal in their channel
    signals,    \* how many were sent
    overtaken,  \* ghost: managers whose Stop found no consumer to wait for
    cdc,        \* where SetupConnector is
    attempt,    \* its loop's i
    connector,  \* Kafka Connect has the connector
    dropped     \* ghost: somebody else has deleted it

managerVars == <<waiter, starter, consumer, cancelled, overtaken>>
signalVars == <<pending, signals>>
setupVars == <<cdc, attempt>>
connectVars == <<connector, dropped>>
vars == <<main, managerVars, signalVars, setupVars, connectVars>>

Receivers == Managers \cup {Main}

TypeOK ==
    /\ main \in {"init", "hub", "serving", "waiting", "shutdown", "off"}
    /\ waiter \in [Managers -> {"none", "setup", "notify", "wait", "stopping",
                                "stopped", "timeout", "panicked"}]
    /\ starter \in [Managers -> {"none", "start", "add", "done"}]
    /\ consumer \in [Managers -> {"none", "fetch", "handle", "ended"}]
    /\ cancelled \subseteq Managers
    /\ pending \subseteq Receivers
    /\ signals \in 0 .. MaxSignals
    /\ overtaken \subseteq Managers
    /\ cdc \in {"none", "exists", "create", "update", "backoff", "status",
                "synced", "failed", "panicked"}
    /\ attempt \in 0 .. MaxRetries - 1
    /\ connector \in BOOLEAN
    /\ dropped \in BOOLEAN

Init ==
    /\ main = "init"
    /\ waiter = [m \in Managers |-> "none"]
    /\ starter = [m \in Managers |-> "none"]
    /\ consumer = [m \in Managers |-> "none"]
    /\ cancelled = {}
    /\ pending = {}
    /\ signals = 0
    /\ overtaken = {}
    /\ cdc = "none"
    /\ attempt = 0
    /\ connector \in BOOLEAN
    /\ dropped = FALSE

\* The process is gone, with all its goroutines.
Exit ==
    /\ main' = "off"
    /\ waiter' = [m \in Managers |-> "none"]
    /\ starter' = [m \in Managers |-> "none"]
    /\ consumer' = [m \in Managers |-> "none"]
    /\ cancelled' = {}
    /\ pending' = {}
    /\ overtaken' = {}
    /\ cdc' = "none"
    /\ attempt' = 0
    /\ UNCHANGED <<signals, connectVars>>

-----------------------------------------------------------------------------
(***************************************************************************)
(* main: Initialize, the HTTP server, the signal and Shutdown.             *)
(***************************************************************************)
\* InitializeHub, after the databases: the hub's goroutine sets its manager up.
InitializeHub ==
    /\ main = "init"
    /\ main' = "hub"
    /\ waiter' = [waiter EXCEPT ![Hub] = "setup"]
    /\ UNCHANGED <<starter, consumer, cancelled, overtaken, signalVars, setupVars, connectVars>>

\* The goroutines of the connector, of the other managers and of the HTTP server.
Launch ==
    /\ main = "hub"
    /\ main' = "serving"
    /\ waiter' = [m \in Managers |-> IF m = Hub THEN waiter[m] ELSE "setup"]
    /\ cdc' = "exists"
    /\ UNCHANGED <<starter, consumer, cancelled, overtaken, signalVars, attempt, connectVars>>

NotifyMain ==
    /\ main = "serving"
    /\ main' = "waiting"
    /\ UNCHANGED <<managerVars, signalVars, setupVars, connectVars>>

ReceiveSignal ==
    /\ main = "waiting" /\ Main \in pending
    /\ main' = "shutdown"
    /\ pending' = pending \ {Main}
    /\ UNCHANGED <<managerVars, signals, setupVars, connectVars>>

\* Mutant: main waits for the consumers.
WaitedForConsumers == \A m \in Managers : consumer[m] = "ended"

\* server.Shutdown returns within ten seconds, and nothing else is waited for.
WaitedFor == TRUE

Shutdown ==
    /\ main = "shutdown"
    /\ WaitedFor
    /\ Exit

\* Fatalf: a database cannot be reached, or the server cannot listen.
Fatal ==
    /\ main \in {"init", "hub", "serving", "waiting"}
    /\ Exit

-----------------------------------------------------------------------------
(***************************************************************************)
(* Signals: a receiver gets those sent after its signal.Notify; before the *)
(* first Notify of any, the signal ends the process.                       *)
(***************************************************************************)
Notified ==
    {m \in Managers : waiter[m] \notin {"none", "setup", "notify"}}
        \cup {r \in {Main} : main \in {"waiting", "shutdown"}}

Signal ==
    /\ main # "off"
    /\ signals < MaxSignals
    /\ signals' = signals + 1
    /\ Notified # {}
    /\ pending' = pending \cup Notified
    /\ UNCHANGED <<main, managerVars, setupVars, connectVars>>

SignalKills ==
    /\ main # "off"
    /\ signals < MaxSignals
    /\ Notified = {}
    /\ Exit

-----------------------------------------------------------------------------
(***************************************************************************)
(* ConsumerManager, and the goroutine that sets it up and stops it.        *)
(***************************************************************************)
\* manager.Add, and Start in a goroutine of its own.
SetUp(m) ==
    /\ waiter[m] = "setup"
    /\ waiter' = [waiter EXCEPT ![m] = "notify"]
    /\ starter' = [starter EXCEPT ![m] = "start"]
    /\ UNCHANGED <<main, consumer, cancelled, overtaken, signalVars, setupVars, connectVars>>

Notify(m) ==
    /\ waiter[m] = "notify"
    /\ waiter' = [waiter EXCEPT ![m] = "wait"]
    /\ UNCHANGED <<main, starter, consumer, cancelled, overtaken, signalVars, setupVars,
                   connectVars>>

\* Start: cm.cancel is set, ...
StartSetsCancel(m) ==
    /\ starter[m] = "start"
    /\ starter' = [starter EXCEPT ![m] = "add"]
    /\ UNCHANGED <<main, waiter, consumer, cancelled, overtaken, signalVars, setupVars,
                   connectVars>>

\* ... and the consumer is counted and started.
StartRunsConsumer(m) ==
    /\ starter[m] = "add"
    /\ starter' = [starter EXCEPT ![m] = "done"]
    /\ consumer' = [consumer EXCEPT ![m] = "fetch"]
    /\ UNCHANGED <<main, waiter, cancelled, overtaken, signalVars, setupVars, connectVars>>

\* Mutants: Stop waits for consumers that nobody has told to end, or all share
\* one context.
TellNone(m) == {}

TellEverybody(m) == Receivers

\* cm.cancel().
Tell(m) == {m}

\* Stop: cm.cancel is called, and waited for from here on.
Stop(m) ==
    /\ waiter[m] = "wait" /\ m \in pending
    /\ starter[m] # "start"
    /\ pending' = pending \ {m}
    /\ cancelled' = cancelled \cup Tell(m)
    /\ waiter' = [waiter EXCEPT ![m] = "stopping"]
    /\ UNCHANGED <<main, starter, consumer, overtaken, signals, setupVars, connectVars>>

\* Stop before Start has set cm.cancel: recovered, except in the hub's goroutine.
StopPanics(m) ==
    /\ waiter[m] = "wait" /\ m \in pending
    /\ starter[m] = "start"
    /\ m # Hub
    /\ pending' = pending \ {m}
    /\ waiter' = [waiter EXCEPT ![m] = "panicked"]
    /\ UNCHANGED <<main, starter, consumer, cancelled, overtaken, signals, setupVars,
                   connectVars>>

HubStopPanics ==
    /\ waiter[Hub] = "wait" /\ Hub \in pending
    /\ starter[Hub] = "start"
    /\ Exit

\* The WaitGroup is at zero: the consumer has ended, or Start has not counted it.
Drained(m) == starter[m] = "add" \/ consumer[m] = "ended"

StopReturns(m) ==
    /\ waiter[m] = "stopping"
    /\ Drained(m)
    /\ waiter' = [waiter EXCEPT ![m] = "stopped"]
    /\ overtaken' = IF starter[m] = "add" THEN overtaken \cup {m} ELSE overtaken
    /\ UNCHANGED <<main, starter, consumer, cancelled, signalVars, setupVars, connectVars>>

\* Mutant: the timeout is no error.
AfterTimeoutStopped == "stopped"

AfterTimeout == "timeout"

StopTimesOut(m) ==
    /\ waiter[m] = "stopping"
    /\ waiter' = [waiter EXCEPT ![m] = AfterTimeout]
    /\ UNCHANGED <<main, starter, consumer, cancelled, overtaken, signalVars, setupVars,
                   connectVars>>

-----------------------------------------------------------------------------
(***************************************************************************)
(* The consumer's loop.                                                    *)
(***************************************************************************)
ConsumerGoes(m, from, to) ==
    /\ consumer[m] = from
    /\ consumer' = [consumer EXCEPT ![m] = to]
    /\ UNCHANGED <<main, waiter, starter, cancelled, overtaken, signalVars, setupVars,
                   connectVars>>

\* Something to handle.  With a cancelled context and a message or a timer that
\* is ready, select takes either.
Fetch(m) == ConsumerGoes(m, "fetch", "handle")

Handled(m) == ConsumerGoes(m, "handle", "fetch")

\* The cancelled context ends the loop.
ConsumerEnds(m) == m \in cancelled /\ ConsumerGoes(m, "fetch", "ended")

\* runSingleManualCommit, which only the hub uses, returns on every error of a
\* fetch or a commit.  Nobody starts the consumer again.
ConsumerCrashes(m) ==
    /\ m = Hub
    /\ \E from \in {"fetch", "handle"} : ConsumerGoes(m, from, "ended")

-----------------------------------------------------------------------------
(***************************************************************************)
(* SetupConnector.                                                         *)
(***************************************************************************)
SetupGoes(from, to) == cdc = from /\ cdc' = to

NothingSet == UNCHANGED <<attempt, connectVars>>

OnlySetup == UNCHANGED <<main, managerVars, signalVars>>

\* The configuration cannot be read.
ConfigFails ==
    /\ attempt = 0 /\ SetupGoes("exists", "failed")
    /\ NothingSet /\ OnlySetup

\* connectorExists: every answer but 200 and every error says no.
ConnectorExists ==
    /\ \/ SetupGoes("exists", "update") /\ connector
       \/ SetupGoes("exists", "create")
    /\ NothingSet /\ OnlySetup

\* Mutant: a status that nobody looks at.
OtherStatusIgnored == "status"

\* "unexpected status".
OtherStatus == "failed"

CreateConnector ==
    /\ cdc = "create"
    /\ \/ \* 201
          /\ ~connector
          /\ connector' = TRUE
          /\ cdc' = "status"
       \/ \* 409 if it is there, and any other status or lost answer
          /\ cdc' = OtherStatus
          /\ UNCHANGED connector
       \/ /\ ~connector
          /\ connector' = TRUE
          /\ cdc' = "failed"
    /\ UNCHANGED <<attempt, dropped>> /\ OnlySetup

\* A connector that is gone by now is created, which is answered by 201 and not
\* by the 200 that updateConnector expects.
UpdateConnector ==
    /\ cdc = "update"
    /\ \/ /\ connector' = TRUE
          /\ cdc' \in (IF connector THEN {"status", "failed"} ELSE {"failed"})
       \/ /\ cdc' = OtherStatus
          /\ UNCHANGED connector
    /\ UNCHANGED <<attempt, dropped>> /\ OnlySetup

\* "connection refused": the only error that is retried.
ConnectionRefused ==
    /\ \E s \in {"create", "update"} : SetupGoes(s, "backoff")
    /\ NothingSet /\ OnlySetup

\* 1 << uint(i - 1), which is 0 for i = 0: uint(-1) shifts everything out.
Shift(i) == IF i = 0 THEN 0 ELSE 2 ^ (i - 1)

HalfDelay(i) ==
    LET delay == BaseDelay * Shift(i) IN
    (IF delay < MaxDelay THEN delay ELSE MaxDelay) \div 2

\* The next attempt, or the last one's error, or the panic of rand.Intn(0), from
\* which the goroutine recovers and ends.
Backoff ==
    /\ cdc = "backoff"
    /\ LET last == attempt = MaxRetries - 1
           retry == ~last /\ HalfDelay(attempt) > 0
       IN
       /\ cdc' = (IF last THEN "failed" ELSE IF retry THEN "exists" ELSE "panicked")
       /\ attempt' = IF retry THEN attempt + 1 ELSE attempt
    /\ UNCHANGED connectVars /\ OnlySetup

\* checkStatus: the connector or a task of it has failed, or all is well.
CheckStatus ==
    /\ \E s \in {"synced", "failed"} : SetupGoes("status", s)
    /\ NothingSet /\ OnlySetup

\* Somebody deletes the connector.  Only between SetupConnector's requests does
\* that make a difference to it.
DropConnector ==
    /\ cdc \in {"create", "update", "status"}
    /\ connector
    /\ connector' = FALSE /\ dropped' = TRUE
    /\ UNCHANGED setupVars /\ OnlySetup

-----------------------------------------------------------------------------
MainStep ==
    InitializeHub \/ Launch \/ NotifyMain \/ ReceiveSignal \/ Shutdown

ManagerStep(m) ==
    \/ SetUp(m) \/ Notify(m) \/ StartSetsCancel(m) \/ StartRunsConsumer(m)
    \/ Stop(m) \/ StopPanics(m) \/ StopReturns(m)

Setup ==
    \/ ConfigFails \/ ConnectorExists \/ CreateConnector \/ UpdateConnector
    \/ ConnectionRefused \/ Backoff \/ CheckStatus

Next ==
    \/ MainStep \/ Fatal \/ Signal \/ SignalKills \/ HubStopPanics
    \/ \E m \in Managers :
        ManagerStep(m) \/ StopTimesOut(m) \/ Fetch(m) \/ Handled(m) \/ ConsumerEnds(m)
            \/ ConsumerCrashes(m)
    \/ Setup \/ DropConnector

\* Goroutines that can go on do; handlers return; and select does not pass over
\* the cancelled context for ever.
Fairness ==
    /\ WF_vars(MainStep)
    /\ \A m \in Managers :
        WF_vars(ManagerStep(m)) /\ WF_vars(Handled(m)) /\ SF_vars(ConsumerEnds(m))

Spec == Init /\ [][Next]_vars /\ Fairness

-----------------------------------------------------------------------------
(***************************************************************************)
(* If Stop returns without an error, the manager's consumer has ended, so  *)
(* that what it used may be closed; except if Stop has overtaken Start,    *)
(* whose consumer it then does not wait for.                               *)
(***************************************************************************)
StopMeansEnded ==
    \A m \in Managers :
        waiter[m] = "stopped" => consumer[m] = "ended" \/ m \in overtaken

(***************************************************************************)
(* A consumer that Stop was called for ends if the process lives on, even  *)
(* one that Start has run behind Stop's back or that Stop gave up on.      *)
(***************************************************************************)
StopEndsConsumer ==
    \A m \in Managers :
        waiter[m] = "stopping" ~> (consumer[m] = "ended" \/ main = "off")

(***************************************************************************)
(* A signal that main has received ends the process, whatever the managers *)
(* and their handlers do.  A signal sent between the managers' Notify and  *)
(* main's stops consumers and leaves the process running.                  *)
(***************************************************************************)
SignalEndsProcess == Main \in pending ~> main = "off"

(***************************************************************************)
(* SetupConnector reports success only if the connector was there, created *)
(* or updated, whatever happened between its three requests, unless        *)
(* somebody has deleted it.                                                *)
(***************************************************************************)
SyncedIsThere == cdc = "synced" => connector \/ dropped
=============================================================================
