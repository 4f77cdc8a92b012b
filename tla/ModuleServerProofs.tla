------------------------- MODULE ModuleServerProofs -------------------------
(***************************************************************************)
(* Proofs about ModuleServer's safety: what Stop's success means, then and *)
(* later, what the managers ask of a consumer, and what SetupConnector's   *)
(* retries and its success mean, for any number of managers, retries and   *)
(* signals.                                                                *)
(***************************************************************************)
EXTENDS ModuleServer, TLAPS

USE DEF managerVars, signalVars, setupVars, connectVars, vars

-----------------------------------------------------------------------------
(***************************************************************************)
(* The parts of the inductive invariant.                                   *)
(***************************************************************************)
\* Start has run the consumer once it is done, and not before.
StartOK ==
    \A m \in Managers : starter[m] \in {"none", "start", "add"} => consumer[m] = "none"

\* Start runs after its manager is set up, which main's start brings about.
SetUpOK ==
    \A m \in Managers :
        /\ waiter[m] \in {"none", "setup"} => starter[m] = "none"
        /\ main = "init" \/ (main = "hub" /\ m # Hub) => waiter[m] = "none"

\* SyncedIsThere, from the first answer that says so.
ThereOK == cdc \in {"status", "synced"} => connector \/ dropped

IInv == TypeOK /\ StartOK /\ SetUpOK /\ StopMeansEnded /\ ThereOK

\* The disjuncts of Next, one by one.
LEMMA NextCases ==
    ASSUME [Next]_vars
    PROVE  \/ InitializeHub \/ Launch \/ NotifyMain \/ ReceiveSignal
           \/ Shutdown \/ Fatal \/ SignalKills \/ HubStopPanics
           \/ Signal
           \/ \E m \in Managers : SetUp(m)
           \/ \E m \in Managers : Notify(m)
           \/ \E m \in Managers : StartSetsCancel(m)
           \/ \E m \in Managers : StartRunsConsumer(m)
           \/ \E m \in Managers : Stop(m)
           \/ \E m \in Managers : StopPanics(m)
           \/ \E m \in Managers : StopReturns(m)
           \/ \E m \in Managers : StopTimesOut(m)
           \/ \E m \in Managers :
                Fetch(m) \/ Handled(m) \/ ConsumerEnds(m) \/ ConsumerCrashes(m)
           \/ Setup \/ DropConnector
           \/ UNCHANGED vars
  BY Zenon DEF Next, MainStep, ManagerStep

\* Four ways for the process to end.
LEMMA ExitCases ==
    ASSUME Shutdown \/ Fatal \/ SignalKills \/ HubStopPanics
    PROVE  Exit
  BY Zenon DEF Shutdown, Fatal, SignalKills, HubStopPanics

\* What the consumer's own steps do.
LEMMA ConsumerCases ==
    ASSUME TypeOK, NEW m \in Managers,
           Fetch(m) \/ Handled(m) \/ ConsumerEnds(m) \/ ConsumerCrashes(m)
    PROVE  /\ consumer[m] \in {"fetch", "handle"}
           /\ \E to \in {"fetch", "handle", "ended"} : consumer' = [consumer EXCEPT ![m] = to]
           /\ UNCHANGED <<main, waiter, starter, cancelled, overtaken, signalVars, setupVars,
                          connectVars>>
  BY DEF Fetch, Handled, ConsumerEnds, ConsumerCrashes, ConsumerGoes

-----------------------------------------------------------------------------
(***************************************************************************)
(* The managers and main.                                                  *)
(***************************************************************************)
ManagersOK == StartOK /\ SetUpOK /\ StopMeansEnded

ManagersTypeOK ==
    /\ main \in {"init", "hub", "serving", "waiting", "shutdown", "off"}
    /\ waiter \in [Managers -> {"none", "setup", "notify", "wait", "stopping",
                                "stopped", "timeout", "panicked"}]
    /\ starter \in [Managers -> {"none", "start", "add", "done"}]
    /\ consumer \in [Managers -> {"none", "fetch", "handle", "ended"}]
    /\ cancelled \subseteq Managers
    /\ pending \subseteq Receivers
    /\ signals \in 0 .. MaxSignals
    /\ overtaken \subseteq Managers

SetupTypeOK ==
    /\ cdc \in {"none", "exists", "create", "update", "backoff", "status",
                "synced", "failed", "panicked"}
    /\ attempt \in 0 .. MaxRetries - 1
    /\ connector \in BOOLEAN
    /\ dropped \in BOOLEAN

LEMMA TypeParts == TypeOK <=> ManagersTypeOK /\ SetupTypeOK
  BY Zenon DEF TypeOK, ManagersTypeOK, SetupTypeOK

LEMMA NextManagersTypeOK == TypeOK /\ [Next]_vars => ManagersTypeOK'
<1> SUFFICES ASSUME ManagersTypeOK, TypeOK, [Next]_vars PROVE ManagersTypeOK'
  BY TypeParts
<1> USE DEF ManagersTypeOK
<1>1. CASE InitializeHub \/ Launch
  BY <1>1 DEF InitializeHub, Launch
<1>2. CASE NotifyMain \/ ReceiveSignal
  BY <1>2 DEF NotifyMain, ReceiveSignal
<1>3. CASE Shutdown \/ Fatal \/ SignalKills \/ HubStopPanics
  <2>1. Exit
    BY <1>3, ExitCases
  <2>2. /\ main' = "off" /\ UNCHANGED signals
        /\ cancelled' = {} /\ pending' = {} /\ overtaken' = {}
    BY <2>1 DEF Exit
  <2>3. /\ waiter' \in [Managers -> {"none"}]
        /\ starter' \in [Managers -> {"none"}]
        /\ consumer' \in [Managers -> {"none"}]
    BY <2>1 DEF Exit
  <2> QED
    BY <2>2, <2>3
<1>4. CASE Signal
  <2>1. signals' \in 0 .. MaxSignals
    BY <1>4, ModuleServerAssumption DEF Signal
  <2>2. pending' \subseteq Receivers
    <3>1. Notified \subseteq Receivers
      BY DEF Notified, Receivers
    <3> QED
      BY <1>4, <3>1 DEF Signal
  <2> QED
    BY <1>4, <2>1, <2>2 DEF Signal
<1>5. ASSUME NEW m \in Managers, SetUp(m) \/ Notify(m) PROVE ManagersTypeOK'
  BY <1>5 DEF SetUp, Notify
<1>6. ASSUME NEW m \in Managers, StartSetsCancel(m) \/ StartRunsConsumer(m)
      PROVE ManagersTypeOK'
  BY <1>6 DEF StartSetsCancel, StartRunsConsumer
<1>7. ASSUME NEW m \in Managers, Stop(m) \/ StopPanics(m) PROVE ManagersTypeOK'
  BY <1>7 DEF Stop, StopPanics, Tell
<1>8. ASSUME NEW m \in Managers, StopReturns(m) \/ StopTimesOut(m) PROVE ManagersTypeOK'
  BY <1>8 DEF StopReturns, StopTimesOut, AfterTimeout
<1>9. ASSUME NEW m \in Managers,
             Fetch(m) \/ Handled(m) \/ ConsumerEnds(m) \/ ConsumerCrashes(m)
      PROVE ManagersTypeOK'
  BY <1>9, ConsumerCases
<1>10. CASE Setup \/ DropConnector
  BY <1>10 DEF Setup, DropConnector, ConfigFails, ConnectorExists, CreateConnector,
     UpdateConnector, ConnectionRefused, Backoff, CheckStatus, OnlySetup
<1>11. CASE UNCHANGED vars
  BY <1>11
<1> QED
  BY <1>1, <1>2, <1>3, <1>4, <1>5, <1>6, <1>7, <1>8, <1>9, <1>10, <1>11, NextCases, Zenon

LEMMA NextManagersOK == TypeOK /\ ManagersOK /\ [Next]_vars => ManagersOK'
<1> SUFFICES ASSUME TypeOK, ManagersOK, [Next]_vars PROVE ManagersOK'
  OBVIOUS
<1> USE DEF ManagersOK, StartOK, SetUpOK, StopMeansEnded
<1>1. CASE UNCHANGED <<main, managerVars>>
  BY <1>1
<1>2. CASE NotifyMain \/ ReceiveSignal \/ Signal \/ UNCHANGED vars
  BY <1>1, <1>2 DEF NotifyMain, ReceiveSignal, Signal
<1>3. CASE Setup \/ DropConnector
  BY <1>1, <1>3 DEF Setup, DropConnector, ConfigFails, ConnectorExists, CreateConnector,
     UpdateConnector, ConnectionRefused, Backoff, CheckStatus, OnlySetup
<1>4. CASE Shutdown \/ Fatal \/ SignalKills \/ HubStopPanics
  BY <1>4, ExitCases DEF Exit
<1>5. CASE InitializeHub
  BY <1>5 DEF InitializeHub, TypeOK
<1>6. CASE Launch
  BY <1>6 DEF Launch, TypeOK
<1>7. ASSUME NEW m \in Managers, SetUp(m) PROVE ManagersOK'
  BY <1>7 DEF SetUp, TypeOK
<1>8. ASSUME NEW m \in Managers, Notify(m) \/ Stop(m) \/ StopPanics(m) PROVE ManagersOK'
  BY <1>8 DEF Notify, Stop, StopPanics, TypeOK
<1>9. ASSUME NEW m \in Managers, StartSetsCancel(m) PROVE ManagersOK'
  BY <1>9 DEF StartSetsCancel, TypeOK
<1>10. ASSUME NEW m \in Managers, StartRunsConsumer(m) PROVE ManagersOK'
  BY <1>10 DEF StartRunsConsumer, TypeOK
<1>11. ASSUME NEW m \in Managers, StopReturns(m) PROVE ManagersOK'
  BY <1>11 DEF StopReturns, Drained, TypeOK
<1>12. ASSUME NEW m \in Managers, StopTimesOut(m) PROVE ManagersOK'
  BY <1>12 DEF StopTimesOut, AfterTimeout, TypeOK
<1>13. ASSUME NEW m \in Managers,
              Fetch(m) \/ Handled(m) \/ ConsumerEnds(m) \/ ConsumerCrashes(m)
       PROVE ManagersOK'
  BY <1>13, ConsumerCases DEF TypeOK
<1> QED
  BY <1>2, <1>3, <1>4, <1>5, <1>6, <1>7, <1>8, <1>9, <1>10, <1>11, <1>12, <1>13, NextCases,
     Zenon

-----------------------------------------------------------------------------
(***************************************************************************)
(* SetupConnector.                                                         *)
(***************************************************************************)
LEMMA NextThereOK ==
    TypeOK /\ ThereOK /\ [Next]_vars => ThereOK' /\ SetupTypeOK'
<1> SUFFICES ASSUME SetupTypeOK, ThereOK, [Next]_vars PROVE ThereOK' /\ SetupTypeOK'
  BY TypeParts
<1>0. 0 \in 0 .. MaxRetries - 1
  BY ModuleServerAssumption
<1> USE DEF ThereOK, SetupTypeOK
<1>1. CASE UNCHANGED <<main, setupVars, connectVars>>
  BY <1>1
<1>2. CASE InitializeHub \/ NotifyMain \/ ReceiveSignal \/ Signal \/ UNCHANGED vars
  BY <1>1, <1>2 DEF InitializeHub, NotifyMain, ReceiveSignal, Signal
<1>3. ASSUME NEW m \in Managers,
             \/ SetUp(m) \/ Notify(m) \/ StartSetsCancel(m) \/ StartRunsConsumer(m)
             \/ Stop(m) \/ StopPanics(m) \/ StopReturns(m) \/ StopTimesOut(m)
      PROVE ThereOK' /\ SetupTypeOK'
  BY <1>1, <1>3 DEF SetUp, Notify, StartSetsCancel, StartRunsConsumer, Stop, StopPanics,
     StopReturns, StopTimesOut
<1>4. ASSUME NEW m \in Managers,
             Fetch(m) \/ Handled(m) \/ ConsumerEnds(m) \/ ConsumerCrashes(m)
      PROVE ThereOK' /\ SetupTypeOK'
  BY <1>1, <1>4 DEF Fetch, Handled, ConsumerEnds, ConsumerCrashes, ConsumerGoes
<1>5. CASE Shutdown \/ Fatal \/ SignalKills \/ HubStopPanics
  BY <1>0, <1>5, ExitCases DEF Exit
<1>6. CASE Launch
  BY <1>6 DEF Launch
<1>7. CASE ConfigFails \/ ConnectorExists \/ CheckStatus
  BY <1>7 DEF ConfigFails, ConnectorExists, CheckStatus, SetupGoes, NothingSet, OnlySetup
<1>8. CASE CreateConnector
  BY <1>8 DEF CreateConnector, OtherStatus, OnlySetup
<1>9. CASE UpdateConnector
  BY <1>9 DEF UpdateConnector, OtherStatus, OnlySetup
<1>10. CASE ConnectionRefused
  BY <1>10 DEF ConnectionRefused, SetupGoes, NothingSet, OnlySetup
<1>11. CASE Backoff
  <2>1. /\ cdc' \in {"failed", "exists", "panicked"}
        /\ attempt' = attempt \/ (attempt # MaxRetries - 1 /\ attempt' = attempt + 1)
        /\ UNCHANGED connectVars
    BY <1>11, Zenon DEF Backoff
  <2>2. attempt' \in 0 .. MaxRetries - 1
    BY <2>1, ModuleServerAssumption
  <2> QED
    BY <2>1, <2>2
<1>12. CASE DropConnector
  BY <1>12 DEF DropConnector, OnlySetup
<1> QED
  BY <1>2, <1>3, <1>4, <1>5, <1>6, <1>7, <1>8, <1>9, <1>10, <1>11, <1>12, NextCases, Zenon
     DEF Setup

-----------------------------------------------------------------------------
(***************************************************************************)
(* The invariant and what follows from it.                                 *)
(***************************************************************************)
LEMMA InitIInv == Init => IInv
<1> SUFFICES ASSUME Init PROVE IInv
  OBVIOUS
<1> USE DEF Init
<1>1. TypeOK
  <2>1. 0 \in 0 .. MaxRetries - 1 /\ 0 \in 0 .. MaxSignals
    BY ModuleServerAssumption
  <2>2. ManagersTypeOK
    BY <2>1 DEF ManagersTypeOK
  <2>3. SetupTypeOK
    BY <2>1 DEF SetupTypeOK
  <2> QED
    BY <2>2, <2>3, TypeParts
<1>2. StartOK /\ SetUpOK /\ StopMeansEnded
  BY DEF StartOK, SetUpOK, StopMeansEnded
<1>3. ThereOK
  BY DEF ThereOK
<1> QED
  BY <1>1, <1>2, <1>3 DEF IInv

LEMMA NextIInv == IInv /\ [Next]_vars => IInv'
<1> SUFFICES ASSUME IInv, [Next]_vars PROVE IInv'
  OBVIOUS
<1>1. TypeOK /\ ManagersOK /\ ThereOK
  BY DEF IInv, ManagersOK
<1>2. ManagersTypeOK' /\ SetupTypeOK' /\ ManagersOK' /\ ThereOK'
  BY <1>1, NextManagersTypeOK, NextManagersOK, NextThereOK
<1>3. TypeOK'
  BY <1>2, Zenon DEF TypeOK, ManagersTypeOK, SetupTypeOK
<1> QED
  BY <1>2, <1>3 DEF IInv, ManagersOK

LEMMA Invariance == Spec => []IInv
  BY InitIInv, NextIInv, PTL DEF Spec

-----------------------------------------------------------------------------
\* The goroutines, the managers and the connector's set-up keep their types.
THEOREM ModuleServerTypeOK == Spec => []TypeOK
<1>1. IInv => TypeOK
  BY DEF IInv
<1> QED
  BY <1>1, Invariance, PTL

\* Stop returns nil only for a consumer that has ended, or that Start has yet to
\* run.
THEOREM ModuleServerStopMeansEnded == Spec => []StopMeansEnded
<1>1. IInv => StopMeansEnded
  BY DEF IInv
<1> QED
  BY <1>1, Invariance, PTL

\* A connector that SetupConnector reports is there, unless it was deleted behind
\* its back.
THEOREM ModuleServerSyncedIsThere == Spec => []SyncedIsThere
<1>1. IInv => SyncedIsThere
  BY DEF IInv, ThereOK, SyncedIsThere
<1> QED
  BY <1>1, Invariance, PTL

-----------------------------------------------------------------------------
(***************************************************************************)
(* What Stop's success lets its caller rely on from then on.               *)
(***************************************************************************)
\* Once Stop has returned without an error for a consumer it has not overtaken,
\* that consumer has ended for good: until the process is gone, no late Start, no
\* message that was ready and no second signal runs it again.
EndedForGood(m) == waiter[m] = "stopped" /\ m \notin overtaken /\ consumer[m] = "ended"

StoppedForGood ==
    [][\A m \in Managers :
         waiter[m] = "stopped" /\ m \notin overtaken => main' = "off" \/ EndedForGood(m)']_vars

\* No step of the process but its end disturbs a manager that is stopped.
LEMMA StoppedStays ==
    ASSUME TypeOK, ManagersOK, [Next]_vars, NEW n \in Managers, EndedForGood(n)
    PROVE  main' = "off" \/ EndedForGood(n)'
<1> USE DEF EndedForGood
<1>1. /\ waiter[n] = "stopped" /\ n \notin overtaken /\ consumer[n] = "ended"
      /\ starter[n] \notin {"none", "start", "add"}
      /\ main # "init" /\ (main = "hub" => n = Hub)
  BY ModuleServerAssumption DEF ManagersOK, StartOK, SetUpOK, TypeOK
<1>2. CASE UNCHANGED managerVars
  BY <1>1, <1>2
<1>3. CASE NotifyMain \/ ReceiveSignal \/ Signal \/ UNCHANGED vars
  BY <1>2, <1>3 DEF NotifyMain, ReceiveSignal, Signal
<1>4. CASE Setup \/ DropConnector
  BY <1>2, <1>4 DEF Setup, DropConnector, ConfigFails, ConnectorExists, CreateConnector,
     UpdateConnector, ConnectionRefused, Backoff, CheckStatus, OnlySetup
<1>5. CASE Shutdown \/ Fatal \/ SignalKills \/ HubStopPanics
  BY <1>5, ExitCases DEF Exit
<1>6. CASE InitializeHub \/ Launch
  BY <1>1, <1>6 DEF InitializeHub, Launch, TypeOK
<1>7. ASSUME NEW m \in Managers,
             SetUp(m) \/ Notify(m) \/ Stop(m) \/ StopPanics(m) \/ StopTimesOut(m)
      PROVE  EndedForGood(n)'
  BY <1>1, <1>7 DEF SetUp, Notify, Stop, StopPanics, StopTimesOut, TypeOK
<1>8. ASSUME NEW m \in Managers, StopReturns(m) PROVE EndedForGood(n)'
  BY <1>1, <1>8 DEF StopReturns, TypeOK
<1>9. ASSUME NEW m \in Managers, StartSetsCancel(m) \/ StartRunsConsumer(m)
      PROVE  EndedForGood(n)'
  BY <1>1, <1>9 DEF StartSetsCancel, StartRunsConsumer, TypeOK
<1>10. ASSUME NEW m \in Managers,
              Fetch(m) \/ Handled(m) \/ ConsumerEnds(m) \/ ConsumerCrashes(m)
       PROVE  EndedForGood(n)'
  BY <1>1, <1>10, ConsumerCases DEF TypeOK
<1> QED
  BY <1>3, <1>4, <1>5, <1>6, <1>7, <1>8, <1>9, <1>10, NextCases, Zenon

THEOREM StoppedForGoodCorrect == Spec => StoppedForGood
<1>1. ASSUME IInv, [Next]_vars
      PROVE  [\A m \in Managers : waiter[m] = "stopped" /\ m \notin overtaken =>
                main' = "off" \/ EndedForGood(m)']_vars
  <2>1. TypeOK /\ ManagersOK
    BY <1>1 DEF IInv, ManagersOK
  <2>2. ASSUME NEW m \in Managers, waiter[m] = "stopped", m \notin overtaken
        PROVE  main' = "off" \/ EndedForGood(m)'
    <3>1. EndedForGood(m)
      BY <2>1, <2>2 DEF ManagersOK, StopMeansEnded, EndedForGood
    <3> QED
      BY <1>1, <2>1, <3>1, StoppedStays
  <2> QED
    BY <2>2
<1> QED
  BY <1>1, Invariance, PTL DEF Spec, StoppedForGood

-----------------------------------------------------------------------------
(***************************************************************************)
(* A manager's consumer is one that ConsumerLife describes.  The hub's is  *)
(* not: it reads with runSingleManualCommit and ends on any error.         *)
(***************************************************************************)
Life(m) == INSTANCE ConsumerLife WITH consumer <- consumer[m], told <- m \in cancelled

\* LifeNext or a stutter, in the variables of this module.
LifeStep(m) ==
    \/ consumer[m] = "none" /\ consumer'[m] = "fetch" /\ (m \in cancelled' <=> m \in cancelled)
    \/ m \in cancelled' /\ consumer'[m] = consumer[m]
    \/ consumer[m] = "fetch" /\ consumer'[m] = "handle" /\ (m \in cancelled' <=> m \in cancelled)
    \/ consumer[m] = "handle" /\ consumer'[m] = "fetch" /\ (m \in cancelled' <=> m \in cancelled)
    \/ /\ m \in cancelled /\ consumer[m] = "fetch"
       /\ consumer'[m] = "ended" /\ (m \in cancelled' <=> m \in cancelled)
    \/ consumer'[m] = "none" /\ m \notin cancelled'
    \/ consumer'[m] = consumer[m] /\ (m \in cancelled' <=> m \in cancelled)

LEMMA StepIsLifeStep ==
    ASSUME TypeOK, ManagersOK, [Next]_vars, NEW n \in Managers \ {Hub}
    PROVE  LifeStep(n)
<1> USE DEF LifeStep
<1>1. CASE UNCHANGED <<consumer, cancelled>>
  BY <1>1
<1>2. CASE \/ InitializeHub \/ Launch \/ NotifyMain \/ ReceiveSignal \/ Signal
           \/ UNCHANGED vars
  BY <1>1, <1>2 DEF InitializeHub, Launch, NotifyMain, ReceiveSignal, Signal
<1>3. CASE Setup \/ DropConnector
  BY <1>1, <1>3 DEF Setup, DropConnector, ConfigFails, ConnectorExists, CreateConnector,
     UpdateConnector, ConnectionRefused, Backoff, CheckStatus, OnlySetup
<1>4. CASE Shutdown \/ Fatal \/ SignalKills \/ HubStopPanics
  BY <1>4, ExitCases DEF Exit
<1>5. ASSUME NEW m \in Managers,
             \/ SetUp(m) \/ Notify(m) \/ StartSetsCancel(m) \/ StopPanics(m)
             \/ StopReturns(m) \/ StopTimesOut(m)
      PROVE  LifeStep(n)
  BY <1>1, <1>5 DEF SetUp, Notify, StartSetsCancel, StopPanics, StopReturns, StopTimesOut
<1>6. ASSUME NEW m \in Managers, Stop(m) PROVE LifeStep(n)
  BY <1>6 DEF Stop, Tell
<1>7. ASSUME NEW m \in Managers, StartRunsConsumer(m) PROVE LifeStep(n)
  BY <1>7 DEF StartRunsConsumer, ManagersOK, StartOK, TypeOK
<1>8. ASSUME NEW m \in Managers,
             Fetch(m) \/ Handled(m) \/ ConsumerEnds(m) \/ ConsumerCrashes(m)
      PROVE  LifeStep(n)
  BY <1>8 DEF Fetch, Handled, ConsumerEnds, ConsumerCrashes, ConsumerGoes, TypeOK
<1> QED
  BY <1>2, <1>3, <1>4, <1>5, <1>6, <1>7, <1>8, NextCases, Zenon

\* Whatever the order of Start, Stop, the signals and the process' end: a batch
\* consumer is run once, and ends only if its own manager has told it to.
THEOREM ManagedConsumerLives ==
    ASSUME NEW m \in Managers \ {Hub}
    PROVE  Spec => Life(m)!LifeInit /\ [][Life(m)!LifeNext]_<<consumer[m], m \in cancelled>>
<1>1. Init => Life(m)!LifeInit
  BY DEF Init, Life!LifeInit
<1>2. IInv /\ [Next]_vars => [Life(m)!LifeNext]_<<consumer[m], m \in cancelled>>
  <2> SUFFICES ASSUME TypeOK, ManagersOK, [Next]_vars
               PROVE  [Life(m)!LifeNext]_<<consumer[m], m \in cancelled>>
    BY DEF IInv, ManagersOK
  <2>1. LifeStep(m)
    BY StepIsLifeStep
  <2> QED
    BY <2>1 DEF LifeStep, Life!LifeNext, Life!Run, Life!BeTold, Life!Take, Life!Finish,
       Life!Return, Life!Die, Life!Move
<1> QED
  BY <1>1, <1>2, Invariance, PTL DEF Spec
=============================================================================
