----------------------- MODULE ConsumerLifecycle_proofs -----------------------
(***************************************************************************)
(* Proofs about ConsumerLifecycle, for any set of consumers and with or    *)
(* without KafkaConsumerReadyWaitOpt: its type invariant, its safety       *)
(* invariants, what one step may never do, the refinement of               *)
(* ConsumerService, and that each consumer behaves as it would alone.      *)
(***************************************************************************)
EXTENDS SoleConsumer, TLAPS

(* The current unready channel is closed from Setup to MarkUnready only. *)
UnreadyChannel ==
    \A c \in Consumers : signalled[c] =>
       loop[c] \in {"session", "claim", "unready"} /\ everReady[c]

(* Readiness is passed on: Setup, waiter, Start, the hook that waits. *)
ReadinessChain ==
    /\ \A c \in Consumers : waiter[c] = "done" => everReady[c]
    /\ start = "ready" => \A c \in Consumers : waiter[c] = "done"
    /\ waitsForReady /\ app # "starting" => start = "ready"

(* What is closed tells where Stop stands, and no claim runs from the time *)
(* the lock of Consume was free after the group was closed.                *)
StopOrder ==
    /\ \A c \in Consumers :
          /\ "group" \notin open[c] <=> stopper[c] \in {"leave", "client", "done"}
          /\ stopper[c] = "done" => open[c] = {}
          /\ stopper[c] = "client" => open[c] \subseteq {"client"}
          /\ stopper[c] = "leave" => open[c] \subseteq {"client"}
          /\ stopper[c] = "close" => open[c] \subseteq {"group", "client"}
          /\ stopper[c] \in {"client", "done"} => loop[c] # "claim"
    /\ app \in {"starting", "running"} => \A c \in Consumers : stopper[c] = "none"
    /\ app = "stopped" => \A c \in Consumers : stopper[c] = "done"

IInv == TypeOK /\ UnreadyChannel /\ ReadinessChain /\ StopOrder

LEMMA InitInv == Init => IInv
<1> SUFFICES ASSUME Init PROVE IInv
  OBVIOUS
<1>1. TypeOK
  BY DEF Init, TypeOK, WaiterLabels, LoopLabels, StopperLabels, Resources
<1>2. UnreadyChannel /\ ReadinessChain
  BY DEF Init, UnreadyChannel, ReadinessChain
<1>3. StopOrder
  BY DEF Init, StopOrder, Resources
<1> QED BY <1>1, <1>2, <1>3 DEF IInv

(* Steps of the hooks, and of Start and Stop of SaramaConsumers. *)
LEMMA HookInv == ASSUME IInv, Hook PROVE IInv'
<1> USE DEF IInv
<1>1. CASE StartHook
  <2>1. TypeOK'
    BY <1>1 DEF StartHook, TypeOK
  <2>2. UnreadyChannel' /\ StopOrder'
    BY <1>1 DEF StartHook, UnreadyChannel, StopOrder
  <2>3. ReadinessChain'
    BY <1>1 DEF StartHook, ReadinessChain
  <2> QED BY <2>1, <2>2, <2>3
<1>2. CASE Started
  <2>1. TypeOK'
    BY <1>2 DEF Started, TypeOK
  <2>2. UnreadyChannel' /\ StopOrder'
    BY <1>2 DEF Started, UnreadyChannel, StopOrder
  <2>3. ReadinessChain'
    BY <1>2 DEF Started, ReadinessChain
  <2> QED BY <2>1, <2>2, <2>3
<1>3. CASE StartAll
  <2>1. TypeOK'
    BY <1>3 DEF StartAll, TypeOK, WaiterLabels
  <2>2. UnreadyChannel' /\ StopOrder'
    BY <1>3 DEF StartAll, UnreadyChannel, StopOrder
  <2>3. ReadinessChain'
    BY <1>3 DEF StartAll, ReadinessChain
  <2> QED BY <2>1, <2>2, <2>3
<1>4. CASE AllReady
  <2>1. TypeOK'
    BY <1>4 DEF AllReady, TypeOK
  <2>2. UnreadyChannel' /\ StopOrder'
    BY <1>4 DEF AllReady, UnreadyChannel, StopOrder
  <2>3. ReadinessChain'
    BY <1>4 DEF AllReady, ReadinessChain
  <2> QED BY <2>1, <2>2, <2>3
<1>5. CASE StopHook
  <2>1. TypeOK'
    BY <1>5 DEF StopHook, TypeOK, StopperLabels
  <2>2. UnreadyChannel' /\ ReadinessChain'
    BY <1>5 DEF StopHook, UnreadyChannel, ReadinessChain
  <2>3. StopOrder'
    BY <1>5 DEF StopHook, StopOrder
  <2> QED BY <2>1, <2>2, <2>3
<1>6. CASE Stopped
  <2>1. TypeOK'
    BY <1>6 DEF Stopped, TypeOK
  <2>2. UnreadyChannel' /\ ReadinessChain'
    BY <1>6 DEF Stopped, UnreadyChannel, ReadinessChain
  <2>3. StopOrder'
    BY <1>6 DEF Stopped, StopOrder
  <2> QED BY <2>1, <2>2, <2>3
<1> QED BY <1>1, <1>2, <1>3, <1>4, <1>5, <1>6 DEF Hook

LEMMA WaitInv == ASSUME IInv, NEW c \in Consumers, Wait(c) PROVE IInv'
<1> USE DEF IInv
<1>1. CASE SpawnLoop(c)
  <2>1. TypeOK'
    BY <1>1 DEF SpawnLoop, TypeOK, hooks, WaiterLabels, LoopLabels
  <2>2. UnreadyChannel'
    BY <1>1 DEF SpawnLoop, UnreadyChannel, TypeOK
  <2>3. ReadinessChain'
    BY <1>1 DEF SpawnLoop, ReadinessChain, TypeOK, hooks
  <2>4. StopOrder'
    BY <1>1 DEF SpawnLoop, StopOrder, TypeOK, hooks
  <2> QED BY <2>1, <2>2, <2>3, <2>4
<1>2. CASE ReadUnready(c)
  <2>1. TypeOK'
    BY <1>2 DEF ReadUnready, TypeOK, hooks, WaiterLabels
  <2>2. UnreadyChannel' /\ StopOrder'
    BY <1>2 DEF ReadUnready, UnreadyChannel, StopOrder, hooks
  <2>3. ReadinessChain'
    BY <1>2 DEF ReadUnready, ReadinessChain, UnreadyChannel, TypeOK, hooks
  <2> QED BY <2>1, <2>2, <2>3
<1> QED BY <1>1, <1>2 DEF Wait

(* A step of the loop that only moves it on, to a label where neither the  *)
(* channel nor a claim matters, or from one such label to the next.        *)
LEMMA LoopMoves ==
    ASSUME IInv, NEW c \in Consumers, NEW label \in LoopLabels \ {"none", "claim"},
           loop[c] # "none", ~handling[c],
           ~signalled[c] \/ label \in {"session", "unready"},
           loop' = [loop EXCEPT ![c] = label],
           UNCHANGED <<hooks, waiter, signalled, handling, stopper, open, everReady>>,
           running' \in [Consumers -> BOOLEAN]
    PROVE  IInv'
<1> USE DEF IInv
<1>1. TypeOK'
  BY DEF TypeOK, hooks, LoopLabels
<1>2. UnreadyChannel'
  BY DEF UnreadyChannel, TypeOK
<1>3. ReadinessChain'
  BY DEF ReadinessChain, hooks
<1>4. StopOrder'
  BY DEF StopOrder, TypeOK, hooks
<1> QED BY <1>1, <1>2, <1>3, <1>4

LEMMA LoopInv == ASSUME IInv, NEW c \in Consumers, LoopStep(c) PROVE IInv'
<1> USE DEF IInv
<1>0. /\ loop[c] \notin {"session", "claim", "unready"} => ~signalled[c]
      /\ loop[c] # "claim" => ~handling[c]
      /\ running \in [Consumers -> BOOLEAN]
  BY DEF UnreadyChannel, TypeOK
<1>1. CASE Begin(c)
  <2>1. running' \in [Consumers -> BOOLEAN]
    BY <1>0, <1>1 DEF Begin
  <2> QED BY <1>0, <1>1, <2>1, LoopMoves DEF Begin, At, Goto, LoopLabels
<1>2. CASE Check(c)
  <2>1. PICK label \in {"consume", "exited"} : loop' = [loop EXCEPT ![c] = label]
    BY <1>2 DEF Check, Goto
  <2> QED BY <1>0, <1>2, <2>1, LoopMoves DEF Check, At, LoopLabels
<1>3. CASE Consume(c)
  <2>1. PICK label \in {"lock", "unready"} : loop' = [loop EXCEPT ![c] = label]
    BY <1>3 DEF Consume, Goto
  <2> QED BY <1>0, <1>3, <2>1, LoopMoves DEF Consume, At, LoopLabels
<1>4. CASE TakeLock(c)
  BY <1>0, <1>4, LoopMoves DEF TakeLock, At, Goto, LoopLabels
<1>5. CASE Join(c)
  BY <1>0, <1>5, LoopMoves DEF Join, At, Goto, LoopLabels
<1>6. CASE JoinFails(c)
  BY <1>0, <1>6, LoopMoves DEF JoinFails, At, Goto, LoopLabels
<1>7. CASE Setup(c)
  <2>1. TypeOK'
    BY <1>7 DEF Setup, At, Goto, TypeOK, hooks, WaiterLabels, LoopLabels
  <2>2. UnreadyChannel'
    BY <1>7 DEF Setup, Goto, UnreadyChannel, TypeOK
  <2>3. ReadinessChain'
    BY <1>7 DEF Setup, ReadinessChain, TypeOK, hooks
  <2>4. StopOrder'
    BY <1>7 DEF Setup, Goto, StopOrder, TypeOK, hooks
  <2> QED BY <2>1, <2>2, <2>3, <2>4
<1>8. CASE StartClaims(c)
  <2>1. CASE "group" \in open[c]
    <3>1. /\ loop' = [loop EXCEPT ![c] = "claim"] /\ loop[c] = "session"
          /\ UNCHANGED <<hooks, waiter, running, signalled, handling, stopper, open, everReady>>
      BY <1>8, <2>1 DEF StartClaims, At, Goto
    <3>2. TypeOK'
      BY <3>1 DEF TypeOK, hooks, LoopLabels
    <3>3. UnreadyChannel' /\ ReadinessChain'
      BY <3>1 DEF UnreadyChannel, ReadinessChain, TypeOK, hooks
    <3>4. stopper[c] \notin {"client", "done"}
      BY <2>1 DEF StopOrder
    <3>5. StopOrder'
      BY <3>1, <3>4 DEF StopOrder, TypeOK, hooks
    <3> QED BY <3>2, <3>3, <3>5
  <2>2. CASE "group" \notin open[c]
    BY <1>0, <1>8, <2>2, LoopMoves DEF StartClaims, At, Goto, LoopLabels
  <2> QED BY <2>1, <2>2
<1>9. CASE EndSession(c)
  BY <1>0, <1>9, LoopMoves DEF EndSession, At, Goto, LoopLabels
<1>10. CASE MarkUnready(c)
  <2>1. TypeOK'
    BY <1>10 DEF MarkUnready, At, Goto, TypeOK, hooks, WaiterLabels, LoopLabels
  <2>2. UnreadyChannel'
    BY <1>10 DEF MarkUnready, Goto, UnreadyChannel, TypeOK
  <2>3. ReadinessChain'
    BY <1>10 DEF MarkUnready, ReadinessChain, TypeOK, hooks
  <2>4. StopOrder'
    BY <1>10 DEF MarkUnready, Goto, StopOrder, TypeOK, hooks
  <2> QED BY <2>1, <2>2, <2>3, <2>4
<1> QED BY <1>1, <1>2, <1>3, <1>4, <1>5, <1>6, <1>7, <1>8, <1>9, <1>10 DEF LoopStep

LEMMA HandlerInv == ASSUME IInv, NEW c \in Consumers, HandlerCall(c) PROVE IInv'
<1> USE DEF IInv
<1>1. TypeOK'
  BY DEF HandlerCall, EnterHandler, LeaveHandler, At, TypeOK, hooks
<1>2. UnreadyChannel' /\ ReadinessChain' /\ StopOrder'
  BY DEF HandlerCall, EnterHandler, LeaveHandler, hooks,
         UnreadyChannel, ReadinessChain, StopOrder
<1> QED BY <1>1, <1>2

LEMMA StopInv == ASSUME IInv, NEW c \in Consumers, Stop(c) PROVE IInv'
<1> USE DEF IInv
<1>1. /\ UNCHANGED <<hooks, waiter, loop, signalled, handling, everReady>>
      /\ stopper' \in [Consumers -> StopperLabels]
      /\ running' \in [Consumers -> BOOLEAN]
      /\ open' \in [Consumers -> SUBSET Resources]
  <2>1. UNCHANGED <<hooks, waiter, loop, signalled, handling, everReady>>
    BY DEF Stop, ClearRunning, CloseHandler, CloseGroup, LeaveGroup, CloseClient
  <2>2. PICK next \in StopperLabels : stopper' = [stopper EXCEPT ![c] = next]
    BY DEF Stop, ClearRunning, CloseHandler, CloseGroup, LeaveGroup, CloseClient,
           StopperAt, StopperLabels
  <2>3. running' = running \/ running' = [running EXCEPT ![c] = FALSE]
    BY DEF Stop, ClearRunning, CloseHandler, CloseGroup, LeaveGroup, CloseClient
  <2>4. \/ open' = open
        \/ \E r \in Resources : open' = [open EXCEPT ![c] = @ \ {r}]
    BY DEF Stop, ClearRunning, CloseHandler, CloseGroup, LeaveGroup, CloseClient, Resources
  <2>5. /\ stopper \in [Consumers -> StopperLabels]
        /\ running \in [Consumers -> BOOLEAN]
        /\ open \in [Consumers -> SUBSET Resources]
    BY DEF TypeOK
  <2>6. stopper' \in [Consumers -> StopperLabels]
    BY <2>2, <2>5
  <2>7. running' \in [Consumers -> BOOLEAN]
    BY <2>3, <2>5
  <2>8. open' \in [Consumers -> SUBSET Resources]
    BY <2>4, <2>5
  <2> QED BY <2>1, <2>6, <2>7, <2>8
<1>2. TypeOK'
  BY <1>1 DEF TypeOK, hooks
<1>3. UnreadyChannel' /\ ReadinessChain'
  BY <1>1 DEF UnreadyChannel, ReadinessChain, hooks
<1>4. StopOrder'
  <2>1. app \notin {"starting", "running", "stopped"} /\ app' = app
    BY <1>1 DEF Stop, ClearRunning, CloseHandler, CloseGroup, LeaveGroup, CloseClient,
                StopperAt, StopOrder, hooks
  <2>2. CASE ClearRunning(c)
    BY <2>1, <2>2 DEF ClearRunning, StopperAt, StopOrder, TypeOK
  <2>3. CASE CloseHandler(c)
    BY <2>1, <2>3 DEF CloseHandler, StopperAt, StopOrder, TypeOK, Resources
  <2>4. CASE CloseGroup(c)
    BY <2>1, <2>4 DEF CloseGroup, StopperAt, StopOrder, TypeOK, Resources
  <2>5. CASE LeaveGroup(c)
    BY <2>1, <2>5 DEF LeaveGroup, HoldsLock, StopperAt, StopOrder, TypeOK
  <2>6. CASE CloseClient(c)
    BY <2>1, <2>6 DEF CloseClient, StopperAt, StopOrder, TypeOK, Resources
  <2> QED BY <2>2, <2>3, <2>4, <2>5, <2>6 DEF Stop
<1> QED BY <1>2, <1>3, <1>4

LEMMA NextInv == IInv /\ [Next]_vars => IInv'
<1> SUFFICES ASSUME IInv, [Next]_vars PROVE IInv'
  OBVIOUS
<1>1. CASE UNCHANGED vars
  BY <1>1 DEF vars, hooks, IInv, TypeOK, UnreadyChannel, ReadinessChain, StopOrder
<1>2. ASSUME NEW c \in Consumers, ReceiveNil(c) PROVE IInv'
  BY <1>2 DEF ReceiveNil, IInv, TypeOK, UnreadyChannel, ReadinessChain, StopOrder
<1> QED BY <1>1, <1>2, HookInv, WaitInv, LoopInv, HandlerInv, StopInv DEF Next

THEOREM Invariance == Spec => []IInv
  BY InitInv, NextInv, PTL DEF Spec

(* The variables, and the labels of goroutines that belong together. *)
THEOREM TypeCorrect == Spec => []TypeOK
  BY Invariance, PTL DEF IInv

(* Setup never closes an unready channel twice. *)
THEOREM SetupIsSafe == Spec => []SetupNeverPanics
<1>1. IInv => SetupNeverPanics
  BY DEF IInv, UnreadyChannel, SetupNeverPanics, At
<1> QED BY <1>1, Invariance, PTL

(* Readiness is not reported before every consumer had its Setup. *)
THEOREM ReadinessIsTrue == Spec => []ReadyMeansEverySetUp
<1>1. IInv => ReadyMeansEverySetUp
  BY DEF IInv, ReadinessChain, ReadyMeansEverySetUp
<1> QED BY <1>1, Invariance, PTL

(* No claim runs, and no handler is called, once the group is closed. *)
THEOREM CloseIsFinal == Spec => []NoCallAfterClose
<1>1. IInv => NoCallAfterClose
  BY DEF IInv, StopOrder, TypeOK, NoCallAfterClose, At
<1> QED BY <1>1, Invariance, PTL

(* When the stop hook has returned everything is closed and quiet. *)
THEOREM StopIsFinal == Spec => []StoppedMeansReleased
<1>1. IInv => StoppedMeansReleased
  BY DEF IInv, StopOrder, TypeOK, StoppedMeansReleased, At
<1> QED BY <1>1, Invariance, PTL

-----------------------------------------------------------------------------
(* The refinement of ConsumerService *)

(* A claim runs only after Setup, and a started application has started    *)
(* its consumers.                                                          *)
SetUpOrder ==
    /\ \A c \in Consumers : loop[c] \in {"session", "claim"} => everReady[c]
    /\ app # "starting" => start # "none"

LEMMA InitSetUp == Init => SetUpOrder
  BY DEF Init, SetUpOrder

LEMMA NextSetUp == IInv /\ SetUpOrder /\ [Next]_vars => SetUpOrder'
<1> SUFFICES ASSUME IInv, SetUpOrder, [Next]_vars PROVE SetUpOrder'
  OBVIOUS
<1>0. /\ loop \in [Consumers -> LoopLabels]
      /\ everReady \in [Consumers -> BOOLEAN]
  BY DEF IInv, TypeOK
<1>1. CASE Hook
  BY <1>1 DEF Hook, StartHook, Started, StartAll, AllReady, StopHook, Stopped, SetUpOrder
<1>2. ASSUME NEW c \in Consumers, Wait(c) PROVE SetUpOrder'
  BY <1>0, <1>2 DEF Wait, SpawnLoop, ReadUnready, SetUpOrder, hooks
<1>3. ASSUME NEW c \in Consumers, LoopStep(c) PROVE SetUpOrder'
  <2>1. CASE Setup(c)
    BY <1>0, <2>1 DEF Setup, Goto, SetUpOrder, hooks
  <2>2. CASE StartClaims(c)
    BY <1>0, <2>2 DEF StartClaims, At, Goto, SetUpOrder, hooks
  <2>3. CASE ~Setup(c) /\ ~StartClaims(c)
    <3>1. /\ UNCHANGED <<hooks, everReady>>
          /\ \E label \in LoopLabels \ {"session", "claim"} :
                loop' = [loop EXCEPT ![c] = label]
      BY <1>3, <2>3 DEF LoopStep, Begin, Check, Consume, TakeLock, Join, JoinFails,
                        EndSession, MarkUnready, Goto, LoopLabels
    <3> QED BY <1>0, <3>1 DEF SetUpOrder, hooks
  <2> QED BY <2>1, <2>2, <2>3
<1>4. ASSUME NEW c \in Consumers, HandlerCall(c) PROVE SetUpOrder'
  BY <1>4 DEF HandlerCall, EnterHandler, LeaveHandler, SetUpOrder, hooks
<1>5. ASSUME NEW c \in Consumers, Stop(c) PROVE SetUpOrder'
  BY <1>5 DEF Stop, ClearRunning, CloseHandler, CloseGroup, LeaveGroup, CloseClient,
              SetUpOrder, hooks
<1>6. ASSUME NEW c \in Consumers, ReceiveNil(c) PROVE SetUpOrder'
  BY <1>6 DEF ReceiveNil, SetUpOrder
<1>7. CASE UNCHANGED vars
  BY <1>7 DEF vars, hooks, SetUpOrder
<1> QED BY <1>1, <1>2, <1>3, <1>4, <1>5, <1>6, <1>7 DEF Next

ServiceState == IF app \in {"stopping", "stopped"} THEN app
                ELSE IF start = "none" THEN "created" ELSE "started"
SetUpConsumers == {c \in Consumers : everReady[c]}
Serving == {c \in Consumers : stopper[c] \notin {"client", "done"}}
Busy == {c \in Consumers : handling[c]}

LEMMA ServiceInit == Init => Service!Init
  BY DEF Init, Service!Init

(* A step that leaves the five abstract variables alone is a stutter; the  *)
(* others are the hooks, Setup, AllReady, the calls of HandlerFunc and     *)
(* LeaveGroup, which a consumer passes when its claims have returned.      *)
LEMMA ServiceNext ==
    IInv /\ SetUpOrder /\ [Next]_vars => [Service!Next]_(Service!vars)
<1> SUFFICES ASSUME IInv, SetUpOrder, [Next]_vars,
                    ~UNCHANGED <<ServiceState, SetUpConsumers, start = "ready", Serving, Busy>>
             PROVE  Service!Next
  BY DEF Service!vars, ServiceState, SetUpConsumers, Serving, Busy
<1> USE DEF ServiceState, SetUpConsumers, Serving, Busy
<1>0. TypeOK
  BY DEF IInv
<1>1. CASE Hook
  <2>1. CASE StartHook
    BY <2>1 DEF StartHook, Service!Next, Service!Start
  <2>2. CASE Started \/ StartAll
    BY <2>2 DEF Started, StartAll
  <2>3. CASE AllReady
    BY <1>0, <2>3 DEF AllReady, IInv, TypeOK, ReadinessChain, Service!Next, Service!ReportReady
  <2>4. CASE StopHook
    <3>1. UNCHANGED Serving
      BY <2>4 DEF StopHook, IInv, StopOrder
    <3> QED BY <2>4, <3>1 DEF StopHook, SetUpOrder, Service!Next, Service!BeginStop
  <2>5. CASE Stopped
    <3>1. Serving = {}
      BY <2>5 DEF Stopped
    <3> QED BY <2>5, <3>1 DEF Stopped, Service!Next, Service!EndStop
  <2> QED BY <1>1, <2>1, <2>2, <2>3, <2>4, <2>5 DEF Hook
<1>2. ASSUME NEW c \in Consumers, Wait(c) PROVE Service!Next
  BY <1>2 DEF Wait, SpawnLoop, ReadUnready, hooks
<1>3. ASSUME NEW c \in Consumers, LoopStep(c) PROVE Service!Next
  <2>1. CASE Setup(c)
    <3>1. ServiceState # "created"
      BY <1>0, <2>1 DEF Setup, At, TypeOK
    <3>2. SetUpConsumers' = SetUpConsumers \cup {c}
      BY <1>0, <2>1 DEF Setup, TypeOK
    <3>3. UNCHANGED <<ServiceState, start, Serving, Busy>>
      BY <2>1 DEF Setup, hooks
    <3>4. Service!GetReady(c)
      BY <3>1, <3>2, <3>3 DEF Service!GetReady
    <3> QED BY <3>4 DEF Service!Next
  <2>2. CASE ~Setup(c)
    BY <1>3, <2>2 DEF LoopStep, Begin, Check, Consume, TakeLock, Join, JoinFails,
                      StartClaims, EndSession, MarkUnready, hooks
  <2> QED BY <2>1, <2>2
<1>4. ASSUME NEW c \in Consumers, HandlerCall(c) PROVE Service!Next
  <2>1. UNCHANGED <<ServiceState, start, SetUpConsumers, Serving>>
    BY <1>4 DEF HandlerCall, EnterHandler, LeaveHandler, hooks
  <2>2. CASE EnterHandler(c)
    <3>1. Busy' = Busy \cup {c}
      BY <1>0, <2>2 DEF EnterHandler, TypeOK
    <3>2. c \in Serving \cap SetUpConsumers
      BY <2>2 DEF EnterHandler, At, SetUpOrder, IInv, StopOrder
    <3>3. ServiceState # "created"
      BY <1>0, <2>2 DEF EnterHandler, At, TypeOK
    <3>4. Service!Enter(c)
      BY <2>1, <3>1, <3>2, <3>3 DEF Service!Enter
    <3> QED BY <3>4 DEF Service!Next
  <2>3. CASE LeaveHandler(c)
    <3>1. Busy' = Busy \ {c}
      BY <1>0, <2>3 DEF LeaveHandler, TypeOK
    <3>2. Service!Leave(c)
      BY <2>1, <3>1 DEF Service!Leave
    <3> QED BY <3>2 DEF Service!Next
  <2> QED BY <1>4, <2>2, <2>3 DEF HandlerCall
<1>5. ASSUME NEW c \in Consumers, Stop(c) PROVE Service!Next
  <2>1. UNCHANGED <<app, start, SetUpConsumers, Busy>>
    BY <1>5 DEF Stop, ClearRunning, CloseHandler, CloseGroup, LeaveGroup, CloseClient, hooks
  <2>2. stopper \in [Consumers -> StopperLabels]
    BY <1>0 DEF TypeOK
  <2>3. CASE LeaveGroup(c)
    <3>1. c \notin Busy
      BY <1>0, <2>3 DEF LeaveGroup, HoldsLock, TypeOK
    <3>2. Serving' = Serving \ {c}
      BY <2>2, <2>3 DEF LeaveGroup, StopperAt
    <3>3. ServiceState = "stopping"
      BY <1>0, <2>3 DEF LeaveGroup, StopperAt, IInv, StopOrder, TypeOK
    <3>4. Service!Quit(c)
      BY <2>1, <3>1, <3>2, <3>3 DEF Service!Quit
    <3> QED BY <3>4 DEF Service!Next
  <2>4. CASE ~LeaveGroup(c)
    <3>1. \E label, next \in StopperLabels :
             /\ stopper[c] = label /\ stopper' = [stopper EXCEPT ![c] = next]
             /\ label \in {"client", "done"} <=> next \in {"client", "done"}
      BY <1>5, <2>4 DEF Stop, ClearRunning, CloseHandler, CloseGroup, CloseClient,
                        StopperAt, StopperLabels
    <3>2. UNCHANGED Serving
      BY <2>2, <3>1
    <3> QED BY <2>1, <3>2
  <2> QED BY <2>3, <2>4
<1>6. ASSUME NEW c \in Consumers, ReceiveNil(c) PROVE Service!Next
  BY <1>6 DEF ReceiveNil
<1>7. CASE UNCHANGED vars
  BY <1>7 DEF vars, hooks
<1> QED BY <1>1, <1>2, <1>3, <1>4, <1>5, <1>6, <1>7 DEF Next

(* The consumers implement ConsumerService: handlers run only from Start   *)
(* to the return of Stop, and readiness is reported once and truthfully.   *)
THEOREM Refinement == Spec => ImplementsConsumerService
<1>1. Init => Service!Init
  BY ServiceInit
<1>2. IInv /\ SetUpOrder /\ [Next]_vars => [Service!Next]_(Service!vars)
  BY ServiceNext
<1> QED BY <1>1, <1>2, InitSetUp, NextSetUp, Invariance, PTL
        DEF Spec, ImplementsConsumerService, Service!Spec

(* What follows from the refinement: the contract of ConsumerService,      *)
(* proved of it alone.                                                     *)
Promise == INSTANCE ConsumerService_proofs
    WITH service <- IF app \in {"stopping", "stopped"} THEN app
                    ELSE IF start = "none" THEN "created" ELSE "started",
         setUp <- {c \in Consumers : everReady[c]},
         ready <- (start = "ready"),
         serving <- {c \in Consumers : stopper[c] \notin {"client", "done"}},
         busy <- {c \in Consumers : handling[c]}

LEMMA KeepsPromise == Spec => Promise!Spec
<1>1. Service!Init => Promise!Init
  BY DEF Service!Init, Promise!Init
<1>2. [Service!Next]_(Service!vars) => [Promise!Next]_(Promise!vars)
  BY DEF Service!Next, Promise!Next, Service!vars, Promise!vars, Service!Start, Promise!Start,
         Service!ReportReady, Promise!ReportReady, Service!BeginStop, Promise!BeginStop,
         Service!EndStop, Promise!EndStop, Service!GetReady, Promise!GetReady,
         Service!Enter, Promise!Enter, Service!Leave, Promise!Leave, Service!Quit, Promise!Quit
<1> QED BY <1>1, <1>2, Refinement, PTL
        DEF ImplementsConsumerService, Service!Spec, Promise!Spec

(* Goroutines, locks and channels of the consumers keep the contract, and  *)
(* take back neither readiness nor silence.                                *)
THEOREM ContractIsKept == Spec => []Promise!Contract /\ Promise!NothingTakenBack
  BY KeepsPromise, Promise!ContractIsKept, Promise!ForGood, PTL

-----------------------------------------------------------------------------
(* No wake-up is lost, and what is stopped comes nearer to its end *)

(* A session has closed the channel, and until the stop a loop runs on. *)
SessionSignals == \A c \in Consumers : loop[c] \in {"session", "claim"} => signalled[c]
RunsUntilStop ==
    app \in {"starting", "running"} =>
       \A c \in Consumers : /\ loop[c] \notin {"none", "begin"} => running[c]
                           /\ loop[c] # "exited"
BlocksOnOpen == \A c \in Consumers : waiter[c] = "waiting" => ~signalled[c]
Wakeups == SessionSignals /\ RunsUntilStop /\ BlocksOnOpen

LEMMA InitWakeup == Init => Wakeups
  BY DEF Init, Wakeups, SessionSignals, RunsUntilStop, BlocksOnOpen

(* Only ReadUnready makes a waiter wait, and Setup, which closes the       *)
(* channel, wakes it in the same step; only a stopper clears running.      *)
LEMMA NextWakeup == IInv /\ Wakeups /\ [Next]_vars => Wakeups'
<1> SUFFICES ASSUME IInv, Wakeups, [Next]_vars PROVE Wakeups'
  OBVIOUS
<1> USE DEF Wakeups
<1>0. /\ waiter \in [Consumers -> WaiterLabels]
      /\ loop \in [Consumers -> LoopLabels]
      /\ running \in [Consumers -> BOOLEAN]
      /\ signalled \in [Consumers -> BOOLEAN]
  BY DEF IInv, TypeOK
<1>1. CASE Hook
  <2>1. /\ UNCHANGED <<loop, running, signalled>>
        /\ app' \in {"starting", "running"} => app \in {"starting", "running"}
        /\ \A c \in Consumers : waiter'[c] = "waiting" => waiter[c] = "waiting"
    BY <1>1 DEF Hook, StartHook, Started, StartAll, AllReady, StopHook, Stopped
  <2> QED BY <2>1 DEF SessionSignals, RunsUntilStop, BlocksOnOpen
<1>2. ASSUME NEW c \in Consumers, Wait(c) PROVE Wakeups'
  <2>1. UNCHANGED <<app, running, signalled>>
    BY <1>2 DEF Wait, SpawnLoop, ReadUnready, hooks
  <2>2. loop' = loop \/ loop' = [loop EXCEPT ![c] = "begin"]
    BY <1>2 DEF Wait, SpawnLoop, ReadUnready
  <2>3. BlocksOnOpen'
    BY <1>0, <1>2 DEF Wait, SpawnLoop, ReadUnready, BlocksOnOpen
  <2> QED BY <1>0, <2>1, <2>2, <2>3 DEF SessionSignals, RunsUntilStop
<1>3. ASSUME NEW c \in Consumers, LoopStep(c) PROVE Wakeups'
  <2>1. app' = app
    BY <1>3 DEF LoopStep, Begin, Check, Consume, TakeLock, Join, JoinFails, Setup,
                StartClaims, EndSession, MarkUnready, hooks
  <2> USE <1>0, <2>1 DEF SessionSignals, RunsUntilStop, BlocksOnOpen, At, Goto
  <2>2. CASE Begin(c)
    BY <2>2 DEF Begin
  <2>3. CASE Check(c)
    BY <2>3 DEF Check
  <2>4. CASE Consume(c) \/ TakeLock(c) \/ Join(c) \/ JoinFails(c)
    BY <2>4 DEF Consume, TakeLock, Join, JoinFails
  <2>5. CASE Setup(c)
    BY <2>5 DEF Setup
  <2>6. CASE StartClaims(c) \/ EndSession(c)
    BY <2>6 DEF StartClaims, EndSession
  <2>7. CASE MarkUnready(c)
    BY <2>7 DEF MarkUnready
  <2> QED BY <1>3, <2>2, <2>3, <2>4, <2>5, <2>6, <2>7 DEF LoopStep
<1>4. ASSUME NEW c \in Consumers, HandlerCall(c) PROVE Wakeups'
  BY <1>4 DEF HandlerCall, EnterHandler, LeaveHandler, hooks,
              SessionSignals, RunsUntilStop, BlocksOnOpen
<1>5. ASSUME NEW c \in Consumers, Stop(c) PROVE Wakeups'
  <2>1. app \notin {"starting", "running"}
    BY <1>5 DEF Stop, ClearRunning, CloseHandler, CloseGroup, LeaveGroup, CloseClient,
                StopperAt, IInv, StopOrder
  <2>2. UNCHANGED <<app, waiter, loop, signalled>>
    BY <1>5 DEF Stop, ClearRunning, CloseHandler, CloseGroup, LeaveGroup, CloseClient, hooks
  <2> QED BY <2>1, <2>2 DEF SessionSignals, RunsUntilStop, BlocksOnOpen
<1>6. ASSUME NEW c \in Consumers, ReceiveNil(c) PROVE Wakeups'
  BY <1>6 DEF ReceiveNil, SessionSignals, RunsUntilStop, BlocksOnOpen
<1>7. CASE UNCHANGED vars
  BY <1>7 DEF vars, hooks, SessionSignals, RunsUntilStop, BlocksOnOpen
<1> QED BY <1>1, <1>2, <1>3, <1>4, <1>5, <1>6, <1>7 DEF Next

(* A waiter is never blocked on a channel that is closed already, and      *)
(* until the stop its consumer is on the way to wake or to orphan it: the  *)
(* part of StartProgress that fairness has no share in.                    *)
THEOREM WakeupsArrive == Spec => []NoLostWakeup
<1>1. IInv /\ Wakeups => NoLostWakeup
  <2> SUFFICES ASSUME IInv, Wakeups, NEW c \in Consumers, waiter[c] = "waiting"
               PROVE  /\ ~signalled[c]
                      /\ app \in {"starting", "running"} =>
                            loop[c] \in {"begin", "check", "consume", "lock", "join",
                                         "setup", "unready"}
    BY DEF NoLostWakeup
  <2>1. loop[c] \in LoopLabels \ {"none"}
    BY DEF IInv, TypeOK
  <2> QED BY <2>1 DEF Wakeups, SessionSignals, RunsUntilStop, BlocksOnOpen, LoopLabels
<1> QED BY <1>1, InitWakeup, NextWakeup, Invariance, PTL DEF Spec

(* Only the spawning of a loop, its own steps and those of a stopper       *)
(* change a loop or its running flag.                                      *)
LEMMA QuietSteps ==
    ASSUME [Next]_vars,
           \A d \in Consumers : ~SpawnLoop(d) /\ ~LoopStep(d) /\ ~Stop(d)
    PROVE  UNCHANGED <<loop, running>>
<1>1. CASE Hook
  BY <1>1 DEF Hook, StartHook, Started, StartAll, AllReady, StopHook, Stopped
<1>2. ASSUME NEW d \in Consumers, ReadUnready(d) \/ HandlerCall(d) \/ ReceiveNil(d)
      PROVE  UNCHANGED <<loop, running>>
  BY <1>2 DEF ReadUnready, HandlerCall, EnterHandler, LeaveHandler, ReceiveNil
<1>3. CASE UNCHANGED vars
  BY <1>3 DEF vars
<1> QED BY <1>1, <1>2, <1>3 DEF Next, Wait

(* Without the group Consume returns at once, and from each of its labels  *)
(* the loop goes on to one nearer to the release of the lock.              *)
LEMMA UnlockStep ==
    ASSUME TypeOK, NEW c \in Consumers, [Next]_vars, "group" \notin open[c]
    PROVE  ToUnlock(c)' <= ToUnlock(c)
<1>0. loop \in [Consumers -> LoopLabels]
  BY DEF TypeOK
<1>1. ASSUME NEW d \in Consumers, SpawnLoop(d) PROVE ToUnlock(c)' <= ToUnlock(c)
  <2>1. loop[d] = "none" /\ loop' = [loop EXCEPT ![d] = "begin"]
    BY <1>1 DEF SpawnLoop, TypeOK
  <2> QED BY <1>0, <2>1 DEF ToUnlock, At
<1>2. ASSUME NEW d \in Consumers, Stop(d) PROVE ToUnlock(c)' <= ToUnlock(c)
  <2>1. loop' = loop
    BY <1>2 DEF Stop, ClearRunning, CloseHandler, CloseGroup, LeaveGroup, CloseClient
  <2> QED BY <1>0, <2>1 DEF ToUnlock, At
<1>3. ASSUME NEW d \in Consumers, LoopStep(d), d # c PROVE ToUnlock(c)' <= ToUnlock(c)
  <2>1. loop'[c] = loop[c]
    BY <1>0, <1>3 DEF LoopStep, Begin, Check, Consume, TakeLock, Join, JoinFails, Setup,
                      StartClaims, EndSession, MarkUnready, Goto
  <2> QED BY <2>1 DEF ToUnlock, At
<1>4. ASSUME LoopStep(c) PROVE ToUnlock(c)' <= ToUnlock(c)
  <2> USE <1>0 DEF At, Goto, ToUnlock
  <2>1. CASE Begin(c) \/ Check(c) \/ MarkUnready(c)
    BY <2>1 DEF Begin, Check, MarkUnready
  <2>2. CASE Consume(c)
    BY <2>2 DEF Consume
  <2>3. CASE TakeLock(c) \/ Join(c) \/ JoinFails(c)
    BY <2>3 DEF TakeLock, Join, JoinFails
  <2>4. CASE Setup(c) \/ StartClaims(c) \/ EndSession(c)
    BY <2>4 DEF Setup, StartClaims, EndSession
  <2> QED BY <1>4, <2>1, <2>2, <2>3, <2>4 DEF LoopStep
<1>5. CASE UNCHANGED <<loop, running>>
  BY <1>5 DEF ToUnlock, At
<1> QED BY <1>1, <1>2, <1>3, <1>4, <1>5, QuietSteps

(* Once its group is closed a consumer only comes nearer to the release of *)
(* the lock that Close waits for.  This is the part of StopReturns that    *)
(* fairness has no share in.                                               *)
THEOREM CloseGetsTheLock == Spec => ClosedGroupIsLeft
<1>1. TypeOK /\ [Next]_vars =>
         \A c \in Consumers : "group" \notin open[c] => ToUnlock(c)' <= ToUnlock(c)
  BY UnlockStep
<1> QED BY <1>1, TypeCorrect, PTL DEF Spec, ClosedGroupIsLeft

(* A consumer that had its Setup has set its running flag long ago. *)
BegunBeforeReady ==
    \A c \in Consumers : everReady[c] => loop[c] \notin {"none", "begin"}

LEMMA InitBegun == Init => BegunBeforeReady
  BY DEF Init, BegunBeforeReady

LEMMA NextBegun == TypeOK /\ BegunBeforeReady /\ [Next]_vars => BegunBeforeReady'
<1> SUFFICES ASSUME TypeOK, BegunBeforeReady, [Next]_vars PROVE BegunBeforeReady'
  OBVIOUS
<1>0. loop \in [Consumers -> LoopLabels] /\ everReady \in [Consumers -> BOOLEAN]
  BY DEF TypeOK
<1>1. CASE Hook
  BY <1>1 DEF Hook, StartHook, Started, StartAll, AllReady, StopHook, Stopped, BegunBeforeReady
<1>2. ASSUME NEW c \in Consumers, Wait(c) PROVE BegunBeforeReady'
  <2>1. CASE SpawnLoop(c)
    <3>1. ~everReady[c]
      BY <2>1 DEF SpawnLoop, TypeOK, BegunBeforeReady
    <3> QED BY <1>0, <2>1, <3>1 DEF SpawnLoop, BegunBeforeReady
  <2>2. CASE ReadUnready(c)
    BY <2>2 DEF ReadUnready, BegunBeforeReady
  <2> QED BY <1>2, <2>1, <2>2 DEF Wait
<1>3. ASSUME NEW c \in Consumers, LoopStep(c) PROVE BegunBeforeReady'
  <2>1. \E label \in LoopLabels \ {"none", "begin"} : loop' = [loop EXCEPT ![c] = label]
    BY <1>3 DEF LoopStep, Begin, Check, Consume, TakeLock, Join, JoinFails, Setup,
                StartClaims, EndSession, MarkUnready, Goto, LoopLabels
  <2>2. everReady' = everReady \/ everReady' = [everReady EXCEPT ![c] = TRUE]
    BY <1>3 DEF LoopStep, Begin, Check, Consume, TakeLock, Join, JoinFails, Setup,
                StartClaims, EndSession, MarkUnready
  <2> QED BY <1>0, <2>1, <2>2 DEF BegunBeforeReady
<1>4. ASSUME NEW c \in Consumers, HandlerCall(c) PROVE BegunBeforeReady'
  BY <1>4 DEF HandlerCall, EnterHandler, LeaveHandler, BegunBeforeReady
<1>5. ASSUME NEW c \in Consumers, Stop(c) PROVE BegunBeforeReady'
  BY <1>5 DEF Stop, ClearRunning, CloseHandler, CloseGroup, LeaveGroup, CloseClient,
              BegunBeforeReady
<1>6. ASSUME NEW c \in Consumers, ReceiveNil(c) PROVE BegunBeforeReady'
  BY <1>6 DEF ReceiveNil, BegunBeforeReady
<1>7. CASE UNCHANGED vars
  BY <1>7 DEF vars, BegunBeforeReady
<1> QED BY <1>1, <1>2, <1>3, <1>4, <1>5, <1>6, <1>7 DEF Next

LEMMA WindDownStep ==
    ASSUME TypeOK, BegunBeforeReady, [Next]_vars,
           NEW c \in Consumers, everReady[c], ~running[c]
    PROVE  ~running'[c] /\ ToExit(c)' <= ToExit(c)
<1> DEFINE Down == ~running'[c] /\ ToExit(c)' <= ToExit(c)
<1>0. /\ loop \in [Consumers -> LoopLabels] /\ running \in [Consumers -> BOOLEAN]
      /\ loop[c] \notin {"none", "begin"}
  BY DEF TypeOK, BegunBeforeReady
<1>1. ASSUME NEW d \in Consumers, SpawnLoop(d) PROVE Down
  <2>1. loop[d] = "none" /\ loop' = [loop EXCEPT ![d] = "begin"] /\ running' = running
    BY <1>1 DEF SpawnLoop, TypeOK
  <2> QED BY <1>0, <2>1 DEF ToExit, At
<1>2. ASSUME NEW d \in Consumers, Stop(d) PROVE Down
  <2>1. loop' = loop /\ (running' = running \/ running' = [running EXCEPT ![d] = FALSE])
    BY <1>2 DEF Stop, ClearRunning, CloseHandler, CloseGroup, LeaveGroup, CloseClient
  <2> QED BY <1>0, <2>1 DEF ToExit, At
<1>3. ASSUME NEW d \in Consumers, LoopStep(d), d # c PROVE Down
  <2>1. loop'[c] = loop[c] /\ running'[c] = running[c]
    BY <1>0, <1>3 DEF LoopStep, Begin, Check, Consume, TakeLock, Join, JoinFails, Setup,
                      StartClaims, EndSession, MarkUnready, Goto
  <2> QED BY <2>1 DEF ToExit, At
<1>4. ASSUME LoopStep(c) PROVE Down
  <2> USE <1>0 DEF At, Goto, ToExit
  <2>1. CASE Begin(c)
    BY <2>1 DEF Begin
  <2>2. CASE Check(c)
    BY <2>2 DEF Check
  <2>3. CASE Consume(c)
    BY <2>3 DEF Consume
  <2>4. CASE TakeLock(c) \/ Join(c) \/ JoinFails(c)
    BY <2>4 DEF TakeLock, Join, JoinFails
  <2>5. CASE Setup(c) \/ EndSession(c) \/ MarkUnready(c)
    BY <2>5 DEF Setup, EndSession, MarkUnready
  <2>6. CASE StartClaims(c)
    BY <2>6 DEF StartClaims
  <2> QED BY <1>4, <2>1, <2>2, <2>3, <2>4, <2>5, <2>6 DEF LoopStep
<1>5. CASE UNCHANGED <<loop, running>>
  BY <1>5 DEF ToExit, At
<1> QED BY <1>1, <1>2, <1>3, <1>4, <1>5, QuietSteps

(* A consumer that had its Setup and was told to stop never runs on: the   *)
(* flag stays cleared and each step of its loop brings it nearer to its    *)
(* end.  This is the part of LoopEndsOnceReady that fairness has no share  *)
(* in.                                                                     *)
THEOREM StoppedLoopsEnd == Spec => LoopWindsDown
<1>1. TypeOK /\ BegunBeforeReady /\ [Next]_vars =>
         \A c \in Consumers : everReady[c] /\ ~running[c] =>
            ~running'[c] /\ ToExit(c)' <= ToExit(c)
  BY WindDownStep
<1> QED BY <1>1, InitBegun, NextBegun, TypeCorrect, PTL DEF Spec, LoopWindsDown

-----------------------------------------------------------------------------
(* Each consumer as if it were alone *)

(* The state of one consumer, and each step as it sees it. *)
LEMMA AloneInit == ASSUME NEW c \in Consumers, Init PROVE Alone(c)!Init
  BY DEF Init, Alone!Init, Only, Resources, Alone!Resources

(* A step of another consumer is none of c; the one that ends the process  *)
(* only leaves c without a next one.                                       *)
LEMMA OthersStutter ==
    ASSUME TypeOK, NEW c \in Consumers, NEW d \in Consumers, c # d,
           Wait(d) \/ LoopStep(d) \/ HandlerCall(d) \/ Stop(d)
    PROVE  UNCHANGED Alone(c)!vars
<1>1. UNCHANGED hooks
  BY DEF Wait, SpawnLoop, ReadUnready, LoopStep, Begin, Check, Consume, TakeLock, Join,
         JoinFails, Setup, StartClaims, EndSession, MarkUnready, HandlerCall, EnterHandler,
         LeaveHandler, Stop, ClearRunning, CloseHandler, CloseGroup, LeaveGroup, CloseClient
<1>2. ASSUME NEW e \in Consumers \ {d}
      PROVE  /\ waiter'[e] = waiter[e] /\ loop'[e] = loop[e] /\ running'[e] = running[e]
             /\ signalled'[e] = signalled[e] /\ handling'[e] = handling[e]
             /\ stopper'[e] = stopper[e] /\ open'[e] = open[e] /\ everReady'[e] = everReady[e]
  <2>1. CASE Wait(d)
    BY <2>1 DEF Wait, SpawnLoop, ReadUnready, TypeOK
  <2>2. CASE LoopStep(d)
    BY <2>2 DEF LoopStep, Begin, Check, Consume, TakeLock, Join, JoinFails, Setup,
                StartClaims, EndSession, MarkUnready, Goto, TypeOK
  <2>3. CASE HandlerCall(d)
    BY <2>3 DEF HandlerCall, EnterHandler, LeaveHandler, TypeOK
  <2>4. CASE Stop(d)
    BY <2>4 DEF Stop, ClearRunning, CloseHandler, CloseGroup, LeaveGroup, CloseClient,
                StopperAt, TypeOK
  <2> QED BY <2>1, <2>2, <2>3, <2>4
<1> QED BY <1>1, <1>2 DEF Alone!vars, Alone!hooks, hooks, Only

LEMMA OthersPanic ==
    ASSUME Alive, NEW c \in Consumers, NEW d \in Consumers, c # d, ReceiveNil(d)
    PROVE  UNCHANGED Alone(c)!vars
<1>1. panicked' \cap {c} = panicked \cap {c}
  BY DEF Alive, ReceiveNil
<1> QED BY <1>1 DEF ReceiveNil, Alone!vars, Alone!hooks, Only

(* StartAll and StopHook act on all consumers, AllReady and Stopped wait   *)
(* for all of them: for c too.                                             *)
LEMMA AloneHook ==
    ASSUME TypeOK, NEW c \in Consumers, Hook PROVE Alone(c)!Hook
<1> USE DEF Alone!Hook
<1>1. CASE StartHook
  BY <1>1 DEF StartHook, Alone!StartHook
<1>2. CASE Started
  BY <1>2 DEF Started, Alone!Started
<1>3. CASE StartAll
  BY <1>3 DEF StartAll, Alone!StartAll, Only
<1>4. CASE AllReady
  BY <1>4 DEF AllReady, Alone!AllReady, Only
<1>5. CASE StopHook
  BY <1>5 DEF StopHook, Alone!StopHook, Only
<1>6. CASE Stopped
  BY <1>6 DEF Stopped, Alone!Stopped, Only
<1> QED BY <1>1, <1>2, <1>3, <1>4, <1>5, <1>6 DEF Hook

(* What c does by itself. *)
LEMMA AloneSteps ==
    ASSUME TypeOK, NEW c \in Consumers
    PROVE  /\ Wait(c) => Alone(c)!Wait(c)
           /\ LoopStep(c) => Alone(c)!LoopStep(c)
           /\ HandlerCall(c) => Alone(c)!HandlerCall(c)
           /\ Stop(c) => Alone(c)!Stop(c)
           /\ ReceiveNil(c) => Alone(c)!ReceiveNil(c)
<1>1. Wait(c) => Alone(c)!Wait(c)
  <2>1. ASSUME SpawnLoop(c) PROVE Alone(c)!SpawnLoop(c)
    BY <2>1 DEF SpawnLoop, Alone!SpawnLoop, TypeOK, hooks, Alone!hooks, Only
  <2>2. ASSUME ReadUnready(c) PROVE Alone(c)!ReadUnready(c)
    BY <2>2 DEF ReadUnready, Alone!ReadUnready, TypeOK, hooks, Alone!hooks, Only
  <2> QED BY <2>1, <2>2 DEF Wait, Alone!Wait
<1>2. LoopStep(c) => Alone(c)!LoopStep(c)
  <2> USE DEF At, Goto, Alone!At, Alone!Goto, TypeOK, hooks, Alone!hooks, Only
  <2>1. ASSUME Begin(c) PROVE Alone(c)!Begin(c)
    BY <2>1 DEF Begin, Alone!Begin
  <2>2. ASSUME Check(c) PROVE Alone(c)!Check(c)
    BY <2>2 DEF Check, Alone!Check
  <2>3. ASSUME Consume(c) PROVE Alone(c)!Consume(c)
    BY <2>3 DEF Consume, Alone!Consume
  <2>4. ASSUME TakeLock(c) PROVE Alone(c)!TakeLock(c)
    BY <2>4 DEF TakeLock, Alone!TakeLock
  <2>5. ASSUME Join(c) PROVE Alone(c)!Join(c)
    BY <2>5 DEF Join, Alone!Join
  <2>6. ASSUME JoinFails(c) PROVE Alone(c)!JoinFails(c)
    BY <2>6 DEF JoinFails, Alone!JoinFails
  <2>7. ASSUME Setup(c) PROVE Alone(c)!Setup(c)
    BY <2>7 DEF Setup, Alone!Setup
  <2>8. ASSUME StartClaims(c) PROVE Alone(c)!StartClaims(c)
    BY <2>8 DEF StartClaims, Alone!StartClaims
  <2>9. ASSUME EndSession(c) PROVE Alone(c)!EndSession(c)
    BY <2>9 DEF EndSession, Alone!EndSession
  <2>10. ASSUME MarkUnready(c) PROVE Alone(c)!MarkUnready(c)
    BY <2>10 DEF MarkUnready, Alone!MarkUnready
  <2> QED BY <2>1, <2>2, <2>3, <2>4, <2>5, <2>6, <2>7, <2>8, <2>9, <2>10
          DEF LoopStep, Alone!LoopStep
<1>3. HandlerCall(c) => Alone(c)!HandlerCall(c)
  BY DEF HandlerCall, Alone!HandlerCall, EnterHandler, Alone!EnterHandler, LeaveHandler,
     Alone!LeaveHandler, At, Alone!At, TypeOK, hooks, Alone!hooks, Only
<1>4. Stop(c) => Alone(c)!Stop(c)
  <2> USE DEF StopperAt, Alone!StopperAt, TypeOK, hooks, Alone!hooks, Only
  <2>1. ASSUME ClearRunning(c) PROVE Alone(c)!ClearRunning(c)
    BY <2>1 DEF ClearRunning, Alone!ClearRunning
  <2>2. ASSUME CloseHandler(c) PROVE Alone(c)!CloseHandler(c)
    BY <2>2 DEF CloseHandler, Alone!CloseHandler
  <2>3. ASSUME CloseGroup(c) PROVE Alone(c)!CloseGroup(c)
    BY <2>3 DEF CloseGroup, Alone!CloseGroup
  <2>4. ASSUME LeaveGroup(c) PROVE Alone(c)!LeaveGroup(c)
    BY <2>4 DEF LeaveGroup, Alone!LeaveGroup, HoldsLock, Alone!HoldsLock
  <2>5. ASSUME CloseClient(c) PROVE Alone(c)!CloseClient(c)
    BY <2>5 DEF CloseClient, Alone!CloseClient
  <2> QED BY <2>1, <2>2, <2>3, <2>4, <2>5 DEF Stop, Alone!Stop
<1>5. ReceiveNil(c) => Alone(c)!ReceiveNil(c)
  BY DEF ReceiveNil, Alone!ReceiveNil, At, Alone!At, Only
<1> QED BY <1>1, <1>2, <1>3, <1>4, <1>5

LEMMA AloneNext ==
    TypeOK /\ [Next]_vars => \A c \in Consumers : [Alone(c)!Next]_(Alone(c)!vars)
<1> SUFFICES ASSUME TypeOK, [Next]_vars, NEW c \in Consumers
             PROVE  [Alone(c)!Next]_(Alone(c)!vars)
  OBVIOUS
<1>1. CASE UNCHANGED vars
  BY <1>1 DEF vars, hooks, Alone!vars, Alone!hooks, Only
<1>2. CASE Next
  <2>0. Alive /\ Alone(c)!Alive
    BY <1>2 DEF Next, Alive, Alone!Alive
  <2>1. CASE Hook
    BY <2>0, <2>1, AloneHook DEF Alone!Next
  <2>2. ASSUME NEW d \in Consumers,
               Wait(d) \/ LoopStep(d) \/ HandlerCall(d) \/ ReceiveNil(d) \/ Stop(d)
        PROVE  [Alone(c)!Next]_(Alone(c)!vars)
    <3>1. CASE d = c
      <4>1. \/ Alone(c)!Wait(c) \/ Alone(c)!LoopStep(c) \/ Alone(c)!HandlerCall(c)
            \/ Alone(c)!ReceiveNil(c) \/ Alone(c)!Stop(c)
        BY <2>2, <3>1, AloneSteps
      <4> QED BY <2>0, <4>1 DEF Alone!Next
    <3>2. CASE d # c
      BY <2>0, <2>2, <3>2, OthersStutter, OthersPanic
    <3> QED BY <3>1, <3>2
  <2> QED BY <1>2, <2>1, <2>2 DEF Next
<1> QED BY <1>1, <1>2

(* An application with many consumers is, to each of them, an application  *)
(* with that one: no order of their goroutines shows one the others.       *)
THEOREM OneConsumerAtATime == Spec => EachConsumerAlone
<1>1. Init => \A c \in Consumers : Alone(c)!Init
  BY AloneInit
<1> QED BY <1>1, AloneNext, TypeCorrect, PTL DEF Spec, EachConsumerAlone

(* The same for a given consumer, as the specification of an application   *)
(* that has no other: every safety property of one consumer that the runs  *)
(* check with one, or with two, carries over to any number of them.        *)
THEOREM EachImplementsSole == ASSUME NEW CONSTANT c \in Consumers PROVE Spec => Alone(c)!Spec
<1>1. Init => Alone(c)!Init
  BY AloneInit
<1>2. TypeOK /\ [Next]_vars => [Alone(c)!Next]_(Alone(c)!vars)
  BY AloneNext
<1> QED BY <1>1, <1>2, TypeCorrect, PTL DEF Spec, Alone!Spec
=============================================================================
