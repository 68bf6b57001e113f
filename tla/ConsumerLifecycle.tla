-------------------------- MODULE ConsumerLifecycle --------------------------
(***************************************************************************)
(* Starting, readiness and stopping of the consumers: the fx hooks of      *)
(* kafka.go, SaramaConsumers.Start and Stop (kafka/impl/sarama_consumers   *)
(* .go), the Consume loop and Stop of each SaramaConsumer (kafka/impl/     *)
(* sarama_consumer.go), and the unready channel of its ConsumerGroup-      *)
(* Handler, which Setup closes and MarkUnready replaces.                   *)
(*                                                                         *)
(* Each consumer has three goroutines: its loop (Start), the one that      *)
(* waits for its readiness, and from the stop hook on the one that stops   *)
(* it.  The consumer group of sarama is external: Consume looks at its     *)
(* closed channel, takes its lock, joins, calls Setup, runs the claims and *)
(* releases the lock; Close closes the channel and needs the lock to leave.*)
(* When a session ends, sarama closes the messages of its claims: a claim  *)
(* that takes nil from them panics, and the process is gone.               *)
(***************************************************************************)
EXTENDS Integers, FiniteSets

CONSTANT Consumers   \* keys of SaramaConsumers.consumers

ASSUME ConsumersAssumption == Consumers # {} /\ IsFiniteSet(Consumers)

VARIABLES
    waitsForReady,  \* whether the application has KafkaConsumerReadyWaitOpt
    app,            \* the fx application: "starting", "running", "stopping", "stopped"
    start,          \* SaramaConsumers.Start: "none", "spawned", "waiting", "ready"
    waiter,         \* waiter[c]: the goroutine that waits for the readiness of c
    loop,           \* loop[c]: next step of SaramaConsumer.Start
    running,        \* running[c]: the field of SaramaConsumer
    signalled,      \* signalled[c]: the current unready channel of c is closed
    handling,       \* handling[c]: a claim of c is inside HandlerFunc
    stopper,        \* stopper[c]: next step of SaramaConsumer.Stop
    open,           \* open[c]: which of handler, group and client is not closed
    everReady,      \* history: everReady[c] iff Setup was called for c
    panicked        \* the consumer whose claim ended the process, as a set

hooks == <<waitsForReady, app, start, panicked>>
vars == <<hooks, waiter, loop, running, signalled, handling, stopper, open, everReady>>

(* "waiting": blocked on the current unready channel; "orphaned": blocked  *)
(* on one that MarkUnready has replaced while it was open.                 *)
WaiterLabels  == {"none", "spawned", "reading", "waiting", "orphaned", "done"}
LoopLabels    == {"none", "begin", "check", "consume", "lock", "join", "setup",
                  "session", "claim", "unready", "exited"}
StopperLabels == {"none", "flag", "handler", "close", "leave", "client", "done"}
Resources     == {"handler", "group", "client"}

(* Type invariant, with the labels of goroutines that go together: there   *)
(* is a loop once the waiter has spawned it, a waiter once Start runs, and *)
(* HandlerFunc runs only under a claim.                                    *)
TypeOK ==
    /\ waitsForReady \in BOOLEAN
    /\ app \in {"starting", "running", "stopping", "stopped"}
    /\ start \in {"none", "spawned", "waiting", "ready"}
    /\ waiter \in [Consumers -> WaiterLabels]
    /\ loop \in [Consumers -> LoopLabels]
    /\ running \in [Consumers -> BOOLEAN]
    /\ signalled \in [Consumers -> BOOLEAN]
    /\ handling \in [Consumers -> BOOLEAN]
    /\ stopper \in [Consumers -> StopperLabels]
    /\ open \in [Consumers -> SUBSET Resources]
    /\ everReady \in [Consumers -> BOOLEAN]
    /\ panicked \subseteq Consumers
    /\ \A c \in Consumers :
          /\ waiter[c] = "none" <=> start \in {"none", "spawned"}
          /\ waiter[c] \in {"none", "spawned"} <=> loop[c] = "none"
          /\ handling[c] => loop[c] = "claim"

Init ==
    /\ waitsForReady \in BOOLEAN
    /\ app = "starting"
    /\ start = "none"
    /\ waiter = [c \in Consumers |-> "none"]
    /\ loop = [c \in Consumers |-> "none"]
    /\ running = [c \in Consumers |-> FALSE]
    /\ signalled = [c \in Consumers |-> FALSE]
    /\ handling = [c \in Consumers |-> FALSE]
    /\ stopper = [c \in Consumers |-> "none"]
    /\ open = [c \in Consumers |-> Resources]
    /\ everReady = [c \in Consumers |-> FALSE]
    /\ panicked = {}

(* The process runs. *)
Alive == panicked = {}

-----------------------------------------------------------------------------
(* The fx hooks, and SaramaConsumers.Start and Stop *)

(* OnStartConsumerHook: go consumer.Start(golibCtx) *)
StartHook ==
    /\ app = "starting" /\ start = "none"
    /\ start' = "spawned"
    /\ UNCHANGED <<waitsForReady, app, waiter, loop, running, signalled, handling, stopper, open, everReady, panicked>>

(* The hooks have returned; the one of KafkaConsumerReadyWaitOpt returns   *)
(* when the unready channel of SaramaConsumers is closed.                  *)
Started ==
    /\ app = "starting" /\ start # "none"
    /\ waitsForReady => start = "ready"
    /\ app' = "running"
    /\ UNCHANGED <<waitsForReady, start, waiter, loop, running, signalled, handling, stopper, open, everReady, panicked>>

(* SaramaConsumers.Start spawns a waiter for each consumer ... *)
StartAll ==
    /\ start = "spawned"
    /\ start' = "waiting"
    /\ waiter' = [c \in Consumers |-> "spawned"]
    /\ UNCHANGED <<waitsForReady, app, loop, running, signalled, handling, stopper, open, everReady, panicked>>

(* ... and closes its own unready channel when all of them are done. *)
AllReady ==
    /\ start = "waiting"
    /\ \A c \in Consumers : waiter[c] = "done"
    /\ start' = "ready"
    /\ UNCHANGED <<waitsForReady, app, waiter, loop, running, signalled, handling, stopper, open, everReady, panicked>>

(* OnStopConsumerHook: SaramaConsumers.Stop spawns one goroutine each ... *)
StopHook ==
    /\ app = "running"
    /\ app' = "stopping"
    /\ stopper' = [c \in Consumers |-> "flag"]
    /\ UNCHANGED <<waitsForReady, start, waiter, loop, running, signalled, handling, open, everReady, panicked>>

(* Faulty variant of Stopped: Stop does not wait for its goroutines. *)
StoppedAtOnce ==
    /\ app = "stopping"
    /\ app' = "stopped"
    /\ UNCHANGED <<waitsForReady, start, waiter, loop, running, signalled, handling, stopper, open, everReady, panicked>>

(* ... and returns when all of them are done. *)
Stopped ==
    /\ app = "stopping"
    /\ \A c \in Consumers : stopper[c] = "done"
    /\ app' = "stopped"
    /\ UNCHANGED <<waitsForReady, start, waiter, loop, running, signalled, handling, stopper, open, everReady, panicked>>

-----------------------------------------------------------------------------
(* The waiter of a consumer *)

(* go consumer.Start(ctx) *)
SpawnLoop(c) ==
    /\ waiter[c] = "spawned"
    /\ waiter' = [waiter EXCEPT ![c] = "reading"]
    /\ loop' = [loop EXCEPT ![c] = "begin"]
    /\ UNCHANGED <<hooks, running, signalled, handling, stopper, open, everReady>>

(* consumer.WaitForReady() reads the field; the receive on a closed        *)
(* channel returns at once.                                                *)
ReadUnready(c) ==
    /\ waiter[c] = "reading"
    /\ waiter' = [waiter EXCEPT ![c] = IF signalled[c] THEN "done" ELSE "waiting"]
    /\ UNCHANGED <<hooks, loop, running, signalled, handling, stopper, open, everReady>>

-----------------------------------------------------------------------------
(* The loop of a consumer *)

At(c, label) == loop[c] = label
Goto(c, label) == loop' = [loop EXCEPT ![c] = label]

(* Consume holds the lock of the consumer group from here to its return. *)
HoldsLock(c) == loop[c] \in {"join", "setup", "session", "claim"}

Begin(c) ==
    /\ At(c, "begin")
    /\ running' = [running EXCEPT ![c] = TRUE]
    /\ Goto(c, "check")
    /\ UNCHANGED <<hooks, waiter, signalled, handling, stopper, open, everReady>>

(* for c.running *)
Check(c) ==
    /\ At(c, "check")
    /\ Goto(c, IF running[c] THEN "consume" ELSE "exited")
    /\ UNCHANGED <<hooks, waiter, running, signalled, handling, stopper, open, everReady>>

(* Consume returns ErrClosedConsumerGroup when the group is closed. *)
Consume(c) ==
    /\ At(c, "consume")
    /\ Goto(c, IF "group" \in open[c] THEN "lock" ELSE "unready")
    /\ UNCHANGED <<hooks, waiter, running, signalled, handling, stopper, open, everReady>>

TakeLock(c) ==
    /\ At(c, "lock")
    /\ Goto(c, "join")
    /\ UNCHANGED <<hooks, waiter, running, signalled, handling, stopper, open, everReady>>

(* The group is joined and the session created, which needs the client ... *)
Join(c) ==
    /\ At(c, "join")
    /\ "client" \in open[c]
    /\ Goto(c, "setup")
    /\ UNCHANGED <<hooks, waiter, running, signalled, handling, stopper, open, everReady>>

(* ... or a broker, the network or a closed client makes Consume return an *)
(* error before it has called Setup.                                       *)
JoinFails(c) ==
    /\ At(c, "join")
    /\ Goto(c, "unready")
    /\ UNCHANGED <<hooks, waiter, running, signalled, handling, stopper, open, everReady>>

(* Faulty variant of Setup: the channel is not closed. *)
SetupWithoutClose(c) ==
    /\ At(c, "setup")
    /\ everReady' = [everReady EXCEPT ![c] = TRUE]
    /\ Goto(c, "session")
    /\ UNCHANGED <<hooks, waiter, running, signalled, handling, stopper, open>>

(* close(cg.unready), which panics when the channel is closed already      *)
(* (SetupNeverPanics); it wakes the waiter that is blocked on the channel. *)
Setup(c) ==
    /\ At(c, "setup")
    /\ signalled' = [signalled EXCEPT ![c] = TRUE]
    /\ everReady' = [everReady EXCEPT ![c] = TRUE]
    /\ waiter' = [waiter EXCEPT ![c] = IF @ = "waiting" THEN "done" ELSE @]
    /\ Goto(c, "session")
    /\ UNCHANGED <<hooks, running, handling, stopper, open>>

(* The claims are started; they return at once when the group is closed. *)
StartClaims(c) ==
    /\ At(c, "session")
    /\ Goto(c, IF "group" \in open[c] THEN "claim" ELSE "unready")
    /\ UNCHANGED <<hooks, waiter, running, signalled, handling, stopper, open, everReady>>

(* A claim takes a message; it may do so after the group was closed. *)
EnterHandler(c) ==
    /\ At(c, "claim") /\ ~handling[c]
    /\ handling' = [handling EXCEPT ![c] = TRUE]
    /\ UNCHANGED <<hooks, waiter, loop, running, signalled, stopper, open, everReady>>

LeaveHandler(c) ==
    /\ handling[c]
    /\ handling' = [handling EXCEPT ![c] = FALSE]
    /\ UNCHANGED <<hooks, waiter, loop, running, signalled, stopper, open, everReady>>

(* Faulty variants of EndSession: Consume returns while HandlerFunc runs;  *)
(* ConsumeClaim has no Done case, so a closed group does not end it.       *)
EndSessionAtOnce(c) ==
    /\ At(c, "claim")
    /\ Goto(c, "unready")
    /\ UNCHANGED <<hooks, waiter, running, signalled, handling, stopper, open, everReady>>
EndSessionWhileOpen(c) ==
    /\ At(c, "claim") /\ ~handling[c]
    /\ "group" \in open[c]
    /\ Goto(c, "unready")
    /\ UNCHANGED <<hooks, waiter, running, signalled, handling, stopper, open, everReady>>

(* A rebalance or the closed group ends the session, each claim takes the  *)
(* Done case of its select, and Consume returns when every ConsumeClaim    *)
(* has ...                                                                 *)
EndSession(c) ==
    /\ At(c, "claim") /\ ~handling[c]
    /\ Goto(c, "unready")
    /\ UNCHANGED <<hooks, waiter, running, signalled, handling, stopper, open, everReady>>

(* ... or a claim takes the other case, from the channel that is closed by *)
(* then: ToCoreConsumerMessage dereferences nil on a goroutine that        *)
(* nobody recovers, and the process is gone, whatever the others do.       *)
ReceiveNil(c) ==
    /\ At(c, "claim")
    /\ panicked' = {c}
    /\ UNCHANGED <<waitsForReady, app, start, waiter, loop, running, signalled, handling, stopper, open, everReady>>

(* Faulty variants of MarkUnready: it keeps the channel; it closes the one *)
(* it replaces, to wake whoever waits on it; one channel serves all.       *)
MarkUnreadyKeeps(c) ==
    /\ At(c, "unready")
    /\ Goto(c, "check")
    /\ UNCHANGED <<hooks, waiter, running, signalled, handling, stopper, open, everReady>>
MarkUnreadyCloses(c) ==
    /\ At(c, "unready")
    /\ signalled' = [signalled EXCEPT ![c] = FALSE]
    /\ waiter' = [waiter EXCEPT ![c] = IF @ = "waiting" THEN "done" ELSE @]
    /\ Goto(c, "check")
    /\ UNCHANGED <<hooks, running, handling, stopper, open, everReady>>

MarkUnreadyForAll(c) ==
    /\ At(c, "unready")
    /\ signalled' = [d \in Consumers |-> FALSE]
    /\ waiter' = [waiter EXCEPT ![c] = IF @ = "waiting" THEN "orphaned" ELSE @]
    /\ Goto(c, "check")
    /\ UNCHANGED <<hooks, running, handling, stopper, open, everReady>>

(* cg.unready = make(chan bool): who waits on the old one is not told. *)
MarkUnready(c) ==
    /\ At(c, "unready")
    /\ signalled' = [signalled EXCEPT ![c] = FALSE]
    /\ waiter' = [waiter EXCEPT ![c] = IF @ = "waiting" THEN "orphaned" ELSE @]
    /\ Goto(c, "check")
    /\ UNCHANGED <<hooks, running, handling, stopper, open, everReady>>

-----------------------------------------------------------------------------
(* SaramaConsumer.Stop *)

StopperAt(c, label, next) ==
    /\ stopper[c] = label
    /\ stopper' = [stopper EXCEPT ![c] = next]

(* Faulty variant of ClearRunning: the flag is not cleared. *)
KeepRunning(c) ==
    /\ StopperAt(c, "flag", "handler")
    /\ UNCHANGED <<hooks, waiter, loop, running, signalled, handling, open, everReady>>

ClearRunning(c) ==
    /\ StopperAt(c, "flag", "handler")
    /\ running' = [running EXCEPT ![c] = FALSE]
    /\ UNCHANGED <<hooks, waiter, loop, signalled, handling, open, everReady>>

CloseHandler(c) ==
    /\ StopperAt(c, "handler", "close")
    /\ open' = [open EXCEPT ![c] = @ \ {"handler"}]
    /\ UNCHANGED <<hooks, waiter, loop, running, signalled, handling, everReady>>

(* consumerGroup.Close() closes the channel Consume selects on ... *)
CloseGroup(c) ==
    /\ StopperAt(c, "close", "leave")
    /\ open' = [open EXCEPT ![c] = @ \ {"group"}]
    /\ UNCHANGED <<hooks, waiter, loop, running, signalled, handling, everReady>>

(* Faulty variant of LeaveGroup: Close does not wait for Consume. *)
LeaveGroupAtOnce(c) ==
    /\ StopperAt(c, "leave", "client")
    /\ UNCHANGED <<hooks, waiter, loop, running, signalled, handling, open, everReady>>

(* ... and leaves the group under the lock of Consume. *)
LeaveGroup(c) ==
    /\ StopperAt(c, "leave", "client")
    /\ ~HoldsLock(c)
    /\ UNCHANGED <<hooks, waiter, loop, running, signalled, handling, open, everReady>>

CloseClient(c) ==
    /\ StopperAt(c, "client", "done")
    /\ open' = [open EXCEPT ![c] = @ \ {"client"}]
    /\ UNCHANGED <<hooks, waiter, loop, running, signalled, handling, everReady>>

-----------------------------------------------------------------------------
Hook == StartHook \/ Started \/ StartAll \/ AllReady \/ StopHook \/ Stopped
Wait(c) == SpawnLoop(c) \/ ReadUnready(c)
LoopStep(c) ==
    \/ Begin(c) \/ Check(c) \/ Consume(c) \/ TakeLock(c) \/ Join(c) \/ JoinFails(c)
    \/ Setup(c) \/ StartClaims(c) \/ EndSession(c) \/ MarkUnready(c)
HandlerCall(c) == EnterHandler(c) \/ LeaveHandler(c)
Stop(c) ==
    \/ ClearRunning(c) \/ CloseHandler(c) \/ CloseGroup(c)
    \/ LeaveGroup(c) \/ CloseClient(c)

Next ==
    /\ Alive
    /\ \/ Hook
       \/ \E c \in Consumers :
             Wait(c) \/ LoopStep(c) \/ HandlerCall(c) \/ ReceiveNil(c) \/ Stop(c)

Spec == Init /\ [][Next]_vars

(* Scheduling: while the process runs every goroutine that can run does,   *)
(* and HandlerFunc returns.  Strong fairness where something else may be   *)
(* chosen time and again: the claims of a closed group take the finitely   *)
(* many messages that were fetched before their select chooses Done (or    *)
(* nil, which ends the process); joining does not fail for ever while it   *)
(* is tried.  Nobody has to stop the application, a session need not end   *)
(* while the group is open, and no claim has to take nil.                  *)
Fairness ==
    /\ WF_vars(Alive /\ (StartHook \/ Started \/ Stopped))
    /\ WF_vars(Alive /\ (StartAll \/ AllReady))
    /\ \A c \in Consumers :
          /\ WF_vars(Alive /\ Wait(c))
          /\ WF_vars(Alive /\ LoopStep(c) /\ ~At(c, "claim"))
          /\ SF_vars(Alive /\ "group" \notin open[c] /\ EndSession(c))
          /\ SF_vars(Alive /\ Join(c))
          /\ WF_vars(Alive /\ LeaveHandler(c))
          /\ WF_vars(Alive /\ Stop(c))

FairSpec == Spec /\ Fairness
-----------------------------------------------------------------------------
(* Properties *)

(* HAZARD Setup closes a channel that MarkUnready makes anew: over failed  *)
(* joins, rebalances and a stop in between, Setup never finds the channel  *)
(* closed already, which would panic.                                      *)
SetupNeverPanics == \A c \in Consumers : At(c, "setup") => ~signalled[c]

(* HAZARD readiness passed through three goroutines and a channel that is  *)
(* replaced: when Start reports that the consumers are ready, and when the *)
(* application that waits for it has started, each one has had its Setup.  *)
ReadyMeansEverySetUp ==
    start = "ready" \/ (waitsForReady /\ app # "starting") =>
       \A c \in Consumers : everReady[c]

(* HAZARD Stop closes the handler, the group and the client while claims   *)
(* run: once the group is closed no claim runs and HandlerFunc is not      *)
(* called, so the client is closed under nobody who uses it.               *)
NoCallAfterClose ==
    \A c \in Consumers : stopper[c] \in {"client", "done"} =>
       ~At(c, "claim") /\ ~handling[c]

(* HAZARD the unready channel is looked at by the waiter, closed by Setup  *)
(* and replaced by MarkUnready: no wake-up is lost between the look and    *)
(* the wait.  Until the stop, the loop of a consumer whose waiter is       *)
(* blocked on the current channel is on its way to the Setup that wakes    *)
(* it, or, after a join that failed, to the MarkUnready that orphans it.   *)
NoLostWakeup ==
    \A c \in Consumers : waiter[c] = "waiting" =>
       /\ ~signalled[c]
       /\ app \in {"starting", "running"} =>
             loop[c] \in {"begin", "check", "consume", "lock", "join", "setup", "unready"}

(* Steps of Consume until it has given the lock back; 0 without the lock   *)
(* and without being about to take it.                                     *)
ToUnlock(c) ==
    CASE At(c, "lock") -> 5 [] At(c, "join") -> 4 [] At(c, "setup") -> 3
      [] At(c, "session") -> 2 [] At(c, "claim") -> 1 [] OTHER -> 0

(* HAZARD Close needs the lock that Consume takes again and again: once    *)
(* the group is closed its lock is on the way to be free for good, however *)
(* far Consume has got and whatever joining and HandlerFunc do.            *)
ClosedGroupIsLeft ==
    [][\A c \in Consumers : "group" \notin open[c] => ToUnlock(c)' <= ToUnlock(c)]_vars

(* Steps of the loop of a consumer until it has ended. *)
ToExit(c) ==
    CASE At(c, "consume") -> 8 [] At(c, "lock") -> 7 [] At(c, "join") -> 6
      [] At(c, "setup") -> 5 [] At(c, "session") -> 4 [] At(c, "claim") -> 3
      [] At(c, "unready") -> 2 [] At(c, "check") -> 1 [] OTHER -> 0

(* HAZARD Stop clears running while Start may yet set it, and the loop     *)
(* looks at it once a round: the stop of a consumer that was ready is not  *)
(* forgotten, and its loop, wherever it is by then, only gets nearer to    *)
(* its end.                                                                *)
LoopWindsDown ==
    [][\A c \in Consumers : everReady[c] /\ ~running[c] =>
          ~running'[c] /\ ToExit(c)' <= ToExit(c)]_vars

(* When the stop hook has returned, every consumer has released what it    *)
(* holds and will call its handler no more.                                *)
StoppedMeansReleased ==
    app = "stopped" =>
       \A c \in Consumers : open[c] = {} /\ ~At(c, "claim") /\ ~handling[c]

(* The consumers implement the abstract service: to the rest of the        *)
(* application the goroutines, channels and locks of this module amount to *)
(* handlers that run from Start to the return of Stop, and to readiness    *)
(* that is reported once and truthfully.                                   *)
Service == INSTANCE ConsumerService
    WITH service <- IF app \in {"stopping", "stopped"} THEN app
                    ELSE IF start = "none" THEN "created" ELSE "started",
         setUp <- {c \in Consumers : everReady[c]},
         ready <- (start = "ready"),
         serving <- {c \in Consumers : stopper[c] \notin {"client", "done"}},
         busy <- {c \in Consumers : handling[c]}
ImplementsConsumerService == Service!Spec

(* HAZARD the stop hook waits for the goroutines that stop the consumers,  *)
(* each of those for the lock of Consume, and Consume for its claims: the  *)
(* hook returns, whenever it was called and whatever each loop was doing,  *)
(* unless a claim takes nil from the messages of its closed session and    *)
(* the process is gone before.                                             *)
StopReturns == app = "stopping" ~> app = "stopped" \/ ~Alive

(* An application whose consumers were reported ready runs on for ever, is *)
(* ended by a claim that takes nil, or is stopped and leaves no loop       *)
(* behind, whatever rebalance or failed join each of them is in by then.   *)
LoopEndsOnceReady ==
    app = "running" /\ start = "ready"
    ~> \/ [](app = "running") \/ ~Alive
       \/ \A c \in Consumers : loop[c] = "exited"

(* "Consumer ... is closed" (end of SaramaConsumer.Start): a consumer that *)
(* is told to stop leaves its loop, if the process lives on.               *)
LoopEndsAfterStop ==
    app = "stopping" ~> ~Alive \/ \A c \in Consumers : loop[c] = "exited"

(* Start reports readiness unless the application is stopped or gone first *)
(* or a waiter was orphaned by a join that failed while it was blocked:    *)
(* nothing else can keep it from returning.                                *)
StartProgress ==
    <>(\/ start = "ready" \/ app = "stopping" \/ ~Alive
       \/ \E c \in Consumers : waiter[c] = "orphaned")

(* "This will block until all consumers are ready" (KafkaConsumerReady-    *)
(* WaitOpt): an application that is not stopped, nor ended by a claim, is  *)
(* told so once every consumer has been ready.                             *)
ReadinessIsReported ==
    [](app # "stopping" /\ Alive) => ((\A c \in Consumers : everReady[c]) ~> start = "ready")
=============================================================================
