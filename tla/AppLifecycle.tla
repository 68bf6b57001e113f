----------------------------- MODULE AppLifecycle -----------------------------
(***************************************************************************)
(* Start and stop of an application that consumes and produces: the fx     *)
(* hooks of kafka.go around the consumers (ConsumerService, which          *)
(* ConsumerLifecycle implements) and the producers (Producers).            *)
(*                                                                         *)
(* fx (external) runs the start functions of the hooks in the order in     *)
(* which the options registered them and the stop functions in the reverse *)
(* order; when a start or a stop takes too long the process ends.          *)
(* Handlers of the consumers send messages, and so does the event bus, on  *)
(* goroutines of its own (relayer.EventMessageRelayer.Handle).  A claim of *)
(* a consumer that takes nil at the end of its session ends the process as *)
(* well (ConsumerLifecycle!ReceiveNil).                                    *)
(***************************************************************************)
EXTENDS Integers, Sequences, FiniteSets

CONSTANTS Consumers, SyncMessages, AsyncMessages,
          Orders,   \* orders of the hooks that applications choose
          Bus       \* the event bus, as a sender

Hooks == {"start", "ready", "producerStop", "consumerStop"}

(* KafkaConsumerOpt registers the start of the consumers. *)
ASSUME OrdersAssumption ==
    \A o \in Orders :
       /\ o \in Seq(Hooks)
       /\ \A i, j \in DOMAIN o : o[i] = o[j] => i = j
       /\ \E i \in DOMAIN o : o[i] = "start"
ASSUME MessagesAssumption == SyncMessages \cap AsyncMessages = {}
ASSUME BusAssumption == Bus \notin Consumers

VARIABLES
    order,                               \* the hooks of this application
    app,                                 \* "starting", "running", "stopping",
                                         \* "stopped", "exited", "aborted"
    hook,                                \* index in order of the hook that runs
    sender,                              \* sender[m]: who sent m
    service, setUp, ready, serving, busy,   \* of ConsumerService
    producer, client, stage, answer         \* of Producers

Consumer == INSTANCE ConsumerService
Prod == INSTANCE Producers

consumerVars == <<service, setUp, ready, serving, busy>>
producerVars == <<producer, client, stage, answer>>
appVars == <<order, app, hook, sender>>
vars == <<appVars, consumerVars, producerVars>>

Senders == Consumers \cup {Bus}

TypeOK ==
    /\ order \in Orders
    /\ app \in {"starting", "running", "stopping", "stopped", "exited", "aborted"}
    /\ hook \in 0 .. Len(order) + 1
    /\ sender \in [Prod!Messages -> Senders]
    /\ service \in {"created", "started", "stopping", "stopped"}
    /\ setUp \subseteq Consumers /\ serving \subseteq Consumers
    /\ ready \in BOOLEAN
    /\ busy \subseteq serving
    /\ Prod!TypeOK

Init ==
    /\ order \in Orders
    /\ app = "starting" /\ hook = 1
    /\ sender = [m \in Prod!Messages |-> Bus]
    /\ Consumer!Init
    /\ Prod!Init

(* The process runs. *)
Alive == app \notin {"exited", "aborted"} /\ ~Prod!Panicked

At(name) == Alive /\ hook \in DOMAIN order /\ order[hook] = name

-----------------------------------------------------------------------------
(* Start *)

OnStart ==
    /\ app = "starting" /\ At("start")
    /\ Consumer!Start
    /\ hook' = hook + 1
    /\ UNCHANGED <<order, app, sender, producerVars>>

(* Faulty variant of ReadyWait: the wait is given up. *)
ReadyWaitGivesUp ==
    /\ app = "starting" /\ At("ready")
    /\ hook' = hook + 1
    /\ UNCHANGED <<order, app, sender, consumerVars, producerVars>>

(* <-consumer.WaitForReady(), which the timeout of the start cannot end.   *)
ReadyWait ==
    /\ app = "starting" /\ At("ready") /\ ready
    /\ hook' = hook + 1
    /\ UNCHANGED <<order, app, sender, consumerVars, producerVars>>

NoOnStart ==
    /\ app = "starting" /\ (At("producerStop") \/ At("consumerStop"))
    /\ hook' = hook + 1
    /\ UNCHANGED <<order, app, sender, consumerVars, producerVars>>

Started ==
    /\ app = "starting" /\ Alive /\ hook = Len(order) + 1
    /\ app' = "running"
    /\ UNCHANGED <<order, hook, sender, consumerVars, producerVars>>

-----------------------------------------------------------------------------
(* Stop *)

StopApp ==
    /\ app = "running" /\ Alive
    /\ app' = "stopping" /\ hook' = Len(order)
    /\ UNCHANGED <<order, sender, consumerVars, producerVars>>

NoOnStop ==
    /\ app = "stopping" /\ (At("start") \/ At("ready"))
    /\ hook' = hook - 1
    /\ UNCHANGED <<order, app, sender, consumerVars, producerVars>>

(* OnStopConsumerHook calls Stop ... *)
StopConsumers ==
    /\ app = "stopping" /\ At("consumerStop")
    /\ Consumer!BeginStop
    /\ UNCHANGED <<appVars, producerVars>>

(* Faulty variant of ConsumersStopped: the hook does not wait for Stop. *)
ConsumersStoppedAtOnce ==
    /\ app = "stopping" /\ At("consumerStop") /\ service = "stopping"
    /\ hook' = hook - 1
    /\ UNCHANGED <<order, app, sender, consumerVars, producerVars>>

(* ... which returns when the consumers are silent. *)
ConsumersStopped ==
    /\ app = "stopping" /\ At("consumerStop")
    /\ Consumer!EndStop
    /\ hook' = hook - 1
    /\ UNCHANGED <<order, app, sender, producerVars>>

(* OnStopProducerHook: one Close after the other *)
CloseSync ==
    /\ app = "stopping" /\ At("producerStop")
    /\ Prod!Close("sync")
    /\ UNCHANGED <<appVars, consumerVars>>

CloseAsync ==
    /\ app = "stopping" /\ At("producerStop")
    /\ producer["sync"] = "closed"
    /\ Prod!Close("async")
    /\ UNCHANGED <<appVars, consumerVars>>

(* Faulty variant of CloseClient: it does not come last. *)
CloseClientEarly ==
    /\ app = "stopping" /\ At("producerStop")
    /\ producer["sync"] = "closed"
    /\ Prod!CloseClient
    /\ hook' = hook - 1
    /\ UNCHANGED <<order, app, sender, consumerVars>>

CloseClient ==
    /\ app = "stopping" /\ At("producerStop")
    /\ producer["sync"] = "closed" /\ producer["async"] = "closed"
    /\ Prod!CloseClient
    /\ hook' = hook - 1
    /\ UNCHANGED <<order, app, sender, consumerVars>>

Stopped ==
    /\ app = "stopping" /\ Alive /\ hook = 0
    /\ app' = "stopped"
    /\ UNCHANGED <<order, hook, sender, consumerVars, producerVars>>

(* External: the process ends after the stop, or when fx loses patience. *)
Exit ==
    /\ app = "stopped" /\ Alive
    /\ app' = "exited"
    /\ UNCHANGED <<order, hook, sender, consumerVars, producerVars>>

Abort ==
    /\ app \in {"starting", "stopping"} /\ Alive
    /\ app' = "aborted"
    /\ UNCHANGED <<order, hook, sender, consumerVars, producerVars>>

-----------------------------------------------------------------------------
(* Consumers and producers at work *)

Sending(s) == \E m \in Prod!Messages : sender[m] = s /\ stage[m] # "new" /\ Prod!Blocks(m)

(* A handler sends from inside HandlerFunc, one message at a time; the     *)
(* relayer uses the synchronous producer, on a goroutine for each event.   *)
SendBy(s, m) ==
    /\ Alive
    /\ \/ s \in busy /\ ~Sending(s)
       \/ s = Bus /\ m \in SyncMessages
    /\ Prod!Send(m)
    /\ sender' = [sender EXCEPT ![m] = s]
    /\ UNCHANGED <<order, app, hook, consumerVars>>

ServiceStep(c) ==
    /\ Alive
    /\ Consumer!GetReady(c) \/ Consumer!Enter(c)
    /\ UNCHANGED <<appVars, producerVars>>

(* A claim takes nil from its closed channel, and nobody recovers. *)
ReceiveNil(c) ==
    /\ Alive
    /\ c \in setUp \cap serving
    /\ app' = "aborted"
    /\ UNCHANGED <<order, hook, sender, consumerVars, producerVars>>

Leave(c) ==
    /\ Alive
    /\ c \in busy /\ ~Sending(c)
    /\ Consumer!Leave(c)
    /\ UNCHANGED <<appVars, producerVars>>

Quit(c) ==
    /\ Alive
    /\ Consumer!Quit(c)
    /\ UNCHANGED <<appVars, producerVars>>

ReportReady ==
    /\ Alive
    /\ Consumer!ReportReady
    /\ UNCHANGED <<appVars, producerVars>>

MessageStep(m) ==
    /\ Alive
    /\ Prod!Progress(m)
    /\ UNCHANGED <<appVars, consumerVars>>

ShutdownStep(kind) ==
    /\ Alive
    /\ Prod!Shutdown(kind)
    /\ UNCHANGED <<appVars, consumerVars>>

Run ==
    \/ OnStart \/ ReadyWait \/ NoOnStart \/ Started \/ NoOnStop \/ StopConsumers
    \/ ConsumersStopped \/ CloseSync \/ CloseAsync \/ CloseClient \/ Stopped

Next ==
    \/ Run \/ StopApp \/ Exit \/ Abort \/ ReportReady
    \/ \E c \in Consumers : ServiceStep(c) \/ ReceiveNil(c) \/ Leave(c) \/ Quit(c)
    \/ \E s \in Senders, m \in Prod!Messages : SendBy(s, m)
    \/ \E m \in Prod!Messages : MessageStep(m)
    \/ \E kind \in Prod!Kinds : ShutdownStep(kind)

Spec == Init /\ [][Next]_vars

(* The hooks run on, HandlerFunc returns, brokers answer or sarama gives   *)
(* up, and every goroutine of the producers goes on.  Consumers that are   *)
(* told to stop fall silent (ConsumerLifecycle!StopReturns), though they   *)
(* may be handed more messages first.  Nothing makes the consumers ready,  *)
(* the application stop, fx lose patience, or a claim take nil; all of     *)
(* this is while the process runs, as every action of Next says.           *)
Fairness ==
    /\ WF_vars(Run)
    /\ \A c \in Consumers : WF_vars(Leave(c)) /\ SF_vars(Quit(c))
    /\ \A m \in Prod!Messages : WF_vars(MessageStep(m))
    /\ \A kind \in Prod!Kinds : WF_vars(ShutdownStep(kind))

FairSpec == Spec /\ Fairness
-----------------------------------------------------------------------------
(* Properties *)

Registered(name) == \E i \in DOMAIN order : order[i] = name
Before(name, other) ==
    \E i, j \in DOMAIN order : i < j /\ order[i] = name /\ order[j] = other

(* HAZARD "OnStop hooks will run in reverse order" (README): where the     *)
(* producer's stop is registered before the consumer's, no handler runs    *)
(* once a producer is being closed, so that none sends on a closed channel *)
(* and takes the process down; only the event bus, which nobody stops, may *)
(* still do so.                                                            *)
ProducersOutliveHandlers ==
    ~Registered("producerStop") \/ Before("producerStop", "consumerStop") =>
       /\ busy # {} => \A kind \in Prod!Kinds : producer[kind] = "open"
       /\ \A m \in Prod!Messages : stage[m] = "panicked" => sender[m] = Bus

(* HAZARD three Close calls in a row on things that share a client: when   *)
(* the client is closed the broker owes no answer to a message it was      *)
(* sent, and both producers let no other through.                          *)
ClientOutlivesMessages ==
    ~client => /\ \A m \in Prod!Messages : stage[m] \notin {"inflight", "answered"}
               /\ \A kind \in Prod!Kinds : producer[kind] = "closed"

(* HAZARD the ready-wait hook and its place among the hooks: an            *)
(* application that has it runs only when every consumer was set up, and   *)
(* not at all when it was registered before the start of the consumers.    *)
RunsOnlyWhenReady ==
    Registered("ready") /\ app \notin {"starting", "aborted"} =>
       Before("start", "ready") /\ setUp = Consumers

(* HAZARD Stop waits for handlers, a handler for a producer, Close for its *)
(* answers, and the hooks for one another: however they meet, a handler    *)
(* that still runs is not blocked for good, a Close that was called gets   *)
(* on, and the hook whose turn it is has something left to do.             *)
HandlersGetOut ==
    \A m \in Prod!Messages :
       sender[m] \in busy /\ stage[m] # "new" /\ Prod!Blocks(m) =>
          \E n \in Prod!Of(Prod!Kind(m)) : Prod!CanMove(n)
ClosesGetOn ==
    \A kind \in Prod!Kinds :
       /\ producer[kind] = "closing" => Prod!DispatcherFree(kind)
       /\ producer[kind] = "refusing" =>
             \A m \in Prod!Of(kind) : stage[m] \in {"inflight", "answered"} => Prod!CanMove(m)
HooksGetOn ==
    \/ hook = 0 \/ At("start") \/ At("ready")
    \/ At("consumerStop") /\ service \in {"started", "stopping"}
    \/ At("producerStop") /\ client /\ (producer["async"] # "open" => producer["sync"] = "closed")
StopIsNeverStuck ==
    app = "stopping" /\ Alive => HandlersGetOut /\ ClosesGetOn /\ HooksGetOn

(* HAZARD a message goes through three goroutines and channels without a   *)
(* buffer: until the stop none is refused, swallowed or met by a panic,    *)
(* and at no time is one on its way that nothing can move any more.        *)
AnswersGetThrough ==
    /\ app \in {"starting", "running"} =>
          \A m \in Prod!Messages : stage[m] \notin {"refused", "drained", "panicked"}
    /\ \A m \in Prod!Messages :
          stage[m] \notin {"new", "returned", "logged", "drained", "panicked"} =>
             \E n \in Prod!Of(Prod!Kind(m)) : Prod!CanMove(n)

(* HAZARD answers go through channels without a buffer, to goroutines that *)
(* Close competes with: every message given to a producer has its answer   *)
(* returned or logged, and while nobody stops the application none is      *)
(* swallowed by Close.                                                     *)
EveryMessageAnswered ==
    \A m \in Prod!Messages :
       stage[m] = "sending" ~>
          \/ stage[m] \in {"returned", "logged"}
          \/ stage[m] = "drained" /\ app \in {"stopping", "stopped"}
          \/ ~Alive

(* HAZARD handlers wait for producers, Close waits for answers, and the    *)
(* hooks for handlers: the stop of an application comes to its end in      *)
(* every order of the hooks, unless fx or a claim ends the process first.  *)
StopCompletes == app = "stopping" ~> app = "stopped" \/ ~Alive
=============================================================================
