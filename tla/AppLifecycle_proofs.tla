-------------------------- MODULE AppLifecycle_proofs --------------------------
(***************************************************************************)
(* Proofs about AppLifecycle, for any consumers, messages and orders of    *)
(* the hooks.                                                              *)
(***************************************************************************)
EXTENDS AppLifecycle, TLAPS

ProducersFirst == ~Registered("producerStop") \/ Before("producerStop", "consumerStop")
AllOpen == \A kind \in Prod!Kinds : producer[kind] = "open"

(* Where the hooks stand tells what has been started, awaited and stopped. *)
HookPhase ==
    /\ app = "starting" =>
          /\ hook >= 1
          /\ service # "created" => \E i \in DOMAIN order : i < hook /\ order[i] = "start"
          /\ \A i \in DOMAIN order : i < hook /\ order[i] = "ready" =>
                ready /\ Before("start", "ready")
    /\ app \in {"running", "stopping", "stopped", "exited"} /\ Registered("ready") =>
          ready /\ Before("start", "ready")
    /\ app = "stopping" => hook <= Len(order)
    /\ app = "stopped" => hook = 0
    /\ app \in {"stopping", "stopped", "exited"} =>
          \A j \in DOMAIN order : hook < j /\ order[j] = "consumerStop" => service = "stopped"

(* What the consumers promise. *)
ServiceState ==
    /\ ready => service # "created" /\ setUp = Consumers
    /\ service = "stopped" => serving = {}

(* A producer is closed after the consumers where that is registered, and  *)
(* a handler that sends is still running.                                  *)
CloseOrder ==
    /\ ProducersFirst /\ ~AllOpen => service = "stopped"
    /\ \A m \in Prod!Messages :
          /\ stage[m] # "new" /\ Prod!Blocks(m) /\ sender[m] # Bus => sender[m] \in busy
          /\ ProducersFirst /\ stage[m] \in {"refused", "panicked"} => sender[m] = Bus

(* A closed producer owes no answer, and the client is closed last. *)
ClientOrder ==
    /\ ~client => \A kind \in Prod!Kinds : producer[kind] = "closed"
    /\ \A m \in Prod!Messages : producer[Prod!Kind(m)] = "closed" =>
          stage[m] \notin {"inflight", "answered"}

IInv == TypeOK /\ HookPhase /\ ServiceState /\ CloseOrder /\ ClientOrder

LEMMA OrderType ==
    ASSUME TypeOK
    PROVE  /\ Len(order) \in Nat
           /\ DOMAIN order = 1 .. Len(order)
           /\ \A i, j \in DOMAIN order : order[i] = order[j] => i = j
           /\ hook \in Int
<1>1. order \in Seq(Hooks) /\ \A i, j \in DOMAIN order : order[i] = order[j] => i = j
  BY OrdersAssumption DEF TypeOK
<1> QED BY <1>1 DEF TypeOK

LEMMA InitInv == Init => IInv
<1> SUFFICES ASSUME Init PROVE IInv
  OBVIOUS
<1>1. Prod!TypeOK
  BY DEF Init, Prod!Init, Prod!TypeOK
<1>2. hook \in 0 .. Len(order) + 1
  <2>1. order \in Seq(Hooks)
    BY OrdersAssumption DEF Init
  <2> QED BY <2>1 DEF Init
<1>3. TypeOK
  BY <1>1, <1>2 DEF Init, Consumer!Init, TypeOK, Senders
<1>4. HookPhase
  <2>1. DOMAIN order \subseteq Nat \ {0}
    BY <1>3, OrderType
  <2> QED BY <2>1 DEF Init, Consumer!Init, HookPhase
<1>5. ServiceState
  BY DEF Init, Consumer!Init, ServiceState
<1>6. CloseOrder /\ ClientOrder
  BY DEF Init, Prod!Init, Prod!Kinds, Prod!Kind, CloseOrder, AllOpen, ClientOrder
<1> QED BY <1>3, <1>4, <1>5, <1>6 DEF IInv

-----------------------------------------------------------------------------
(* Steps of the hooks *)

(* A step that moves neither messages nor producers. *)
LEMMA MessagesStay ==
    ASSUME IInv, UNCHANGED <<order, sender, producerVars>>,
           service = "stopped" => service' = "stopped",
           busy \subseteq busy' \/ \A m \in Prod!Messages : Prod!Blocks(m) => sender[m] \notin busy \ busy'
    PROVE  CloseOrder' /\ ClientOrder' /\ Prod!TypeOK'
<1>1. ProducersFirst' = ProducersFirst /\ AllOpen' = AllOpen
  BY DEF ProducersFirst, Registered, Before, AllOpen, producerVars
<1>2. \A m \in Prod!Messages : Prod!Blocks(m)' = Prod!Blocks(m)
  BY DEF Prod!Blocks, producerVars
<1>3. CloseOrder'
  BY <1>1, <1>2 DEF IInv, CloseOrder, producerVars
<1>4. ClientOrder' /\ Prod!TypeOK'
  BY DEF IInv, TypeOK, ClientOrder, Prod!TypeOK, producerVars
<1> QED BY <1>3, <1>4

LEMMA OnStartInv == ASSUME IInv, OnStart PROVE IInv'
<1>1. /\ UNCHANGED <<order, app, sender, producerVars>> /\ hook' = hook + 1
      /\ app = "starting" /\ hook \in DOMAIN order /\ order[hook] = "start"
      /\ service = "created" /\ service' = "started"
      /\ UNCHANGED <<setUp, ready, serving, busy>>
  BY DEF OnStart, At, Consumer!Start
<1>2. CloseOrder' /\ ClientOrder' /\ Prod!TypeOK'
  BY <1>1, MessagesStay
<1>3. TypeOK'
  BY <1>1, <1>2, OrderType DEF IInv, TypeOK
<1>4. ServiceState'
  BY <1>1 DEF IInv, ServiceState
<1>5. HookPhase'
  BY <1>1, OrderType DEF IInv, HookPhase, Before, Registered
<1> QED BY <1>2, <1>3, <1>4, <1>5 DEF IInv

(* The end of the process, whoever brings it about. *)
Ends == Exit \/ Abort \/ \E c \in Consumers : ReceiveNil(c)

(* A step of the hooks that touches neither consumers nor producers. *)
LEMMA HookInv ==
    ASSUME IInv, ReadyWait \/ NoOnStart \/ Started \/ StopApp \/ NoOnStop
                 \/ Stopped \/ Ends
    PROVE  IInv'
<1>1. UNCHANGED <<order, sender, consumerVars, producerVars>>
  BY DEF ReadyWait, NoOnStart, Started, StopApp, NoOnStop, Stopped, Ends, Exit, Abort, ReceiveNil
<1>2. CloseOrder' /\ ClientOrder' /\ Prod!TypeOK'
  BY <1>1, MessagesStay DEF consumerVars
<1>3. ServiceState'
  BY <1>1 DEF IInv, ServiceState, consumerVars
<1>4. /\ app' \in {"starting", "running", "stopping", "stopped", "exited", "aborted"}
      /\ hook' \in 0 .. Len(order) + 1
  BY OrderType DEF IInv, TypeOK, ReadyWait, NoOnStart, Started, StopApp, NoOnStop,
                   Stopped, Ends, Exit, Abort, ReceiveNil, At
<1>5. TypeOK'
  BY <1>1, <1>2, <1>4 DEF IInv, TypeOK, consumerVars
<1>6. (\A a, b : Before(a, b)' = Before(a, b)) /\ \A a : Registered(a)' = Registered(a)
  BY <1>1 DEF Before, Registered
<1>7. HookPhase'
  <2> USE <1>1, <1>6, OrderType DEF IInv, HookPhase, consumerVars
  <2>1. CASE ReadyWait
    <3>1. ready /\ service # "created"
      BY <2>1 DEF ReadyWait, ServiceState
    <3>2. PICK i \in DOMAIN order : i < hook /\ order[i] = "start"
      BY <2>1, <3>1 DEF ReadyWait
    <3>3. Before("start", "ready")
      BY <2>1, <3>2 DEF ReadyWait, At, Before
    <3> QED BY <2>1, <3>1, <3>2, <3>3 DEF ReadyWait
  <2>2. CASE NoOnStart
    BY <2>2 DEF NoOnStart, At
  <2>3. CASE Started
    <3>1. Registered("ready") => ready /\ Before("start", "ready")
      BY <2>3 DEF Started, Registered
    <3> QED BY <2>3, <3>1 DEF Started
  <2>4. CASE StopApp
    BY <2>4 DEF StopApp
  <2>5. CASE NoOnStop
    BY <2>5 DEF NoOnStop, At
  <2>6. CASE Stopped
    BY <2>6 DEF Stopped
  <2>7. CASE Ends
    BY <2>7 DEF Ends, Exit, Abort, ReceiveNil
  <2> QED BY <2>1, <2>2, <2>3, <2>4, <2>5, <2>6, <2>7
<1> QED BY <1>2, <1>3, <1>5, <1>7 DEF IInv

LEMMA StopConsumersInv == ASSUME IInv, StopConsumers \/ ConsumersStopped PROVE IInv'
<1>1. CASE StopConsumers
  <2>1. /\ UNCHANGED <<appVars, producerVars, setUp, ready, serving, busy>>
        /\ service = "started" /\ service' = "stopping" /\ app = "stopping"
    BY <1>1 DEF StopConsumers, Consumer!BeginStop
  <2>2. CloseOrder' /\ ClientOrder' /\ Prod!TypeOK'
    BY <2>1, MessagesStay DEF appVars
  <2>3. TypeOK'
    BY <2>1, <2>2 DEF IInv, TypeOK, appVars
  <2>4. HookPhase' /\ ServiceState'
    BY <2>1 DEF IInv, HookPhase, ServiceState, Before, Registered, appVars
  <2> QED BY <2>2, <2>3, <2>4 DEF IInv
<1>2. CASE ConsumersStopped
  <2>1. /\ UNCHANGED <<order, app, sender, producerVars, setUp, ready, serving, busy>>
        /\ hook \in DOMAIN order /\ order[hook] = "consumerStop" /\ hook' = hook - 1
        /\ app = "stopping" /\ serving = {} /\ service' = "stopped"
    BY <1>2 DEF ConsumersStopped, At, Consumer!EndStop
  <2>2. CloseOrder' /\ ClientOrder' /\ Prod!TypeOK'
    BY <2>1, MessagesStay
  <2>3. TypeOK'
    BY <2>1, <2>2, OrderType DEF IInv, TypeOK
  <2>4. HookPhase' /\ ServiceState'
    BY <2>1, OrderType DEF IInv, HookPhase, ServiceState, Before, Registered
  <2> QED BY <2>2, <2>3, <2>4 DEF IInv
<1> QED BY <1>1, <1>2

(* When the hook of the producers runs, that of the consumers has run if   *)
(* it was registered later.                                                *)
LEMMA ConsumersAreSilent ==
    ASSUME IInv, app = "stopping", At("producerStop"), ProducersFirst
    PROVE  service = "stopped"
<1>1. hook \in DOMAIN order /\ order[hook] = "producerStop"
  BY DEF At
<1>2. Before("producerStop", "consumerStop")
  BY <1>1 DEF ProducersFirst, Registered
<1>3. PICK i, j \in DOMAIN order :
         i < j /\ order[i] = "producerStop" /\ order[j] = "consumerStop"
  BY <1>2 DEF Before
<1>4. hook < j
  BY <1>1, <1>3, OrderType DEF IInv
<1> QED BY <1>3, <1>4 DEF IInv, HookPhase

LEMMA CloseInv == ASSUME IInv, CloseSync \/ CloseAsync \/ CloseClient PROVE IInv'
<1>1. /\ UNCHANGED <<order, app, sender, consumerVars, stage, answer>>
      /\ app = "stopping" /\ At("producerStop")
  BY DEF CloseSync, CloseAsync, CloseClient, Prod!Close, Prod!CloseClient, appVars
<1>2. /\ \/ producer' = producer
         \/ \E kind \in Prod!Kinds : /\ producer[kind] = "open"
                                     /\ producer' = [producer EXCEPT ![kind] = "closing"]
      /\ \/ client' = client
         \/ /\ client' = FALSE /\ producer' = producer
            /\ producer["sync"] = "closed" /\ producer["async"] = "closed"
      /\ hook' = hook \/ hook' = hook - 1
  BY DEF CloseSync, CloseAsync, CloseClient, Prod!Close, Prod!CloseClient, Prod!Kinds, appVars
<1>3. hook \in DOMAIN order /\ order[hook] = "producerStop"
  BY <1>1 DEF At
<1>4. Prod!TypeOK'
  BY <1>1, <1>2 DEF IInv, TypeOK, Prod!TypeOK
<1>5. TypeOK'
  BY <1>1, <1>2, <1>3, <1>4, OrderType DEF IInv, TypeOK, consumerVars
<1>6. HookPhase' /\ ServiceState'
  BY <1>1, <1>2, <1>3, OrderType
  DEF IInv, HookPhase, ServiceState, Before, Registered, consumerVars
<1>7. CloseOrder'
  <2>1. ProducersFirst' = ProducersFirst
    BY <1>1 DEF ProducersFirst, Registered, Before
  <2>2. \A m \in Prod!Messages : Prod!Blocks(m)' = Prod!Blocks(m)
    BY <1>1 DEF Prod!Blocks
  <2>3. ProducersFirst => service' = "stopped"
    BY <1>1, ConsumersAreSilent DEF consumerVars
  <2> QED BY <1>1, <2>1, <2>2, <2>3 DEF IInv, CloseOrder, consumerVars
<1>8. ClientOrder'
  BY <1>1, <1>2 DEF IInv, TypeOK, Prod!TypeOK, ClientOrder, Prod!Kinds, Prod!Kind
<1> QED BY <1>5, <1>6, <1>7, <1>8 DEF IInv

-----------------------------------------------------------------------------
(* Steps of the consumers *)

LEMMA ConsumerInv ==
    ASSUME IInv, ReportReady \/ \E c \in Consumers : ServiceStep(c) \/ Leave(c) \/ Quit(c)
    PROVE  IInv'
<1>1. /\ UNCHANGED <<appVars, producerVars, service>>
      /\ setUp \subseteq setUp' /\ setUp' \subseteq Consumers
      /\ ready => ready'
      /\ ready' \in BOOLEAN
      /\ ready' => service # "created" /\ (ready \/ setUp = Consumers)
      /\ serving' \subseteq serving
      /\ busy' \subseteq serving'
      /\ busy \subseteq busy' \/ \A m \in Prod!Messages : Prod!Blocks(m) => sender[m] \notin busy \ busy'
  <2>1. CASE ReportReady
    BY <2>1 DEF IInv, TypeOK, ServiceState, ReportReady, Consumer!ReportReady
  <2>2. ASSUME NEW c \in Consumers, ServiceStep(c)
        PROVE  /\ UNCHANGED <<appVars, producerVars, service, ready, serving>>
               /\ setUp \subseteq setUp' /\ setUp' \subseteq Consumers
               /\ busy \subseteq busy' /\ busy' \subseteq serving
    BY <2>2 DEF IInv, TypeOK, ServiceStep, Consumer!GetReady, Consumer!Enter
  <2>3. ASSUME NEW c \in Consumers, Leave(c)
        PROVE  /\ UNCHANGED <<appVars, producerVars, service, ready, serving, setUp>>
               /\ busy' = busy \ {c} /\ ~Sending(c)
    BY <2>3 DEF Leave, Consumer!Leave
  <2>4. ASSUME NEW c \in Consumers, Leave(c), NEW m \in Prod!Messages, Prod!Blocks(m)
        PROVE  sender[m] # c
    BY <2>3, <2>4 DEF Sending, Prod!Blocks
  <2>5. ASSUME NEW c \in Consumers, Quit(c)
        PROVE  /\ UNCHANGED <<appVars, producerVars, service, ready, busy, setUp>>
               /\ serving' = serving \ {c} /\ c \notin busy
    BY <2>5 DEF Quit, Consumer!Quit
  <2>6. CASE \E c \in Consumers : ServiceStep(c)
    BY <2>2, <2>6 DEF IInv, TypeOK, ServiceState
  <2>7. CASE \E c \in Consumers : Leave(c)
    BY <2>3, <2>4, <2>7 DEF IInv, TypeOK, ServiceState
  <2>8. CASE \E c \in Consumers : Quit(c)
    BY <2>5, <2>8 DEF IInv, TypeOK, ServiceState
  <2> QED BY <2>1, <2>6, <2>7, <2>8
<1>2. CloseOrder' /\ ClientOrder' /\ Prod!TypeOK'
  BY <1>1, MessagesStay DEF appVars
<1>3. TypeOK'
  BY <1>1, <1>2 DEF IInv, TypeOK, appVars
<1>4. ServiceState'
  BY <1>1 DEF IInv, TypeOK, ServiceState
<1>5. HookPhase'
  BY <1>1 DEF IInv, HookPhase, Before, Registered, appVars
<1> QED BY <1>2, <1>3, <1>4, <1>5 DEF IInv

-----------------------------------------------------------------------------
(* Steps of the producers *)

(* The parts of the invariant that a step of a producer cannot disturb. *)
LEMMA AppStays ==
    ASSUME IInv, UNCHANGED <<order, app, hook, consumerVars>>,
           sender' \in [Prod!Messages -> Senders], Prod!TypeOK'
    PROVE  /\ TypeOK' /\ HookPhase' /\ ServiceState'
           /\ ProducersFirst' = ProducersFirst
  BY DEF IInv, TypeOK, HookPhase, ServiceState, ProducersFirst, Before, Registered, consumerVars

(* With the producer's stop before the consumer's, only the event bus      *)
(* sends while a producer is not open.                                     *)
LEMMA LateSenderIsBus ==
    ASSUME IInv, ProducersFirst, NEW m \in Prod!Messages,
           Prod!Blocks(m), stage[m] # "new", producer[Prod!Kind(m)] # "open"
    PROVE  sender[m] = Bus
<1>1. ~AllOpen
  BY DEF AllOpen, Prod!Kind, Prod!Kinds
<1>2. busy = {}
  BY <1>1 DEF IInv, CloseOrder, ServiceState, TypeOK
<1> QED BY <1>2 DEF IInv, CloseOrder

LEMMA SendInv ==
    ASSUME IInv, NEW s \in Senders, NEW m \in Prod!Messages, SendBy(s, m) PROVE IInv'
<1>1. /\ UNCHANGED <<order, app, hook, consumerVars, producer, client, answer>>
      /\ stage[m] = "new" /\ stage' = [stage EXCEPT ![m] = "sending"]
      /\ sender' = [sender EXCEPT ![m] = s]
      /\ s = Bus \/ s \in busy
  BY DEF SendBy, Prod!Send, Prod!Move
<1>2. sender' \in [Prod!Messages -> Senders]
  BY <1>1 DEF IInv, TypeOK
<1>3. Prod!TypeOK'
  BY <1>1 DEF IInv, TypeOK, Prod!TypeOK
<1>4. /\ TypeOK' /\ HookPhase' /\ ServiceState'
      /\ ProducersFirst' = ProducersFirst
  BY <1>1, <1>2, <1>3, AppStays
<1>5. CloseOrder'
  <2>1. AllOpen' = AllOpen
    BY <1>1 DEF AllOpen
  <2> QED BY <1>1, <1>4, <2>1
          DEF IInv, TypeOK, Prod!TypeOK, CloseOrder, Prod!Blocks, consumerVars
<1>6. ClientOrder'
  BY <1>1 DEF IInv, TypeOK, Prod!TypeOK, ClientOrder
<1> QED BY <1>4, <1>5, <1>6 DEF IInv

LEMMA MessageInv ==
    ASSUME IInv, NEW m \in Prod!Messages, MessageStep(m) PROVE IInv'
<1> DEFINE kind == Prod!Kind(m)
<1>1. /\ UNCHANGED <<appVars, consumerVars, producer, client>>
      /\ \A n \in Prod!Messages \ {m} : stage'[n] = stage[n] /\ answer'[n] = answer[n]
  BY DEF MessageStep, Prod!Progress, Prod!Accept, Prod!Refuse, Prod!Panic, Prod!GetAnswer,
         Prod!Forward, Prod!Log, Prod!AsyncProducerSuccessLogHandler,
         Prod!AsyncProducerErrorLogHandler, Prod!Drain, Prod!Return, Prod!Move, IInv, TypeOK,
         Prod!TypeOK
<1>2. \/ producer[kind] \in {"open", "closing"} /\ stage[m] = "sending" /\ stage'[m] = "inflight"
      \/ producer[kind] = "refusing" /\ stage[m] = "sending" /\ stage'[m] = "refused"
      \/ producer[kind] = "closed" /\ stage[m] \in {"sending", "refused"} /\ stage'[m] = "panicked"
      \/ stage[m] = "inflight" /\ stage'[m] = "answered"
      \/ stage[m] \in {"answered", "refused"} /\ stage'[m] \in {"forwarded", "drained", "returned"}
      \/ stage[m] = "forwarded" /\ stage'[m] = "logged"
  <2>1. stage \in [Prod!Messages -> {"new", "sending", "inflight", "answered", "refused",
                     "forwarded", "logged", "drained", "returned", "panicked"}]
    BY DEF IInv, TypeOK, Prod!TypeOK
  <2> QED BY <2>1 DEF MessageStep, Prod!Progress, Prod!Accept, Prod!Refuse, Prod!Panic,
         Prod!GetAnswer, Prod!Forward, Prod!Log, Prod!AsyncProducerSuccessLogHandler,
         Prod!AsyncProducerErrorLogHandler, Prod!Drain, Prod!Return, Prod!Move, Prod!Pending
<1>3. Prod!TypeOK'
  <2> USE DEF IInv, TypeOK, Prod!TypeOK, Prod!Move, Prod!Pending
  <2>1. CASE Prod!Accept(m) \/ Prod!Refuse(m)
    BY <2>1 DEF Prod!Accept, Prod!Refuse
  <2>2. CASE Prod!Panic(m)
    BY <2>2 DEF Prod!Panic
  <2>3. CASE Prod!GetAnswer(m)
    BY <2>3 DEF Prod!GetAnswer
  <2>4. CASE Prod!Forward(m) \/ Prod!Log(m)
    BY <2>4 DEF Prod!Forward, Prod!Log
  <2>5. CASE Prod!Drain(m) \/ Prod!Return(m)
    BY <2>5 DEF Prod!Drain, Prod!Return
  <2> QED BY <2>1, <2>2, <2>3, <2>4, <2>5
          DEF MessageStep, Prod!Progress, Prod!AsyncProducerSuccessLogHandler,
              Prod!AsyncProducerErrorLogHandler
<1>4. sender' \in [Prod!Messages -> Senders]
  BY <1>1 DEF IInv, TypeOK, appVars
<1>5. /\ TypeOK' /\ HookPhase' /\ ServiceState'
      /\ ProducersFirst' = ProducersFirst
  BY <1>1, <1>3, <1>4, AppStays DEF appVars
<1>6. CloseOrder'
  <2>1. AllOpen' = AllOpen /\ UNCHANGED <<sender, busy, service>>
    BY <1>1 DEF AllOpen, appVars, consumerVars
  <2>2. ASSUME NEW n \in Prod!Messages, n # m
        PROVE  /\ stage'[n] # "new" /\ Prod!Blocks(n)' /\ sender'[n] # Bus => sender'[n] \in busy'
               /\ ProducersFirst' /\ stage'[n] \in {"refused", "panicked"} => sender'[n] = Bus
    BY <1>1, <1>5, <2>1, <2>2 DEF IInv, CloseOrder, Prod!Blocks
  <2>3. Prod!Blocks(m)' => Prod!Blocks(m) /\ stage[m] # "new"
    BY <1>2 DEF Prod!Blocks
  <2>4. ProducersFirst /\ stage'[m] \in {"refused", "panicked"} => sender[m] = Bus
    <3>1. CASE stage[m] = "sending"
      BY <1>2, <3>1, LateSenderIsBus DEF Prod!Blocks
    <3>2. CASE stage[m] # "sending"
      BY <1>2, <3>2 DEF IInv, CloseOrder
    <3> QED BY <3>1, <3>2
  <2>5. ProducersFirst /\ ~AllOpen' => service' = "stopped"
    BY <2>1 DEF IInv, CloseOrder
  <2> QED BY <1>5, <2>1, <2>2, <2>3, <2>4, <2>5 DEF IInv, CloseOrder
<1>7. ClientOrder'
  BY <1>1, <1>2 DEF IInv, ClientOrder
<1> QED BY <1>5, <1>6, <1>7 DEF IInv

LEMMA ShutdownInv ==
    ASSUME IInv, NEW kind \in Prod!Kinds, ShutdownStep(kind) PROVE IInv'
<1>1. /\ UNCHANGED <<appVars, consumerVars, client, stage, answer>>
      /\ \/ producer[kind] = "closing" /\ producer' = [producer EXCEPT ![kind] = "refusing"]
         \/ /\ producer[kind] = "refusing" /\ producer' = [producer EXCEPT ![kind] = "closed"]
            /\ \A m \in Prod!Of(kind) : stage[m] \notin {"inflight", "answered"}
  BY DEF ShutdownStep, Prod!Shutdown, Prod!TakeMarker, Prod!CloseChannels
<1>2. producer \in [Prod!Kinds -> {"open", "closing", "refusing", "closed"}]
  BY DEF IInv, TypeOK, Prod!TypeOK
<1>3. Prod!TypeOK'
  BY <1>1, <1>2 DEF IInv, TypeOK, Prod!TypeOK
<1>4. sender' \in [Prod!Messages -> Senders]
  BY <1>1 DEF IInv, TypeOK, appVars
<1>5. /\ TypeOK' /\ HookPhase' /\ ServiceState'
      /\ ProducersFirst' = ProducersFirst
  BY <1>1, <1>3, <1>4, AppStays DEF appVars
<1>6. CloseOrder'
  <2>1. ~AllOpen
    BY <1>1 DEF AllOpen
  <2>2. \A m \in Prod!Messages : Prod!Blocks(m)' = Prod!Blocks(m)
    BY <1>1 DEF Prod!Blocks
  <2> QED BY <1>1, <1>5, <2>1, <2>2 DEF IInv, CloseOrder, appVars, consumerVars
<1>7. ClientOrder'
  <2>1. \A m \in Prod!Messages : Prod!Kind(m) = kind => m \in Prod!Of(kind)
    BY DEF Prod!Messages, Prod!Kind, Prod!Of, Prod!Kinds
  <2>2. ~client => FALSE
    BY <1>1 DEF IInv, ClientOrder
  <2>3. \A m \in Prod!Messages : Prod!Kind(m) \in Prod!Kinds
    BY DEF Prod!Kind, Prod!Kinds
  <2> QED BY <1>1, <1>2, <2>1, <2>2, <2>3 DEF IInv, ClientOrder
<1> QED BY <1>5, <1>6, <1>7 DEF IInv

LEMMA NextInv == IInv /\ [Next]_vars => IInv'
<1> SUFFICES ASSUME IInv, [Next]_vars PROVE IInv'
  OBVIOUS
<1>1. CASE UNCHANGED vars
  <2>1. /\ UNCHANGED <<order, app, hook, sender, consumerVars, producerVars>>
        /\ UNCHANGED <<service, busy>>
    BY <1>1 DEF vars, appVars, consumerVars
  <2>2. CloseOrder' /\ ClientOrder' /\ Prod!TypeOK'
    BY <2>1, MessagesStay
  <2>3. sender' \in [Prod!Messages -> Senders]
    BY <2>1 DEF IInv, TypeOK
  <2> QED BY <2>1, <2>2, <2>3, AppStays DEF IInv
<1>2. CASE Run
  BY <1>2, OnStartInv, HookInv, StopConsumersInv, CloseInv DEF Run
<1>3. CASE StopApp \/ Ends
  BY <1>3, HookInv
<1>4. CASE ReportReady \/ \E c \in Consumers : ServiceStep(c) \/ Leave(c) \/ Quit(c)
  BY <1>4, ConsumerInv
<1> QED BY <1>1, <1>2, <1>3, <1>4, SendInv, MessageInv, ShutdownInv DEF Next, Ends

THEOREM Invariance == Spec => []IInv
  BY InitInv, NextInv, PTL DEF Spec

(* The variables of the application, its consumers and its producers. *)
THEOREM TypeCorrect == Spec => []TypeOK
  BY Invariance, PTL DEF IInv

(* Handlers never meet a closing producer when its stop was registered     *)
(* before theirs.                                                          *)
THEOREM HandlersAreSafe == Spec => []ProducersOutliveHandlers
<1>1. IInv => ProducersOutliveHandlers
  <2> SUFFICES ASSUME IInv, ProducersFirst
               PROVE  /\ busy # {} => AllOpen
                      /\ \A m \in Prod!Messages : stage[m] = "panicked" => sender[m] = Bus
    BY DEF ProducersOutliveHandlers, ProducersFirst, AllOpen
  <2>1. busy # {} => service # "stopped"
    BY DEF IInv, TypeOK, ServiceState
  <2> QED BY <2>1 DEF IInv, CloseOrder
<1> QED BY <1>1, Invariance, PTL

(* The client is closed when no answer is owed any more. *)
THEOREM ClientIsLast == Spec => []ClientOutlivesMessages
<1>1. IInv => ClientOutlivesMessages
  BY DEF IInv, ClientOrder, ClientOutlivesMessages, Prod!Kind, Prod!Kinds
<1> QED BY <1>1, Invariance, PTL

(* An application that waits for its consumers runs only with all set up.  *)
THEOREM ReadyFirst == Spec => []RunsOnlyWhenReady
<1>1. IInv => RunsOnlyWhenReady
  BY DEF IInv, TypeOK, HookPhase, ServiceState, RunsOnlyWhenReady
<1> QED BY <1>1, Invariance, PTL

-----------------------------------------------------------------------------
(* The stop gets on *)

(* The hooks take their turns: who was started, stopped or closed tells    *)
(* where they stand; the producers are closed one after the other; and     *)
(* only a dispatcher that has seen the marker of Close refuses a message.  *)
Turns ==
    /\ app = "starting" /\ service = "created" =>
          \A i \in DOMAIN order : i < hook => order[i] # "start"
    /\ app \in {"running", "stopping", "stopped", "exited"} => service # "created"
    /\ app \in {"starting", "running"} =>
          service \in {"created", "started"} /\ AllOpen /\ client
    /\ app = "stopping" =>
          /\ service = "stopped" => \E j \in DOMAIN order : hook < j /\ order[j] = "consumerStop"
          /\ ~client => \E j \in DOMAIN order : hook < j /\ order[j] = "producerStop"
    /\ producer["async"] # "open" => producer["sync"] = "closed"
    /\ \A m \in Prod!Messages :
          stage[m] = "refused" => producer[Prod!Kind(m)] \in {"refusing", "closed"}

LEMMA TurnsInit == Init => Turns
  BY OrderType, InitInv
  DEF Init, Consumer!Init, Prod!Init, Prod!Kinds, Prod!Kind, Turns, AllOpen, IInv

(* Steps of the hooks that move nothing but themselves. *)
LEMMA TurnsHook ==
    ASSUME IInv, Turns, ReadyWait \/ NoOnStart \/ Started \/ StopApp \/ NoOnStop
                        \/ Stopped \/ Ends
    PROVE  Turns'
<1>1. UNCHANGED <<order, service, producer, client, stage, AllOpen>>
  BY DEF ReadyWait, NoOnStart, Started, StopApp, NoOnStop, Stopped, Ends, Exit, Abort,
         ReceiveNil, consumerVars, producerVars, AllOpen
<1>2. /\ DOMAIN order = 1 .. Len(order) /\ Len(order) \in Nat /\ hook \in Int
      /\ \E i \in DOMAIN order : order[i] = "start"
  BY OrderType, OrdersAssumption DEF IInv, TypeOK
<1> USE <1>1, <1>2 DEF Turns
<1>3. CASE ReadyWait
  BY <1>3 DEF ReadyWait, At
<1>4. CASE NoOnStart
  BY <1>4 DEF NoOnStart, At
<1>5. CASE Started
  BY <1>5 DEF Started
<1>6. CASE StopApp
  BY <1>6 DEF StopApp
<1>7. CASE NoOnStop
  BY <1>7 DEF NoOnStop
<1>8. CASE Stopped \/ Ends
  BY <1>8 DEF Stopped, Ends, Exit, Abort, ReceiveNil
<1> QED BY <1>3, <1>4, <1>5, <1>6, <1>7, <1>8

(* Steps of the hooks that start, stop or close something. *)
LEMMA TurnsAct ==
    ASSUME IInv, Turns, OnStart \/ StopConsumers \/ ConsumersStopped
                        \/ CloseSync \/ CloseAsync \/ CloseClient
    PROVE  Turns'
<1>1. DOMAIN order = 1 .. Len(order) /\ Len(order) \in Nat /\ hook \in Int
  BY OrderType DEF IInv
<1> USE <1>1 DEF Turns
<1>2. CASE OnStart
  BY <1>2 DEF OnStart, At, Consumer!Start, producerVars, AllOpen
<1>3. CASE StopConsumers
  BY <1>3 DEF StopConsumers, At, Consumer!BeginStop, appVars, producerVars, AllOpen
<1>4. CASE ConsumersStopped
  BY <1>4 DEF ConsumersStopped, At, Consumer!EndStop, producerVars, AllOpen
<1>5. CASE CloseSync \/ CloseAsync
  <2>1. PICK kind \in Prod!Kinds :
           /\ producer[kind] = "open" /\ producer' = [producer EXCEPT ![kind] = "closing"]
           /\ kind = "async" => producer["sync"] = "closed"
    BY <1>5 DEF CloseSync, CloseAsync, Prod!Close, Prod!Kinds
  <2>2. app = "stopping" /\ UNCHANGED <<appVars, service, client, stage>>
    BY <1>5 DEF CloseSync, CloseAsync, Prod!Close, appVars, consumerVars
  <2>3. producer \in [Prod!Kinds -> {"open", "closing", "refusing", "closed"}]
    BY DEF IInv, TypeOK, Prod!TypeOK
  <2>4. producer'["async"] # "open" => producer'["sync"] = "closed"
    BY <2>1, <2>3 DEF Prod!Kinds
  <2>5. \A m \in Prod!Messages :
           stage[m] = "refused" => producer'[Prod!Kind(m)] \in {"refusing", "closed"}
    BY <2>1, <2>3 DEF Prod!Kinds, Prod!Kind
  <2> QED BY <2>2, <2>4, <2>5 DEF appVars
<1>6. CASE CloseClient
  BY <1>6 DEF CloseClient, Prod!CloseClient, At, consumerVars
<1> QED BY <1>2, <1>3, <1>4, <1>5, <1>6

(* Steps of consumers, senders, messages and dispatchers. *)
LEMMA TurnsWork ==
    ASSUME IInv, Turns,
           \/ ReportReady \/ \E c \in Consumers : ServiceStep(c) \/ Leave(c) \/ Quit(c)
           \/ \E s \in Senders, m \in Prod!Messages : SendBy(s, m)
           \/ \E m \in Prod!Messages : MessageStep(m)
           \/ \E kind \in Prod!Kinds : ShutdownStep(kind)
    PROVE  Turns'
<1>0. /\ producer \in [Prod!Kinds -> {"open", "closing", "refusing", "closed"}]
      /\ DOMAIN stage = Prod!Messages
  BY DEF IInv, TypeOK, Prod!TypeOK
<1>1. UNCHANGED <<order, app, hook, service, client>>
  BY DEF ReportReady, Consumer!ReportReady, ServiceStep, Consumer!GetReady, Consumer!Enter,
         Leave, Consumer!Leave, Quit, Consumer!Quit, SendBy, Prod!Send, MessageStep,
         Prod!Progress, Prod!Accept, Prod!Refuse, Prod!Panic, Prod!GetAnswer, Prod!Forward,
         Prod!Log, Prod!AsyncProducerSuccessLogHandler, Prod!AsyncProducerErrorLogHandler,
         Prod!Drain, Prod!Return, ShutdownStep, Prod!Shutdown, Prod!TakeMarker,
         Prod!CloseChannels, appVars, consumerVars, producerVars
<1>2. CASE ReportReady \/ \E c \in Consumers : ServiceStep(c) \/ Leave(c) \/ Quit(c)
  <2>1. UNCHANGED <<producer, stage>>
    BY <1>2 DEF ReportReady, ServiceStep, Leave, Quit, producerVars
  <2> QED BY <1>1, <2>1 DEF Turns, AllOpen
<1>3. ASSUME NEW s \in Senders, NEW m \in Prod!Messages, SendBy(s, m) PROVE Turns'
  <2>1. producer' = producer /\ stage' = [stage EXCEPT ![m] = "sending"]
    BY <1>3 DEF SendBy, Prod!Send, Prod!Move
  <2> QED BY <1>0, <1>1, <2>1 DEF Turns, AllOpen
<1>4. ASSUME NEW m \in Prod!Messages, MessageStep(m) PROVE Turns'
  <2>1. /\ producer' = producer
        /\ \E label : stage' = [stage EXCEPT ![m] = label]
                      /\ (label = "refused" => producer[Prod!Kind(m)] = "refusing")
    BY <1>4 DEF MessageStep, Prod!Progress, Prod!Accept, Prod!Refuse, Prod!Panic,
         Prod!GetAnswer, Prod!Forward, Prod!Log, Prod!AsyncProducerSuccessLogHandler,
         Prod!AsyncProducerErrorLogHandler, Prod!Drain, Prod!Return, Prod!Move
  <2> QED BY <1>0, <1>1, <2>1 DEF Turns, AllOpen
<1>5. ASSUME NEW kind \in Prod!Kinds, ShutdownStep(kind) PROVE Turns'
  <2>1. /\ producer[kind] # "open" /\ producer[kind] # "closed" /\ stage' = stage
        /\ \E label \in {"refusing", "closed"} : producer' = [producer EXCEPT ![kind] = label]
    BY <1>5 DEF ShutdownStep, Prod!Shutdown, Prod!TakeMarker, Prod!CloseChannels
  <2>2. producer'["async"] # "open" => producer'["sync"] = "closed"
    BY <1>0, <2>1 DEF Turns, Prod!Kinds
  <2>3. \A m \in Prod!Messages :
           stage[m] = "refused" => producer'[Prod!Kind(m)] \in {"refusing", "closed"}
    BY <1>0, <2>1 DEF Turns, Prod!Kinds, Prod!Kind
  <2>4. ~AllOpen
    BY <2>1 DEF AllOpen
  <2> QED BY <1>1, <2>1, <2>2, <2>3, <2>4 DEF Turns
<1> QED BY <1>2, <1>3, <1>4, <1>5

LEMMA TurnsNext == IInv /\ Turns /\ [Next]_vars => Turns'
<1>1. ASSUME Turns, UNCHANGED vars PROVE Turns'
  BY <1>1 DEF Turns, AllOpen, vars, appVars, consumerVars, producerVars
<1> QED BY <1>1, TurnsHook, TurnsAct, TurnsWork DEF Next, Run, Ends

THEOREM TurnsAreTaken == Spec => []Turns
  BY TurnsInit, TurnsNext, Invariance, PTL DEF Spec

(* A message at hand is not blocked for good: what the dispatcher refuses  *)
(* is taken by Close or by the caller.                                     *)
LEMMA MessagesMove ==
    ASSUME IInv, Turns, NEW m \in Prod!Messages, stage[m] # "new", Prod!Blocks(m)
    PROVE  \E n \in Prod!Of(Prod!Kind(m)) : Prod!CanMove(n)
<1> DEFINE kind == Prod!Kind(m)
<1>1. /\ kind \in Prod!Kinds /\ m \in Prod!Of(kind)
      /\ \A n \in Prod!Of(kind) : n \in Prod!Messages /\ Prod!Kind(n) = kind
      /\ kind = "sync" => Prod!Of(kind) = SyncMessages
      /\ kind = "async" => Prod!Of(kind) = AsyncMessages
  BY MessagesAssumption DEF Prod!Messages, Prod!Kind, Prod!Of, Prod!Kinds
<1>2. ASSUME NEW n \in Prod!Of(kind), stage[n] = "refused" PROVE Prod!CanMove(n)
  <2>1. producer[kind] \in {"refusing", "closed"}
    BY <1>1, <1>2 DEF Turns
  <2> QED BY <1>1, <1>2, <2>1 DEF Prod!CanMove, Prod!Pending, Prod!Kinds
<1>3. CASE stage[m] = "sending"
  <2>1. CASE Prod!DispatcherFree(kind)
    BY <1>1, <1>3, <2>1 DEF Prod!CanMove
  <2>2. CASE ~Prod!DispatcherFree(kind)
    BY <1>2, <2>2 DEF Prod!DispatcherFree
  <2> QED BY <2>1, <2>2
<1>4. CASE stage[m] \in {"inflight", "refused"}
  BY <1>1, <1>2, <1>4 DEF Prod!CanMove
<1>5. CASE stage[m] = "answered"
  <2>1. m \in SyncMessages /\ kind = "sync" /\ producer[kind] # "closed"
    BY <1>1, <1>5 DEF IInv, ClientOrder, Prod!Blocks, Prod!Kind
  <2> QED BY <1>1, <1>5, <2>1 DEF Prod!CanMove, Prod!Pending
<1> QED BY <1>3, <1>4, <1>5 DEF Prod!Blocks

LEMMA CloseMoves == ASSUME IInv, Turns PROVE ClosesGetOn
<1>1. \A kind \in Prod!Kinds : \A m \in Prod!Of(kind) :
         /\ m \in Prod!Messages /\ Prod!Kind(m) = kind
         /\ kind = "sync" => m \in SyncMessages
         /\ kind = "async" => m \in AsyncMessages
  BY MessagesAssumption DEF Prod!Messages, Prod!Kind, Prod!Of, Prod!Kinds
<1>2. ASSUME NEW kind \in Prod!Kinds, producer[kind] = "closing" PROVE Prod!DispatcherFree(kind)
  BY <1>1, <1>2 DEF Turns, Prod!DispatcherFree
<1>3. ASSUME NEW kind \in Prod!Kinds, producer[kind] = "refusing",
             NEW m \in Prod!Of(kind), stage[m] \in {"inflight", "answered"}
      PROVE  Prod!CanMove(m)
  BY <1>1, <1>3 DEF Prod!CanMove, Prod!Pending, Prod!Kinds
<1> QED BY <1>2, <1>3 DEF ClosesGetOn

LEMMA HookMoves ==
    ASSUME IInv, Turns, app = "stopping", Alive PROVE HooksGetOn
<1>1. /\ hook \in 0 .. Len(order) /\ DOMAIN order = 1 .. Len(order)
      /\ \A i, j \in DOMAIN order : order[i] = order[j] => i = j
      /\ \A i \in DOMAIN order : order[i] \in Hooks
  BY OrderType, OrdersAssumption DEF IInv, TypeOK, HookPhase
<1>2. CASE hook # 0
  <2>1. hook \in DOMAIN order
    BY <1>1, <1>2
  <2>2. At("start") \/ At("ready") \/ At("consumerStop") \/ At("producerStop")
    BY <1>1, <2>1 DEF At, Hooks
  <2>3. CASE At("consumerStop")
    <3>1. service # "stopped" /\ service # "created"
      BY <1>1, <2>3 DEF At, Turns
    <3> QED BY <2>3, <3>1 DEF HooksGetOn, IInv, TypeOK
  <2>4. CASE At("producerStop")
    <3>1. client
      BY <1>1, <2>4 DEF At, Turns
    <3> QED BY <2>4, <3>1 DEF HooksGetOn, Turns
  <2> QED BY <2>2, <2>3, <2>4 DEF HooksGetOn
<1> QED BY <1>2 DEF HooksGetOn

(* The stop is never stuck, for any consumers, messages and order of the   *)
(* hooks: hooks, handlers, closes and messages do not wait for each other  *)
(* in a circle.  This is the part of StopCompletes that fairness has no    *)
(* share in.                                                               *)
THEOREM StopGetsOn == Spec => []StopIsNeverStuck
<1>1. IInv /\ Turns => StopIsNeverStuck
  BY MessagesMove, CloseMoves, HookMoves DEF StopIsNeverStuck, HandlersGetOut
<1> QED BY <1>1, Invariance, TurnsAreTaken, PTL

-----------------------------------------------------------------------------
(* Messages get through *)

(* Only the Close of its producer makes a message go astray. *)
AstrayWhenClosed ==
    \A m \in Prod!Messages :
       stage[m] \in {"drained", "panicked"} => producer[Prod!Kind(m)] # "open"

LEMMA AstrayInit == Init => AstrayWhenClosed
  BY DEF Init, Prod!Init, AstrayWhenClosed

LEMMA AstrayNext == IInv /\ AstrayWhenClosed /\ [Next]_vars => AstrayWhenClosed'
<1> SUFFICES ASSUME IInv, AstrayWhenClosed, [Next]_vars PROVE AstrayWhenClosed'
  OBVIOUS
<1> USE DEF AstrayWhenClosed
<1>0. /\ producer \in [Prod!Kinds -> {"open", "closing", "refusing", "closed"}]
      /\ DOMAIN stage = Prod!Messages
      /\ \A m \in Prod!Messages : Prod!Kind(m) \in Prod!Kinds
      /\ \A m \in AsyncMessages : m \in Prod!Messages /\ Prod!Kind(m) = "async"
  BY MessagesAssumption DEF IInv, TypeOK, Prod!TypeOK, Prod!Kind, Prod!Kinds, Prod!Messages
<1>1. CASE UNCHANGED <<producer, stage>>
  BY <1>1
<1>2. ASSUME stage' = stage,
             \E kind \in Prod!Kinds, label \in {"closing", "refusing", "closed"} :
                producer' = [producer EXCEPT ![kind] = label]
      PROVE  AstrayWhenClosed'
  BY <1>0, <1>2
<1>3. CASE Run
  <2>1. CASE CloseSync \/ CloseAsync
    BY <1>2, <2>1 DEF CloseSync, CloseAsync, Prod!Close, Prod!Kinds
  <2>2. CASE CloseClient
    BY <1>1, <2>2 DEF CloseClient, Prod!CloseClient
  <2>3. CASE ~CloseSync /\ ~CloseAsync /\ ~CloseClient
    BY <1>1, <1>3, <2>3 DEF Run, OnStart, ReadyWait, NoOnStart, Started, NoOnStop,
                           StopConsumers, ConsumersStopped, Stopped, producerVars
  <2> QED BY <2>1, <2>2, <2>3
<1>4. CASE StopApp \/ Ends \/ ReportReady
           \/ \E c \in Consumers : ServiceStep(c) \/ Leave(c) \/ Quit(c)
  BY <1>1, <1>4 DEF StopApp, Ends, Exit, Abort, ReceiveNil, ReportReady, ServiceStep, Leave,
                    Quit, producerVars
<1>5. ASSUME NEW s \in Senders, NEW m \in Prod!Messages, SendBy(s, m) PROVE AstrayWhenClosed'
  BY <1>0, <1>5 DEF SendBy, Prod!Send, Prod!Move
<1>6. ASSUME NEW m \in Prod!Messages, MessageStep(m) PROVE AstrayWhenClosed'
  <2>1. /\ producer' = producer
        /\ \E label : /\ stage' = [stage EXCEPT ![m] = label]
                      /\ label = "panicked" => producer[Prod!Kind(m)] = "closed"
                      /\ label = "drained" => producer[Prod!Kind(m)] \in {"closing", "refusing"}
    BY <1>0, <1>6 DEF MessageStep, Prod!Progress, Prod!Accept, Prod!Refuse, Prod!Panic,
         Prod!GetAnswer, Prod!Forward, Prod!Log, Prod!AsyncProducerSuccessLogHandler,
         Prod!AsyncProducerErrorLogHandler, Prod!Drain, Prod!Return, Prod!Move
  <2> QED BY <1>0, <2>1
<1>7. ASSUME NEW kind \in Prod!Kinds, ShutdownStep(kind) PROVE AstrayWhenClosed'
  BY <1>2, <1>7 DEF ShutdownStep, Prod!Shutdown, Prod!TakeMarker, Prod!CloseChannels
<1>8. CASE UNCHANGED vars
  BY <1>1, <1>8 DEF vars, producerVars
<1> QED BY <1>3, <1>4, <1>5, <1>6, <1>7, <1>8 DEF Next, Ends

(* An answer that nobody has taken is waiting for a forwarder, and that    *)
(* one for its log handler only.                                           *)
LEMMA PendingMoves ==
    ASSUME IInv, Turns, NEW m \in AsyncMessages, Prod!Pending(m)
    PROVE  \E n \in Prod!Of(Prod!Kind(m)) : Prod!CanMove(n)
<1>1. m \in Prod!Messages /\ Prod!Kind(m) = "async" /\ Prod!Of("async") = AsyncMessages
  BY MessagesAssumption DEF Prod!Messages, Prod!Kind, Prod!Of
<1>2. CASE producer["async"] = "closed"
  BY <1>1, <1>2 DEF IInv, ClientOrder, Prod!Pending, Prod!CanMove
<1>3. CASE producer["async"] # "closed" /\ Prod!ForwarderFree(answer[m])
  BY <1>1, <1>3 DEF Prod!CanMove
<1>4. CASE ~Prod!ForwarderFree(answer[m])
  BY <1>1, <1>4 DEF Prod!ForwarderFree, Prod!CanMove
<1> QED BY <1>2, <1>3, <1>4

(* Until the stop no message goes astray, and at no time is one stuck, for *)
(* any number of messages: the part of EveryMessageAnswered that fairness  *)
(* has no share in.                                                        *)
THEOREM MessagesGetOn == Spec => []AnswersGetThrough
<1>1. IInv /\ Turns /\ AstrayWhenClosed => AnswersGetThrough
  <2> SUFFICES ASSUME IInv, Turns, AstrayWhenClosed PROVE AnswersGetThrough
    OBVIOUS
  <2>1. ASSUME app \in {"starting", "running"}, NEW m \in Prod!Messages
        PROVE  stage[m] \notin {"refused", "drained", "panicked"}
    <3>1. producer[Prod!Kind(m)] = "open"
      BY <2>1 DEF Turns, AllOpen, Prod!Kind, Prod!Kinds
    <3> QED BY <3>1 DEF Turns, AstrayWhenClosed
  <2>2. ASSUME NEW m \in Prod!Messages,
               stage[m] \notin {"new", "returned", "logged", "drained", "panicked"}
        PROVE  \E n \in Prod!Of(Prod!Kind(m)) : Prod!CanMove(n)
    <3>1. /\ m \in Prod!Of(Prod!Kind(m))
          /\ m \in SyncMessages \/ m \in AsyncMessages
          /\ stage[m] \in {"sending", "inflight", "answered", "refused", "forwarded"}
      BY <2>2 DEF IInv, TypeOK, Prod!TypeOK, Prod!Messages, Prod!Kind, Prod!Of
    <3>2. CASE stage[m] \in {"inflight", "forwarded"}
      BY <3>1, <3>2 DEF Prod!CanMove
    <3>3. CASE stage[m] = "sending" \/ (m \in SyncMessages /\ stage[m] \in {"answered", "refused"})
      BY <3>3, MessagesMove DEF Prod!Blocks
    <3>4. CASE m \in AsyncMessages /\ stage[m] \in {"answered", "refused"}
      BY <3>4, PendingMoves DEF Prod!Pending
    <3> QED BY <3>1, <3>2, <3>3, <3>4
  <2> QED BY <2>1, <2>2 DEF AnswersGetThrough
<1> QED BY <1>1, AstrayInit, AstrayNext, Invariance, TurnsAreTaken, PTL DEF Spec

-----------------------------------------------------------------------------
(* The application uses the consumers as ConsumerService allows *)

LEMMA ConsumerNext == [Next]_vars => [Consumer!Next]_(Consumer!vars)
<1> SUFFICES ASSUME [Next]_vars PROVE Consumer!Next \/ UNCHANGED consumerVars
  BY DEF Consumer!vars, consumerVars
<1>1. CASE Run
  BY <1>1 DEF Run, OnStart, ReadyWait, NoOnStart, Started, NoOnStop, StopConsumers,
              ConsumersStopped, CloseSync, CloseAsync, CloseClient, Stopped, Consumer!Next
<1>2. CASE StopApp \/ Ends \/ ReportReady
  BY <1>2 DEF StopApp, Ends, Exit, Abort, ReceiveNil, ReportReady, Consumer!Next
<1>3. ASSUME NEW c \in Consumers, ServiceStep(c) \/ Leave(c) \/ Quit(c) PROVE Consumer!Next
  BY <1>3 DEF ServiceStep, Leave, Quit, Consumer!Next
<1>4. CASE \/ \E s \in Senders, m \in Prod!Messages : SendBy(s, m)
           \/ \E m \in Prod!Messages : MessageStep(m)
           \/ \E kind \in Prod!Kinds : ShutdownStep(kind)
  BY <1>4 DEF SendBy, MessageStep, ShutdownStep
<1>5. CASE UNCHANGED vars
  BY <1>5 DEF vars
<1> QED BY <1>1, <1>2, <1>3, <1>4, <1>5 DEF Next, Ends

(* Every behaviour of the application is, for its consumers, one of the    *)
(* service that ConsumerLifecycle implements: the hooks ask for nothing it *)
(* does not offer.                                                         *)
THEOREM UsesTheService == Spec => Consumer!Spec
<1>1. Init => Consumer!Init
  BY DEF Init
<1> QED BY <1>1, ConsumerNext, PTL DEF Spec, Consumer!Spec

Promise == INSTANCE ConsumerService_proofs

(* So the application may rely on the contract of the service. *)
THEOREM ContractIsKept == Spec => []Promise!Contract
<1>1. Consumer!Init => Promise!Init
  BY DEF Consumer!Init, Promise!Init
<1>2. [Consumer!Next]_(Consumer!vars) => [Promise!Next]_(Promise!vars)
  BY DEF Consumer!Next, Promise!Next, Consumer!vars, Promise!vars, Consumer!Start,
         Promise!Start, Consumer!ReportReady, Promise!ReportReady, Consumer!BeginStop,
         Promise!BeginStop, Consumer!EndStop, Promise!EndStop, Consumer!GetReady,
         Promise!GetReady, Consumer!Enter, Promise!Enter, Consumer!Leave, Promise!Leave,
         Consumer!Quit, Promise!Quit
<1> QED BY <1>1, <1>2, UsesTheService, Promise!ContractIsKept, PTL
        DEF Consumer!Spec, Promise!Spec
=============================================================================
